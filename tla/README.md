# copilot-proxy-rs in TLA+

The proxy accepts OpenAI Chat Completions, OpenAI Responses and Anthropic
Messages requests and serves each through whatever its model has: Copilot's
chat, messages or responses endpoint, or a chat server configured as a local
model. This directory models the parts of it whose correctness depends on
concurrency, failure, time or the order of events, checks the models with TLC
on small instances and proves what matters most with TLAPS for all instances.
Paths below are relative to the repository.

* [Inventory](#inventory): the components, and what is hard about each
* [Modules](#modules): which module models what, and how it maps to the code
* [Runs](#runs): what TLC checks, the bounds, the fairness
* [Proofs](#proofs): what is proved, from what, along which argument
* [Findings](#findings): where the code and its documents disagree
* [Not modelled](#not-modelled) and [Plan](#plan)

## Inventory

State is kept in `AppState` (`src/state.rs`) and shared by all requests; every
request is a task that may be dropped at any `.await` when its client goes away.

| Component | State | Operations | Hard because | Correct if |
|---|---|---|---|---|
| Authentication, `src/auth.rs` | GitHub token, Copilot token with expiry, refresh lock, token file | `copilot_token`, refresh, device flow, persist | callers race while the token expires, may be dropped while they hold the lock; GitHub fails, revokes; the file is replaced from outside | one exchange at a time, none while a token is fresh, never an older token in place of a newer, nobody waits for ever unless for GitHub, a rejection does not stick |
| Copilot client, `src/copilot/client.rs`, `src/copilot/request.rs` | per request: attempt, headers, body; shared: rate limiter, whether betas and ciphertext are refused | `post_json`, `stream_request`, `get_json`, fallbacks in `post_chat`, `stream_chat`, `post_responses`, `stream_responses`; `acquire`; `compute_initiator`; `connect_responses_websocket` | retries within fallbacks within the handler's retry of streams that fail early; sleepers and new callers share a bucket without a queue | nothing refused is sent again as it was, sends are bounded, ciphertext goes only for a reason, the rate is kept and no refill lost, a request says rightly who initiated it |
| Model registry, `src/models.rs` | list of models, when it was fetched | `list_for_snapshot`, `set_copilot_models`, resolution of names, efforts and endpoints | refreshes overtake each other; one request reads the list several times | the model the client meant, an effort and an endpoint it has; what is advertised is what is used |
| Responses state, `src/responses/state.rs`, `src/responses/request.rs` | deque of transcripts | `cache_response_state`, `get_cached_response_state`, `expand_previous_response` | branches, eviction, truncation, restarts, four routes with different needs | a follow-up reaches its model with its own history or not at all |
| Stream adapter, `src/local/responses.rs` (`ChatToResponsesStream`) | items under construction | `map_line`, `fail` | chunks arrive in any order, break off, contradict each other; tool calls interleave | the event protocol of the Responses API; nothing lost, mixed or repeated; a truncated stream is never a success |
| Responses handlers, `src/http/responses.rs` | per stream: where the body's generator is, chunks held back; per search: the conversation so far; per WebSocket: the turn being bridged | live streams, streams opened before an emulated web search and its rounds, replay of whole answers, the guarded relay, the WebSocket bridge | the client may go between any two frames; the answer is cached before its last event is sent; a prefix is passed on or dropped as a whole; a bridged turn has one backend connection and no timeout | as above, and a completed answer can be continued; each round of a search sees what all before it found; the frames of turns reach the client apart, in order and whole |
| Format translation, `src/translate/responses_formats.rs`, the pure half of `src/local/responses.rs` | per chat stream: calls seen | requests, whole answers and streams between three formats | what it makes of one turn comes back as the history of the next; formats group and number parts differently | what was said comes back as it was said, by whom and in its order |
| Chat and messages handlers, `src/http/chat.rs`, `src/http/messages.rs` | none | choose endpoint, translate there and back | they read the registry several times | as registry and translation |
| Model statistics, `src/model_stats.rs` | catalog, cache of entries, which ids are resolved, fetch and back-off state, file | `sync_models`, `refresh_if_stale`, background fetch, file writes | three locks taken one after another, file writes in any order, stale files | what counts as resolved was looked up; the file catches up |
| SSE framing, `src/http/sse.rs` | the present line, whether it is over the limit | bytes to lines, lines to frames | bytes are split anywhere, the body ends or breaks, limits count within and across chunks | the lines are the body's own, a relay changes no byte |
| Model router, local client, configuration, validation, API keys, telemetry, compaction prototype | none or read-only | - | little: single calls, no retries | see [Not modelled](#not-modelled) |

How they interact: a handler asks the *registry* for model, effort and endpoint
(which may make the *client* fetch the list); for a Responses request it asks
the *Responses state* for the history; it *translates*; the *client* takes a
token of the *limiter* and a Copilot token of *authentication* for every
attempt; the answer passes the *adapter*, the *SSE framing* and the way back
through the *translation*; a completed answer of a Responses turn is put into
the *Responses state*. The hazards in `PROJECT.json` give the lines where each
of these bites.

## Modules

Every definition that models code carries the name of what it models where TLA+
allows, and `PROJECT.json` maps it to its lines. Definitions commented
"Mutant:" are deliberately wrong variants; substituted for the definition after
them they must break the property `PROJECT.json` names.

| Module | Models | Composition |
|---|---|---|
| `ChatToResponsesStream` | the adapter: pure operators from its state and a line to a new state and frames | used by `ResponsesStreaming`; `ResponsesStreamingProofs` |
| `ResponsesProtocol` | abstract: what a Responses client may rely on | refined by `ResponsesStreaming` |
| `WebSearch` | the rounds of emulated web search before a streamed answer | extended by `ResponsesStreaming` |
| `ResponsesStreaming` | one streamed response: upstream, handler (local, Copilot chat, emulated search), client | `MCResponsesStreaming`, `ResponsesStreamingProofs` |
| `SseFraming` | bytes of an upstream body to lines, on four kinds of route, with the guarded prefix | `MCSseFraming`, `SseFramingProofs` |
| `ResponsesWebSocket` | one client connection and the backend connections of its turns | `MCResponsesWebSocket`, `ResponsesProofs` |
| `CopilotAuth` | `auth.rs` and the world around it | `CopilotClientProofs` |
| `ResponsesState` | the store and how the four kinds of route use it | `MCResponsesState`, `ResponsesProofs` |
| `CopilotRequest` | one client request's loops, fallbacks and retries | `CopilotClientProofs` |
| `TokenBucket` | the limiter | `CopilotClientProofs` |
| `ModelStats` | `ModelStatsStore` | `MCModelStats`, `ModelStatsProofs` |
| `ModelRouting` | the registry, its refreshes, the handlers' choices | `MCModelRouting`, `ModelRoutingProofs` |
| `Translation` | the format translation: pure operators | used by `TranslatedConversation` |
| `TranslatedConversation` | a client and a model in conversation through it | `MCTranslatedConversation`, `TranslatedConversationProofs`, `ConversationTurnsProofs` |

**ChatToResponsesStream, ResponsesStreaming.** `adapter` is the struct's fields;
`MapLine` is `map_line` with all it calls. `ResponsesStreaming` is the body's
generator: `pending` holds the frames of one mapped line, which it hands over
one by one, so that the client (`Disconnect`) may leave between any two. The
client's side (`opened`, `items`, `finished`, `outcome`, ...) is what a conforming
client builds from the frames. Contents are sequences of fragments; ids, names and
usage are the few values the code tells apart (absent, given, in conflict).

**WebSearch.** `resolve_web_search_calls`: `round` probes have been sent,
`messages` is what the rounds added to the conversation, `appended` the message of
the present round with the results it has so far. A search either finds
something or reads as unavailable, as the code makes of any failure. It is
composed with the stream: `BeginSearch`, `SearchNotNeeded`, `Searched` and
`SearchFailed` tie its stages to the open stream, and a client that goes drops
both. The non-streaming route runs the same function with nothing around it.

**SseFraming.** A byte is a name, and a body a sequence of them; chunks are cut
anywhere (`Chunk`), and one action scans one byte. `held` is the guarded prefix,
by where its chunks begin and end. `seen` is history: the lines handed over, by
where each ended. What is a line and what must be shown is defined from the
whole body (`Raw`, `AllEnds`), and the reader is compared with that. The limit
of a line and that of the prefix are both `max_decoded_body_bytes`.

**ResponsesWebSocket.** The task is at one place (`stage`) of its loop: reading
the client, preparing a turn, connecting, bridging. Messages of a backend on
their way are numbered (`wire`), so that a frame at the client shows which
backend it is from (`turn`, `from`). Client and backends act whenever they like;
a broken connection loses what was on its way.

**CopilotAuth.** A call is at one of the awaits of `copilot_token` and
`refresh_copilot_token` (`pc`): waiting for the lock, checking again, obtaining a
GitHub token, in the device flow, writing the file, at GitHub, with its answer.
The lock is tokio's FIFO mutex (`queue`). `Cancel` drops a call at any await and
with it the lock. GitHub gives a Copilot token, refuses the GitHub token (401,
`accepted`), gives it nothing (403, `denied`) or fails otherwise, which is the one
outcome that is bounded; it may also never answer. `TimePasses`, `Revoke`,
`Subscription` and `ReplaceFile` are the world.

**ResponsesState.** A turn begins with or without `previous_response_id`
(`FollowUpHit`, `FollowUpMiss`, `FirstTurn`), and ends answered (`Complete`),
abandoned or by a restart. An item is named by its turn, so that a transcript
shows where it came from. Two variables are history. `whole` is the conversation
of a response: all the turns it continues, wherever they went, and its own.
`lost` is how much of that, from its beginning, the store had nothing of when a
turn continued it: all of it after a miss, what was lost before after a hit.
`Known` is the rest, and what the store can be expected to remember.

**CopilotRequest.** A request is reduced to what an upstream can refuse in it:
ciphertext, the effort, betas. `loop` is which of the nested loops it is in, and
every exit of a loop is an action. Delays only take time and are left out;
the limiter is a module of its own.

**TokenBucket.** Arithmetic in ticks, exact where the code's is in `f64`: the
bucket holds ticks' worth of tokens. A sleeper may wake late.

**ModelStats.** One action between any two lock acquisitions of `sync_models`,
`refresh_if_stale` and the background task, the two of `needs_refresh` included
(`CheckBackOff`, `CheckStale`); the catalog under the state's lock
is the one nested acquisition. An entry is the number of the catalog it was
computed from. The panic of a task is not modelled; it has no step that panics.

**ModelRouting.** A request goes check, fetch, store, resolve, effort, route; the
list may be replaced before each. `seen` is history: the lists in force since
the request's refresh.

**Translation, TranslatedConversation.** What is said is a sequence of parts
(text, call, result). The client sends its whole history with each request, as
its format has it; `Ask` is the handler up to the upstream, `AnswerWhole` and
`AnswerStreamed` the way back, with a client that assembles what it receives.
Clients and models are external and keep to their formats; streams repeat
announcements, close items late, and break off. A text that a format joins from
several remains those several. `Initiator` is the `X-Initiator` header the proxy
computes for each request of the conversation, and `Suggestions` are the texts that
begin with "[SUGGESTION MODE:", with which the agent behind a Messages client asks
for one. A model thinks without a text, or with one that comes in the reasoning
item's content (`Thought`); a turn may end at the model's limit (`truncated`). `Id` numbers the parts of a turn
behind those of all earlier turns, since models and the proxy do not use the id of
a call twice.

## Runs

All runs finish with two workers within three minutes; distinct states in
brackets.

| Run | Question | Bounds |
|---|---|---|
| `stream` (506k) | Whatever a chat upstream sends and wherever it stops, does the client get the protocol, everything sent, once and unmixed; is a truncated stream never a success; is what completes cached and only that; does every stream end; does each probe of a search, and the answer, go upstream with all that was found before? | five upstream lines (`MaxLines`), drawn from the kinds `MCResponsesStreaming` lists, two tool indices, both tool kinds; all three rounds of search |
| `sse_framing` (564k) | Are lines those of the body, is a relay untouched, is the upstream asked again for the first failure only, does a mapped stream fail only over a line that deserves it? | bodies of up to six bytes over the alphabets `MCSseFraming` lists, cut everywhere; a limit of four bytes |
| `websocket` (635k) | Do the frames of a client's turns reach it apart, in order and whole; is every message dealt with? | two messages of any kind, three frames of each backend |
| `auth` (538k) | Single flight, no redundant exchange, newest token kept, every call returns unless GitHub keeps it, recovery from a rejection | two callers, two GitHub tokens, all of environment, file and terminal, 401 and 403 as often as may be, one other failure and one cancellation, clock to 2, three tokens issued |
| `responses_state` (1,995k) | Is a transcript the tail of what was known of its own conversation, does history reach the upstream, does the store forget by recency? | store of 2, transcripts of 3 items, five turns by two clients, one restart |
| `copilot_request` (49k) | Is nothing refused sent again, are sends bounded, is ciphertext kept, is every request answered? | two retries, two betas, all endpoints, whole and streamed |
| `token_bucket` (16k) | Is the rate kept over every stretch of time, is no refill lost, is everybody served? | bucket of 2, 3 ticks to a token, two callers, five calls, windows of 5 ticks |
| `model_stats` (825k) | Was what is resolved looked up, does it stay, does the file catch up? | two ids, two listers, two catalogs, two writes under way, one failure, one restart from a good or a bad file |
| `model_routing` (215k) | Is the model the one meant, the effort and the endpoint one it has, is what is advertised what is used? | one client that asks for anything, one that refreshes, two lists that disagree |
| `conversation` (379k) | Is the model shown the history as the client has it, is the client given the turn as it was said, is what the proxy produced accepted back, does the request say who initiated it? | eight routes, a first turn of three parts and a second of one, three requests, each of which may be one for a suggestion; tool lists with and without clashes |

`search_own_calls` and `conversation_follow_up` are expected to be violated: see
[Findings](#findings).

*Why these bounds are enough.* Two of each actor are enough for every race in the
code: a lock, a bucket, a list or a file is contended by pairs, and no handler
counts the others. Bounds on data are one above the point where the limit bites:
a store of two evicts with three responses, a transcript of three items is cut
by the second turn, five stream lines hold two calls opened, filled and finished,
three parts hold two calls and a text in any order. Six bytes hold a line over a
limit of four with its end and a line after it; three frames are one that is
skipped, one that is relayed and one that ends a turn, and with two messages one
turn can disturb the next. The proofs remove the bounds where they cover the
property.

*What is left to the model's world.* `model_stats` and `copilot_request` stop
(`CHECK_DEADLOCK FALSE`) when a request is done or the bounds are used up; so do
`stream`, `responses_state`, `auth`, `conversation` and `websocket`.
`token_bucket` and `model_routing` never stop and are checked for deadlock, and
so is `sse_framing`, whose only steps without effect are those of a body that is
over.

*Types* are proved for authentication, requests, the limiter, statistics,
routing and the WebSocket, and are part of the invariant of the state store and
the framing; no run repeats them.

*Symmetry* is used for clients and listers only in runs without liveness.

*Fairness.* Each liveness property assumes only what the code's scheduling gives:

* `stream`: the generator goes on while the client is there (hyper polls it). An
  upstream need not send anything, but ends or times out: `Proceed` includes the
  end of its body. The HTTP clients have timeouts
  (`src/copilot/client.rs:1053`, `src/local/client.rs:73`).
* `auth`: a call that can go on by itself does (`OwnStep`). Nothing is assumed of
  GitHub or of the user a device flow asks: the HTTP client of the exchange has no
  timeout (`src/auth.rs:110`), so `GithubStep` has no fairness. What that leaves is
  in the properties: `EveryCallReturns` says that a call waits for ever only if
  some call is with GitHub for ever (`GithubHangs`), and that call blocks all
  behind it; `RecoversFromRejection` excepts the same. Requests keep coming, for
  `RecoversFromRejection`. The mutex is fair, so weak fairness is enough.
* `token_bucket`: time passes and the runtime runs whoever is awake. Calls are
  bounded: with an endless supply of overtakers a sleeper may indeed starve.
* `copilot_request`: an upstream answers, or the request's timeout passes. The wait
  for the Copilot token before each send is part of a step here; it ends unless
  GitHub hangs, see `auth`.
* `websocket`: the task of the connection is polled while there is something to
  read (`Handle`). Nothing is assumed of client and backend, nor that the token
  or the connection ever comes, because nothing there has a timeout;
  `EveryMessageServed` says what that leaves.

`ResponsesStreaming` refines `ResponsesProtocol` (`RefinesProtocol`): an item is
open between its announcement and its end; anything that happens twice maps to
an outcome the promise does not have.

`DeliveredAsSaid` leaves out streamed Messages turns with two texts or with a call in
front of a text, and `RoutedAsListed` chat requests under a name that stands for
another model and requests whose refreshes saw lists that disagree, because the code
gets them wrong: see below. `EffortSupported` leaves out what is translated to
Responses, which keeps its own effort. `RecoversFromRejection` leaves out a token in
memory that GitHub accepts but gives nothing for (403): `refresh_copilot_token` drops
the GitHub token on 401 only. `DeliveredAsSaid` allows `tool_use` as well as
`max_tokens` for a truncated Messages turn with calls, and asks of a chat client only
that it is told whether there are calls. `LinesAsSent` needs, where each chunk is
decoded on its own (`src/http/sse.rs:93`), that no character is cut.

## Proofs

TLAPS checks, for every value of the constants:

| Module | Theorems | Assumptions |
|---|---|---|
| `CopilotClientProofs` | authentication: `AuthTypeOK`, `SingleFlight`, `NoRedundantExchange`, `NewestTokenKept` | `AuthAssumption`: any callers, tokens, margin, lifetimes and bounds |
| | requests: `TypeOK`, `RefusedNotRepeated`, `SendsBounded`, `CiphertextKept` | `RequestAssumption`: finitely many betas |
| | limiter: `BucketTypeOK`, `RateBound`, `SleepsAgainOnlyIfOvertaken` | `BucketAssumption`: a rate and a resolution of at least one |
| `ModelRoutingProofs` | `TypeOK`, `ModelIsMeant`, `EffortSupported`, `RoutedAsListed`, `AdvertisedIsRouted` | any lists, aliases, overrides, families; version numbers with a largest one |
| `ModelStatsProofs` | `TypeOK`, `ResolvedWasLookedUp`, `DiskCatchesUp`, `ResolvedStaysAsItWas` | any ids, listings, files and bounds |
| `SseFramingProofs` | `LinesAsSent`, `RelayedIntact`, `RetriedForFirstFailure`, `FailedForCause` | `FramingAssumption`: any bodies, limit, mapper and classification, as long as an empty line is neither refused nor decides |
| `ResponsesProofs` | store: `StoreBounded`, `TranscriptIsTail`, `HistoryReachesUpstream`, `KeepsMostRecentlyUsed` | `StateAssumption`: limits of at least one |
| | WebSocket: `SocketTypeOK`, `TurnsRelayed` | any number of messages and frames |
| `ResponsesStreamingProofs` | stream: `LiveContentPreserved`, `OutputIsWhatWasStreamed`, `NothingLostOrMixed`, `TruncatedNeverSucceeds`, `CompletedIsCached`, and that `ResponsesStreaming` implements `ResponsesProtocol` (`RefinesProtocol`); of the adapter's operators `OutputListed`, `LineFaithful` | `StreamAssumption`: any lines, with any number of tool-call deltas, and any finished turns; `ToolAssumption`: any names and kinds of tools, any notion of a valid custom input |
| | search: `FindingsReachUpstream` | `AnswersAssumption`: answers with any calls |
| `TranslatedConversationProofs` | `PromptIsHistory`, `InitiatorFollowsTurn`; of the operators `TranslationKeepsWords`, `ItemsKept` | `ConversationAssumption`: any routes, names, namespaces and tool lists (plain functions but with `/v1/responses`), turns of any length, as many as there may be, streams that break off anywhere |
| `ConversationTurnsProofs` | `DeliveredAsSaid`, `FollowUpAccepted`; of the operators `TakenIfAccepted` | the same |

*Authentication.* `SingleFlight` is not inductive: nothing in it says why a second
caller cannot come in. `LockHeld` (whoever is past the wait holds the lock)
implies it and is kept, because only `AcquireLock` and the head of the queue get a
lock that is free. `NewestTokenKept` needs `AnswersAreNewer`: an answer under way
was issued after the cached token, which holds because the cache is written only
under the lock and GitHub numbers what it issues. The proofs take every answer of
GitHub's, and none, into account: no fairness is used.

*Responses state.* `TranscriptIsTail` needs to know what a turn under way will
store (`TurnContinues`), that what was lost of a conversation is no more than the
conversation (`LossFits`), and that no stored response has its number
(`TurnsAreNew`), or `Complete` could overwrite another's entry. The heart is a
lemma on sequences, that the tail of a tail with more appended is the tail of
the whole. Recency needs the deque to be in the order of use (`InOrderOfUse`).
`StoreBounded` is a part of the invariant and proved, not checked by a run.

*Requests.* A refused request cannot return because each way of going on makes
the request smaller than all refused before (`RefusedAreOlder`,
`FirstLoopBody`). The bound on sends charges each to a retry, a beta or a loop
(`SendsPaid`), with `Removed` counting betas by the library's theorems on
cardinality.

*Limiter.* `RateBound` alone is not inductive: what matters is that grants and
what could be granted now come from the bucket as it was and the time since
(`Balance`). `Enough` says that a sleeper nobody overtook will find its token.

*Routing.* `MeantBy` says what a name means without the order in which
`get_copilot_openai_model` looks: a name is configured (`Configured`), or there are
models it may stand for (`Candidates`), or neither, and each case excludes the
others. What is promised of a request on its way is only promised once it is
sent; the invariant says what is known at each place before (`Chosen`,
`Adapted`, `FirstLook`, `Settled`), always by some list the request has seen, and
that the list in force is one of these (`SeesWhatIsThere`): the choices of
several reads are then all choices by lists seen, and if those agree the second
look finds what the first did. That a newest model of a family exists, and a
nearest effort, needs smallest and largest elements of sets of numbers, from the
library's theorem on well-founded relations.

*Statistics.* `ResolvedWasLookedUp` rests on `CatalogSeen`: who counts an id as
resolved knows of a catalog, and a catalog never goes; and on `FilesSound`, for a
restart from whatever file. `DiskCatchesUp` speaks of a quiet system; the
invariant `FileFollows` speaks of every moment: either the write handed out last
is still to run and has the cache as it is, or all that is left is stale and the
file has it. It needs `LockHeld`, from a listing's first change to its write.

*Framing.* The buffer holds the present line so far, or that line is over the
limit and is being skipped (`Buffered`), whose beginning is where a line begins
(`LineBegan`); held chunks lie one behind the other up to what is still to
arrive (`Queue`), so that nothing is lost or repeated when a prefix is passed
on; and no line of the prefix before the present one decided (`Prefix`).
`FailedForCause` needs the converse for lines: no line read so far deserved a
failure (`ShortSoFar`), and a stream that has failed has such a line in what it
had read (`Blamed`).

*WebSocket.* `TurnsRelayed` says nothing of a turn under way. `Bridged` says that
there is a number of its backend's messages that are dealt with: the texts among
them are all the client has of the turn, and the rest is on its way, in order.

*Stream.* The properties speak of what the client has put together; the frames of
a line reach it one by one, and meanwhile the adapter is ahead. `Leads` closes
the gap: events *lead* a client from one view to another if each is allowed by
`ResponsesProtocol` when it comes. Each method of the adapter has a lemma that the
events it returns lead from what the adapter had announced to what it has
announced then (`Good`, `Matches`), and that nothing the line brought is lost or
put elsewhere (`Holds`): the loop over the tool-call deltas of a chunk by
induction on their number, as the least one that fails. `LineFaithful` is the sum,
for any line and any state of the adapter its invariant allows (`AdapterInv`).
The inductive invariant `StreamInv` says then that the frames on their way lead
the client to what the adapter has (`ToldInv`); `Deliver` takes the first of them
and the rest lead on. A turn that a search has already resolved has no adapter
behind it, and `TurnReplayed` shows that its frames lead a new client to the whole
turn. `LiveContentPreserved` and `RefinesProtocol` follow for every frame as it is
delivered; `NothingLostOrMixed` needs in addition that calls and tool indices are
as many, from the library's theorems on cardinality.

*Search.* `FindingsReachUpstream` speaks of every moment, the middle of a round too.
`SearchInv` says that the conversation consists of rounds (`Rounds`), that the
round under way has the results of the searches made so far (`Answered`), and
`RoundJoins` that it becomes a round of the conversation with its last result.

*Conversation.* The translations are left folds, and a left fold has a value for
every prefix of its input: taken as a function of the prefix's length, it can be
reasoned about without induction over data, by the least prefix at which a claim
fails. The claim for `TranslateInputItems` (`ItemsKept`) is that the messages and
pending calls of a state say together what the items so far said (`Told`);
for the blocks of a Messages request, that items and gathered texts do (`SaidSoFar`).
Put one behind the other they give `TranslationKeepsWords`: from whatever a client
of a format has recorded, over one translation or two, the model is shown the
words of the history, system messages in front. `PromptIsHistory` says this of
every request that is sent, and that needs `ConversationInv`: the history is in
its format, and the prompt is what it was translated to (`PromptKept`). The
history grows by what the client received, so that whatever an answer comes
through must hand the client parts that a model can say (`GotTyped`), also a
stream with repeated announcements, closed late, or cut anywhere. A client is
between two whole blocks at the end of each item's burst of events (`BurstShown`
for Messages, `BurstRelayed` for chat), and one that is told the end is told it
behind a whole burst; a call comes back with a tool the request declared
(`RegisteredTyped`). `InitiatorFollowsTurn` relates what the client did to one
message at the end of a request translated twice, and needs to know how a history
ends (`HistoryEnds`): with the user's words or the results of calls, and with the
user's words if there are any behind the model's last turn. That a request with
something new ends so, whatever came before it, is `RequestEnds`; that a user's words come out as the last message, and
as a request for a suggestion if they are one, is `WordsPrompted`; that no translation
makes an item or a message that says nothing (`ItemSpeaks`,
`MessageSpeaks`) makes the last message that of the history's last line
(`RequestAttributed`).

`DeliveredAsSaid` is about one turn. `DeliveryInv` says that what the client holds
of an answer that has ended is `Fine`: its calls have rising ids, and unless the
Messages stream mixes up blocks it is what was said and has an ending that goes
with it (`Delivers`). A turn is the sequence of its items (`Said`; for
a whole chat answer with its thoughts as texts, `Utterance`), and each client is followed burst by burst: after
n items a Messages client has in its blocks what the first n items say
(`ShownSaid`), a chat client their texts in one place and their calls in another,
numbered in their order (`RelaySaid`). The names a chat model is sent come back as
the tools they were made from, because a request with a clash is refused
(`Registered`). `ConversationAssumption` says that only requests to
`/v1/responses` declare namespaces and custom tools: of a tool of any other
request the proxy makes a plain function
(`src/translate/responses_formats.rs:184`, `:460`).

`FollowUpAccepted` is about all turns. Its heart is a characterization of
`translate_input_items`, `TakenIfAccepted`: what it takes are exactly the inputs
whose lines are `Accepts`: no two calls and no two results have one id, each
result has its call in front of it (`AnsweredLater`), nothing but results and,
right behind the call, further calls comes before a call has its result
(`AnsweredFirst`), and in the end nothing waits. What the function keeps in
`pending`, `outstanding` and `known` is then what the lines say is waiting and was
called (`Holds`, `Keeps`). Two such conversations, one behind the other, are one if
no id is in both (`AcceptedBehind`), and a turn with the answers to it is one if
the model says nothing behind its calls and the client answers first
(`TurnAccepted`). The invariant, `FollowUpInv`, is that the history is `Accepts`
with ids below those of the next turn, unless somewhere the model has spoken
right behind a call. It needs `DeliveryInv`: ids are new because the client has
been given each call once. And a history in which the model has spoken right
behind a call is always refused on the way to chat: the words stay behind the call
when the system's are taken out of the input (`SpokenStays`), and what is behind
a call must be a call or a result (`AcceptsNone`).

*Only model-checked:* liveness (`EventuallyEnds`, `EveryCallReturns`,
`RecoversFromRejection`, `EveryCallGranted`, `EventuallyAnswered`,
`EveryMessageServed`), which needs ENABLED and is beyond the prover. Every invariant
of a passing run is proved.

## Findings

Checked, each by a run that finds the counterexample:

1. **The proxy refuses its own output** (`src/local/responses.rs:1323`,
   `conversation_follow_up`). A chat stream with content after a tool call
   becomes `[call, message]`, and the follow-up with these items is refused with
   "tool call group missing outputs before message".
2. **A turn with the client's own calls is thrown away** (`src/http/responses.rs:675`,
   `search_own_calls`). A text that promises a search is taken for a turn that
   ends "with an intent and no findings", also when the turn calls the client's
   own tools, as in "Let me search the repository" with a call of a shell: the
   upstream is asked again with `tool_choice` forced to web search.

Met while modelling, not checked by a run:

* A whole answer is replayed with its text already in
  `response.output_item.added` and then again as a delta
  (`src/http/responses.rs:865`); the comment below it promises the shape of
  a live stream.
* A token GitHub rejects is dropped from memory only, and a rejected token in the
  file is read again for ever (`src/auth.rs:145`); README.md:107 promises a
  device flow if no usable token is available. One that it answers with 403 is not
  even dropped from memory (`src/auth.rs:246`): a better one in the file is not
  read before a restart. A request for a Copilot token that GitHub never answers
  holds the refresh lock for ever (`src/auth.rs:110`, `:210`).
* A turn of the Responses route whose history the store does not have goes
  upstream with its `previous_response_id` and, not streamed, is then cached with its
  own input and output only (`src/http/responses.rs:467`). The next turn finds
  that, sends it in place of the id (`src/responses/request.rs:45`), and what was
  said before the forwarded turn reaches nobody. `TranscriptIsTail` and
  `HistoryReachesUpstream` say what holds instead: nothing of what the store ever
  had of the conversation (`Known`) goes missing on top of that.
* The chat route asks for the endpoints of the requested name instead of the
  model it stands for (`src/http/chat.rs:111`), so a static fallback is routed to
  chat; README.md:227 says fallbacks route through the Responses API.
* Search: narration in the third round sets `force_search`, but the rounds are
  over and the final request is not forced. A message that mixes searches with
  the client's own calls joins the conversation whole, and only the searches are
  answered. The final answer still offers `web_search`; a call of it reaches the
  client as a call of a function it never defined (the comment at
  `src/local/responses.rs:1700` is about that case).
* Framing: the local chat stream (`src/http/chat.rs:251`) drops lines that begin
  with `data:` and no space. Mapped routes decode chunk by chunk, so a character
  cut between chunks is lost (`src/http/messages.rs:114`, `:163`,
  `src/http/chat.rs:179`, `:217`). A guarded answer whose first chunk is over the
  limit is refused even if its first line decides. The check of a line's length
  inside the prefix (`src/http/responses.rs:68`) can never be reached.
* WebSocket: only `response.completed` and `error` end a turn, so a backend that
  ends with `response.failed` or `response.incomplete` and keeps the connection
  holds the client's next message for good; one that closes without a word
  leaves the client without a frame that ends its turn. The answer to a
  `generate: false` message has an id that is never stored, and a turn that
  continues it passes that id upstream. Turns of a WebSocket are not cached, do
  not pass the limiter, and neither their token, their connection nor their
  bridge has a timeout.
* On the Responses route every plain user turn is sent as `agent` once the
  conversation has a tool output (`src/copilot/request.rs:81`);
  `tests/copilot_request_contract.rs:9` is called
  `initiator_is_agent_for_tool_continuations_and_user_for_plain_user_turns`.
  `InitiatorFollowsTurn` says what holds instead. Only `messages_initiator` knows
  requests for a suggestion (`src/copilot/request.rs:71`): from a Messages client
  they are the agent's if the model is reached through chat and the user's if it is
  reached through Responses.
* A streamed Messages answer numbers text blocks by `content_index` and tool blocks
  by `output_index` (`src/translate/responses_formats.rs:650`): a call in front of
  a text, or a second message, reuses an index.
* `anthropic_stop_reason` (`src/translate/responses_formats.rs:585`) returns
  `tool_use` before it looks for truncation, though its comment says truncated
  output must surface as `max_tokens`; `DeliveredAsSaid` allows both.
  `responses_to_openai_chat_response` does not look at the status at all and takes
  the text of every output item, reasoning too, into the answer; other clients are
  not shown it. A chat client is told `stop` for a whole answer that was truncated.
  `ResponsesToChatStream` ignores `response.incomplete` and `response.failed`: such
  a chat stream ends without a finish reason. A failed response leaves an
  Anthropic client without an event.
* Every caller that queued behind a failed token exchange makes one of its own
  (`src/auth.rs:203`; the comment at line 84 says "at most one refresh").
* `next_attempt` is read before `in_flight` is taken (`src/model_stats.rs:773`): a
  listing that looked before a fetch failed starts the next one at once, against
  the back-off of `docs/model-stats.md:58`.
* A replay always ends with `response.completed`, an incomplete turn too
  (`src/http/responses.rs:942`).
* README.md says a request whose ciphertext is refused is retried once; the
  handler's retry and the client's fallback add up to three loops, and a
  nameless early failure is retried too.
* Messages requests translated to Responses keep an effort the model may not
  have; an effort the proxy does not know is sent as the highest.
* The history of a namespaced tool's calls goes upstream under the tool's plain
  name while the tool is offered under its namespaced one. A chat model that
  uses a call id again in a later turn gets the conversation refused.
* A transcript that was cut between a call and its output is refused for ever.
* `Retry-After` is parsed as `f64` and given to `Duration::from_secs_f64`, which
  panics on a negative number.

## Not modelled

* **Model router** (`src/http/model_router.rs`), **local client**
  (`src/local/client.rs`): one call each, no retry, nothing kept.
* **Configuration, validation, error bodies, API keys, telemetry, start-up**:
  stateless, or done once before the first request.
* **Compaction prototype**: a separate binary the proxy does not call.
* **`translate/openai.rs`, `translate/anthropic.rs`, `translate/responses_stream.rs`**:
  they repair single fields and have no state.
* In what is modelled: token counts, metadata, images, the thinking blocks of Messages requests,
  `tool_choice`, log output; the delays between retries; panics. Of the search,
  the request that `delegate_web_search` makes is one of `CopilotRequest`'s and
  is seen here only by its outcome.

## Plan

Order: what all requests share first, then what one request does, then the
formats. Done: the adapter and its streams, authentication, the Responses state,
the Copilot request and limiter, statistics, routing, translation, framing, web
search and the WebSocket. Left:

1. `StoredConversation`: `ResponsesState` composed with `Translation`, for
   transcripts cut between a call and its output, and for conversations that
   change their route.
2. `tool_choice`, merging of the configuration and matching of model names as
   operators, each against a reference definition.
3. Proofs: the liveness properties, should the prover come to do ENABLED.
