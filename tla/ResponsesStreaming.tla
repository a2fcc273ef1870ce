-------------------------- MODULE ResponsesStreaming --------------------------
(***************************************************************************)
(* One streamed response of POST /v1/responses served through chat         *)
(* completions (http/responses.rs), with its upstream and its client:      *)
(*   "local"   handle_local_responses: a local model; a completed response *)
(*             is cached before its terminal event is sent                 *)
(*   "chat"    handle_copilot_chat_responses: a Copilot chat-only model    *)
(*   "search"  streaming_web_search_response: the same, opened before an   *)
(*             emulated web search whose outcome decides what follows      *)
(* The body is an async stream: frames are handed to the client one at a   *)
(* time and the client may drop the connection between any two.            *)
(***************************************************************************)
EXTENDS ChatToResponsesStream, WebSearch

CONSTANTS
    Paths,        \* subset of {"local", "chat", "search"}
    Chunks,       \* for each path the upstream chunks to try
    MaxLines      \* bound: data lines the upstream sends before it ends

VARIABLES
    path,
    phase,        \* where the response body's generator is
    adapter,
    pending,      \* mapped frames not yet handed to the client
    lines,        \* data lines read from the upstream
    cached,       \* <<>>, or <<output>> once cache_response_state has stored it
    (* what the client has put together from the frames it received *)
    opened,
    items,        \* output index -> [kind, id, body]
    finished,     \* output indices of the items that are done
    outcome,
    result,       \* the terminal event's [status, output]
    ended,
    garbled,      \* a delta had no open item, or an item ended with other content
    repeated,     \* something that happens once in a response happened again
    (* history *)
    sent          \* what the upstream sent: "text" and each tool index -> fragments

handlerVars == <<path, phase, adapter, pending, lines, cached>>
clientVars  == <<opened, items, finished, outcome, result, ended, garbled, repeated>>
vars        == <<handlerVars, clientVars, sent, searchVars>>

\* What an upstream can send on a line and answer to a probe, by its shape.
ToolDeltas ==
    [ix : STRING \ {"text"}, typed : BOOLEAN, id : STRING, name : STRING, frag : STRING]
UpstreamLines ==
    [kind : {"malformed", "bare", "empty", "choice", "[DONE]"}, usage : {"absent", "null", "counts"},
     text : STRING, calls : Seq(ToolDeltas), finish : STRING]
Turns ==
    [status : STRING, output : Seq([kind : STRING, id : STRING, body : Seq(STRING)])]

ASSUME StreamAssumption ==
    /\ Paths \subseteq {"local", "chat", "search"}
    /\ \A p \in Paths : \A c \in Chunks[p] :
          /\ c \in UpstreamLines
          /\ c.kind # "choice" => c.text = None /\ c.calls = <<>>
    /\ \A a \in Answers : a.kind = "message" => a.turn \in Turns
    /\ MaxLines \in Nat

NoResult == [status |-> None, output |-> <<>>]

Init ==
    /\ path \in Paths
    /\ phase = IF path = "search" THEN "begin" ELSE "streaming"
    /\ adapter = NewAdapter
    /\ pending = <<>>
    /\ lines = 0
    /\ cached = <<>>
    /\ opened = FALSE
    /\ items = <<>>
    /\ finished = {}
    /\ outcome = "none"
    /\ result = NoResult
    /\ ended = FALSE
    /\ garbled = FALSE
    /\ repeated = FALSE
    /\ sent = <<>>
    /\ SearchInit
-----------------------------------------------------------------------------
\* Run an adapter method and queue the frames it returns.
Emit(r, next) ==
    /\ adapter' = r.a
    /\ pending' = r.ev
    /\ phase' = next

\* completed_response_events: a finished turn replayed as a stream.  The
\* announced item is the finished item itself, and a text follows as a delta.
ReplayItem(i, item) ==
    <<[Added(i, item.kind, item.id) EXCEPT !.body = item.body]>>
        \o (IF item.kind = "message" THEN <<Delta(i, item.body)>> ELSE <<>>)
        \o <<Done(i, item.kind, item.id, item.body)>>

CompletedResponseEvents(turn) ==
    FlattenSeq([i \in DOMAIN turn.output |-> ReplayItem(i - 1, turn.output[i])])
        \o <<Terminal("completed", turn.status, turn.output)>>

BeginSearch ==
    /\ phase = "begin"
    /\ Emit(StartEvents(adapter), "searching")
    /\ UNCHANGED <<path, lines, cached, clientVars, sent, searchVars>>

Search ==
    /\ phase = "searching" /\ pending = <<>>
    /\ SearchNext
    /\ UNCHANGED <<handlerVars, clientVars, sent>>

\* The model answered without asking for a search: its turn is replayed, or
\* chat_to_responses has rejected it.
SearchNotNeeded ==
    /\ phase = "searching" /\ stage = "completed"
    /\ IF answer.kind = "message" /\ answer.turn # NoTurn
       THEN Emit(Ok(adapter, CompletedResponseEvents(answer.turn)), "closing")
       ELSE Emit(FailedEvent(adapter), "closing")
    /\ SearchDropped
    /\ UNCHANGED <<path, lines, cached, clientVars, sent>>

\* A probe failed, or the request for the final answer does.
SearchFailed ==
    /\ phase = "searching" /\ stage \in {"failed", "answering"}
    /\ Emit(FailedEvent(adapter), "closing")
    /\ SearchDropped
    /\ UNCHANGED <<path, lines, cached, clientVars, sent>>

\* The rounds are over: the final answer is streamed.
Searched ==
    /\ phase = "searching" /\ stage = "answering"
    /\ Emit(Ok(adapter, <<>>), "streaming")
    /\ SearchDropped
    /\ UNCHANGED <<path, lines, cached, clientVars, sent>>
-----------------------------------------------------------------------------
Piece(frag) == IF frag = None THEN <<>> ELSE <<frag>>

\* All of one kind that the first n tool-call deltas of a choice bring: its
\* text, or the arguments of one tool index.
Brought(c, n, key) ==
    IF key = "text" THEN Piece(c.text)
    ELSE FlattenSeq([i \in 1..n |-> IF c.calls[i].ix = key THEN Piece(c.calls[i].frag) ELSE <<>>])

SentBy(c, n) ==
    LET keys == (IF c.text = None THEN {} ELSE {"text"}) \union {c.calls[i].ix : i \in 1..n}
    IN  [key \in DOMAIN sent \union keys |->
            (IF key \in DOMAIN sent THEN sent[key] ELSE <<>>) \o Brought(c, n, key)]

Sent(c) == SentBy(c, Len(c.calls))

UpstreamLine(c) ==
    /\ phase = "streaming" /\ pending = <<>>
    /\ lines < MaxLines
    /\ lines' = lines + 1
    /\ Emit(MapLine(adapter, c), "streaming")
    /\ sent' = IF adapter.terminal THEN sent ELSE Sent(c)
    /\ UNCHANGED <<path, cached, clientVars, searchVars>>

\* Mutant: nothing ends a stream whose terminal event is out.
UpstreamEndIgnored ==
    /\ phase = "streaming" /\ pending = <<>>
    /\ Emit(FailedEvent(adapter), IF adapter.terminal THEN "streaming" ELSE "closing")
    /\ UNCHANGED <<path, lines, cached, clientVars, sent, searchVars>>

\* The upstream body ends, or the transport (or an over-long line) fails.
UpstreamEnd ==
    /\ phase = "streaming" /\ pending = <<>>
    /\ Emit(FailedEvent(adapter), "closing")
    /\ UNCHANGED <<path, lines, cached, clientVars, sent, searchVars>>

\* Only handle_local_responses looks at the frame it is about to send.
AtLocalTerminal ==
    /\ path = "local"
    /\ phase = "streaming"
    /\ pending # <<>>
    /\ Head(pending).type = "terminal"

MustCache == AtLocalTerminal /\ Head(pending).outcome = "completed" /\ IsCompleted(adapter)

CacheCompleted ==
    /\ MustCache
    /\ cached = <<>>
    /\ cached' = <<OutputItems(adapter)>>
    /\ UNCHANGED <<path, phase, adapter, pending, lines, clientVars, sent, searchVars>>
-----------------------------------------------------------------------------
\* The client's side of one frame.
IsOpen(i) == i \in DOMAIN items \ finished

ReceiveCreated(e) ==
    /\ e.type = "created"
    /\ opened' = TRUE
    /\ repeated' = (repeated \/ opened)
    /\ UNCHANGED <<items, finished, outcome, result, garbled>>

ReceiveAdded(e) ==
    /\ e.type = "added"
    /\ items' = With(items, e.index, Item(e.kind, e.id, e.body))
    /\ repeated' = (repeated \/ e.index \in DOMAIN items)
    /\ UNCHANGED <<opened, finished, outcome, result, garbled>>

ReceiveDelta(e) ==
    /\ e.type = "delta"
    /\ items' = IF IsOpen(e.index) THEN [items EXCEPT ![e.index].body = @ \o e.body] ELSE items
    /\ garbled' = (garbled \/ ~IsOpen(e.index))
    /\ UNCHANGED <<opened, finished, outcome, result, repeated>>

ReceiveDone(e) ==
    /\ e.type = "done"
    /\ items' = With(items, e.index, Item(e.kind, e.id, e.body))
    /\ finished' = finished \union {e.index}
    /\ garbled' = (garbled \/ ~IsOpen(e.index) \/ items' # items)
    /\ repeated' = (repeated \/ e.index \in finished)
    /\ UNCHANGED <<opened, outcome, result>>

ReceiveTerminal(e) ==
    /\ e.type = "terminal"
    /\ outcome' = e.outcome
    /\ repeated' = (repeated \/ outcome # "none")
    /\ result' = [status |-> e.status, output |-> e.output]
    /\ UNCHANGED <<opened, items, finished, garbled>>

Receive(e) ==
    \/ ReceiveCreated(e)
    \/ ReceiveAdded(e)
    \/ ReceiveDelta(e)
    \/ ReceiveDone(e)
    \/ ReceiveTerminal(e)

\* Mutant: the terminal event does not wait for the cache.
DeliverFirst ==
    /\ pending # <<>>
    /\ Receive(Head(pending))
    /\ pending' = IF AtLocalTerminal THEN <<>> ELSE Tail(pending)
    /\ phase' = IF AtLocalTerminal THEN "closing" ELSE phase
    /\ UNCHANGED <<path, adapter, lines, cached, ended, sent, searchVars>>

Deliver ==
    /\ pending # <<>>
    /\ MustCache => cached # <<>>
    /\ Receive(Head(pending))
    /\ pending' = IF AtLocalTerminal THEN <<>> ELSE Tail(pending)
    /\ phase' = IF AtLocalTerminal THEN "closing" ELSE phase
    /\ UNCHANGED <<path, adapter, lines, cached, ended, sent, searchVars>>

SendDone ==
    /\ phase = "closing" /\ pending = <<>>
    /\ phase' = "ended"
    /\ ended' = TRUE
    /\ UNCHANGED <<path, adapter, pending, lines, cached, opened, items, finished, outcome, result, garbled,
                   repeated, sent, searchVars>>

\* The client goes away: the generator is dropped where it stands.
Disconnect ==
    /\ phase \notin {"ended", "dropped"}
    /\ phase' = "dropped"
    /\ pending' = <<>>
    /\ SearchDropped
    /\ UNCHANGED <<path, adapter, lines, cached, clientVars, sent>>

Proceed ==
    \/ BeginSearch
    \/ Search
    \/ SearchNotNeeded
    \/ SearchFailed
    \/ Searched
    \/ UpstreamEnd
    \/ CacheCompleted
    \/ Deliver
    \/ SendDone

Next ==
    \/ Proceed
    \/ \E c \in Chunks[path] : UpstreamLine(c)
    \/ Disconnect

Spec == Init /\ [][Next]_vars

\* The generator is polled while the client is there, and an upstream that
\* stops sending ends or runs into a timeout; it need not send anything.
FairSpec == Spec /\ WF_vars(Proceed)
-----------------------------------------------------------------------------
Succeeded == outcome \in {"completed", "incomplete"}

\* Every delta goes to an item that is open, and an item is closed with
\* exactly the content its deltas built up: arguments buffered until a tool
\* call has an id and a name (streaming_tool_delta_events) are neither lost
\* nor sent twice.  This is said of the turns whose upstream is streamed; what
\* a search probe has resolved is replayed with each text twice
\* (completed_response_events).
LiveContentPreserved == lines > 0 => ~garbled

\* The output array of a successful terminal event lists the items the client
\* saw, each of them done, in the order of their output indices.
OutputIsWhatWasStreamed ==
    Succeeded =>
        /\ finished = DOMAIN items
        /\ DOMAIN items = {k - 1 : k \in DOMAIN result.output}
        /\ \A k \in DOMAIN result.output : result.output[k] = items[k - 1]

\* A success delivers all the upstream sent: the text, and for every upstream
\* tool index one call with that index's arguments and no other's, under an
\* id of its own (local_tool_index, validate_tool_calls).
NothingLostOrMixed ==
    LET calls == {k \in DOMAIN result.output : result.output[k].kind # "message"}
        text  == {k \in DOMAIN result.output : result.output[k].kind = "message"}
        tools == DOMAIN sent \ {"text"}
    IN  Succeeded /\ lines > 0 =>
            /\ {result.output[k].body : k \in text} = {sent[t] : t \in DOMAIN sent \ tools}
            /\ Cardinality(calls) = Cardinality(tools)
            /\ Cardinality({result.output[k].id : k \in calls}) = Cardinality(calls)
            /\ \A t \in tools : \E k \in calls : result.output[k].body = sent[t]

\* A stream cut before its finish reason, by EOF or by a transport error, is
\* reported as failed, never as a success.
TruncatedNeverSucceeds == Succeeded /\ lines > 0 => adapter.finishSeen

\* A follow-up may name the response as soon as the client has seen it
\* completed, and only then: it is cached before response.completed is sent,
\* with the output that event carries, and never for another outcome.
CompletedIsCached ==
    path = "local" =>
        /\ outcome = "completed" => cached = <<result.output>>
        /\ outcome \in {"incomplete", "failed"} => cached = <<>>

\* Every stream ends: with [DONE], unless the client goes away first.
EventuallyEnds == <>(phase \in {"ended", "dropped"})

\* The stream refines what the client is promised: whatever the upstream sends
\* and wherever it stops, one response.created, items announced, filled and
\* closed once and in that order, one terminal event and then [DONE].
Client == INSTANCE ResponsesProtocol
    WITH open   <- DOMAIN items \ finished,
         closed <- finished,
         outcome <- IF repeated THEN "repeated" ELSE outcome   \* no outcome of the promise

RefinesProtocol == Client!Spec
=============================================================================
