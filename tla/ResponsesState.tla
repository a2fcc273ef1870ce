---------------------------- MODULE ResponsesState ----------------------------
(***************************************************************************)
(* responses/state.rs and responses/request.rs: the transcripts the proxy  *)
(* remembers so that a request may continue an earlier response by naming  *)
(* it in `previous_response_id'.  The store is a deque with the least      *)
(* recently used response in front; both operations on it run under its    *)
(* write lock.  It lives in memory: a restart forgets everything, while    *)
(* clients keep the ids they were given.                                   *)
(*                                                                         *)
(* A turn goes one of four ways:                                           *)
(*   "local"      to a local model; needs its history, is remembered       *)
(*   "responses"  to Copilot's responses endpoint, not streamed; remembered*)
(*   "relay"      the same, streamed or over a WebSocket; not remembered   *)
(*   "chat"       to a Copilot chat model; not remembered, and translation *)
(*                has no place for a previous id                           *)
(***************************************************************************)
EXTENDS Naturals, Sequences

CONSTANTS
    Clients,        \* concurrent requests
    Routes,         \* subset of {"local", "responses", "relay", "chat"}
    StateLimit,     \* responses the store holds (128)
    MaxItems,       \* items of a transcript the store holds (500)
    OutputSizes,    \* numbers of output items an answer may have
    MaxTurns, MaxRestarts   \* bounds of an instance

ASSUME StateAssumption ==
    /\ StateLimit \in Nat \ {0}
    /\ MaxItems \in Nat \ {0}
    /\ OutputSizes \subseteq Nat
    /\ MaxTurns \in Nat /\ MaxRestarts \in Nat

VARIABLES
    inner,      \* the deque of [id, transcript]
    turn,       \* the turn each client has under way
    started,    \* turns started; a turn's number is also its response's id
    restarts,
    (* history *)
    whole,      \* response id -> its conversation: the turns it continues, and its own
    lost,       \* response id -> how much of that the proxy did not have any more
    clock, used \* response id -> when it was stored or found last, since the start

vars == <<inner, turn, started, restarts, whole, lost, clock, used>>

NoId == 0
Ids  == 1..MaxTurns

\* An item is named by the turn it belongs to and its place in it.
Items  == Ids \X Nat
Input(n)        == <<<<n, 0>>>>
Output(n, size) == [k \in 1..size |-> <<n, k>>]

Idle == [busy |-> FALSE, n |-> NoId, route |-> "none", previous |-> NoId, forwarded |-> NoId,
         hit |-> FALSE, items |-> <<>>]

Init ==
    /\ inner = <<>>
    /\ turn = [c \in Clients |-> Idle]
    /\ started = 0
    /\ restarts = 0
    /\ whole = [id \in Ids |-> <<>>]
    /\ lost = [id \in Ids |-> 0]
    /\ clock = 0
    /\ used = [id \in Ids |-> 0]
-----------------------------------------------------------------------------
LastN(n, s) == IF Len(s) > n THEN SubSeq(s, Len(s) - n + 1, Len(s)) ELSE s

FirstN(n, s) == IF Len(s) > n THEN SubSeq(s, 1, n) ELSE s

Remove(s, i) == SubSeq(s, 1, i - 1) \o SubSeq(s, i + 1, Len(s))

Stored(id) == \E i \in 1..Len(inner) : inner[i].id = id

\* The deque without an entry for `id'.
Without(id) ==
    IF Stored(id) THEN Remove(inner, CHOOSE i \in 1..Len(inner) : inner[i].id = id) ELSE inner

Entry(id) == inner[CHOOSE i \in 1..Len(inner) : inner[i].id = id]

\* History: `id' is the response used last.
Touch(id) == clock' = clock + 1 /\ used' = [used EXCEPT ![id] = clock + 1]

\* Mutant: the oldest items are the ones kept.
CachedHead(id, items) ==
    /\ inner' = LastN(StateLimit, Append(Without(id), [id |-> id, transcript |-> FirstN(MaxItems, items)]))
    /\ Touch(id)

\* cache_response_state
CacheResponseState(id, items) ==
    /\ inner' = LastN(StateLimit, Append(Without(id), [id |-> id, transcript |-> LastN(MaxItems, items)]))
    /\ Touch(id)

\* Mutant: a lookup leaves the deque as it is.
LookedUp(id) == inner' = inner /\ Touch(id)

\* get_cached_response_state, of an id that is there
GetCachedResponseState(id) ==
    /\ inner' = Append(Without(id), Entry(id))
    /\ Touch(id)
-----------------------------------------------------------------------------
Prepared(route, previous, hit, forwarded) ==
    LET n == started + 1
    IN  [busy |-> TRUE, n |-> n, route |-> route, previous |-> previous, forwarded |-> forwarded,
         hit |-> hit, items |-> (IF hit THEN Entry(previous).transcript ELSE <<>>) \o Input(n)]

\* History: the new turn continues `previous', whether the store has it or not.
\* Without it, all that was said before is lost to the store.
Continue(previous, hit) ==
    LET before == IF previous = NoId THEN <<>> ELSE whole[previous]
    IN  /\ whole' = [whole EXCEPT ![started + 1] = before \o Input(started + 1)]
        /\ lost' = [lost EXCEPT ![started + 1] = IF hit THEN lost[previous] ELSE Len(before)]

Begin(c, request) ==
    /\ ~turn[c].busy
    /\ started < MaxTurns
    /\ started' = started + 1
    /\ turn' = [turn EXCEPT ![c] = request]
    /\ Continue(request.previous, request.hit)
    /\ UNCHANGED restarts

FirstTurn(c, route) ==
    /\ Begin(c, Prepared(route, NoId, FALSE, NoId))
    /\ UNCHANGED <<inner, clock, used>>

\* expand_previous_response: a hit replaces the input and drops the id.
FollowUpHit(c, route, previous) ==
    /\ Stored(previous)
    /\ Begin(c, Prepared(route, previous, TRUE, NoId))
    /\ GetCachedResponseState(previous)

\* Mutant: a local model is asked even if the history is gone.
FollowUpMissAnyRoute(c, route, previous) ==
    /\ ~Stored(previous)
    /\ Begin(c, Prepared(route, previous, FALSE, IF route \in {"responses", "relay"} THEN previous ELSE NoId))
    /\ UNCHANGED <<inner, clock, used>>

\* A miss leaves the id in the request.  handle_local_responses refuses it,
\* which changes nothing here; translation to chat drops it.
FollowUpMiss(c, route, previous) ==
    /\ ~Stored(previous)
    /\ route # "local"
    /\ Begin(c, Prepared(route, previous, FALSE, IF route = "chat" THEN NoId ELSE previous))
    /\ UNCHANGED <<inner, clock, used>>

\* The upstream answers.
Complete(c) ==
    /\ turn[c].busy
    /\ \E size \in OutputSizes :
          /\ whole' = [whole EXCEPT ![turn[c].n] = @ \o Output(turn[c].n, size)]
          /\ IF turn[c].route \in {"local", "responses"}
             THEN CacheResponseState(turn[c].n, turn[c].items \o Output(turn[c].n, size))
             ELSE UNCHANGED <<inner, clock, used>>
    /\ turn' = [turn EXCEPT ![c] = Idle]
    /\ UNCHANGED <<started, restarts, lost>>

\* It fails, stops early, or the client goes away: nothing is remembered.
Abandon(c) ==
    /\ turn[c].busy
    /\ turn' = [turn EXCEPT ![c] = Idle]
    /\ UNCHANGED <<inner, started, restarts, whole, lost, clock, used>>

Restart ==
    /\ restarts < MaxRestarts
    /\ restarts' = restarts + 1
    /\ inner' = <<>>
    /\ clock' = 0
    /\ used' = [id \in Ids |-> 0]
    /\ turn' = [c \in Clients |-> Idle]
    /\ UNCHANGED <<started, whole, lost>>

Next ==
    \/ \E c \in Clients, route \in Routes :
          \/ FirstTurn(c, route)
          \/ \E previous \in 1..started : FollowUpHit(c, route, previous) \/ FollowUpMiss(c, route, previous)
    \/ \E c \in Clients : Complete(c) \/ Abandon(c)
    \/ Restart

Spec == Init /\ [][Next]_vars
-----------------------------------------------------------------------------
StoreEntry == [id : Ids, transcript : Seq(Items)]

TurnType == [busy : BOOLEAN, n : Ids \union {NoId}, route : Routes \union {"none"},
             previous : Ids \union {NoId}, forwarded : Ids \union {NoId},
             hit : BOOLEAN, items : Seq(Items)]

TypeOK ==
    /\ inner \in Seq(StoreEntry)
    /\ started \in 0..MaxTurns
    /\ restarts \in 0..MaxRestarts
    /\ turn \in [Clients -> TurnType]
    /\ whole \in [Ids -> Seq(Items)]
    /\ lost \in [Ids -> Nat]
    /\ clock \in Nat
    /\ used \in [Ids -> Nat]

\* The store never holds more than its limits, nor a response twice.
StoreBounded ==
    /\ Len(inner) <= StateLimit
    /\ \A i \in 1..Len(inner) : Len(inner[i].transcript) <= MaxItems
    /\ \A i, j \in 1..Len(inner) : inner[i].id = inner[j].id => i = j

\* The conversation of a response from the last turn on that the store had no
\* history for.  A turn that is forwarded with its previous id goes on with all of
\* its conversation upstream, but what comes before it is lost to the store, also
\* for the turns that will continue it.
Known(id) == SubSeq(whole[id], lost[id] + 1, Len(whole[id]))

\* What is remembered of a response is the end of its own conversation, as much
\* of what was ever known of it as the limit allows: however often it was cut on
\* the way, and whatever other conversations, branches and evictions went on
\* meanwhile.  It is not all of the conversation if a turn of it was forwarded.
TranscriptIsTail ==
    \A i \in 1..Len(inner) : inner[i].transcript = LastN(MaxItems, Known(inner[i].id))

\* A follow-up reaches its upstream with all that is known of its conversation
\* or, where the upstream can do without, with the id to find it; a local model
\* never starts blank.  With a conversation of which nothing was lost this is
\* all of it, up to the limit.  After a forwarded turn that was remembered it is
\* not: the turns before that one then reach nobody, since a hit drops the id.
HistoryReachesUpstream ==
    \A c \in Clients :
        turn[c].busy /\ turn[c].previous # NoId /\ turn[c].route # "chat" =>
            \/ /\ turn[c].hit
               /\ turn[c].items = LastN(MaxItems, Known(turn[c].previous)) \o Input(turn[c].n)
            \/ /\ turn[c].route # "local" /\ turn[c].forwarded = turn[c].previous
               /\ turn[c].items = Input(turn[c].n)

\* A response is forgotten only for StateLimit others used more recently, by
\* an answer or by a follow-up.
KeepsMostRecentlyUsed ==
    \A id \in Ids : used[id] > 0 /\ ~Stored(id) =>
        /\ Len(inner) = StateLimit
        /\ \A i \in 1..Len(inner) : used[id] < used[inner[i].id]
=============================================================================
