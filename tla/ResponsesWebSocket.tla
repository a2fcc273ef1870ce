-------------------------- MODULE ResponsesWebSocket --------------------------
(***************************************************************************)
(* One client connection of the Responses WebSocket (handle_responses_ws   *)
(* of http/responses.rs).  The task of the connection reads one message at *)
(* a time; a turn gets a backend connection of its own                     *)
(* (connect_responses_websocket of copilot/client.rs), whose text messages *)
(* are relayed until one of them ends the turn.  The client is not read    *)
(* meanwhile.  Messages of the client:                                     *)
(*   binary   no text         malformed  no JSON object                    *)
(*   local    for a local model          prewarm    "generate": false      *)
(*   turn     any other                                                    *)
(* Messages of a backend: "binary" for anything that is no text, "delta"   *)
(* for a text that ends nothing here, and "completed" and "error".         *)
(***************************************************************************)
EXTENDS Integers, Sequences

CONSTANTS
    MaxMessages,   \* bound: messages of the client
    MaxFrames      \* bound: messages of one backend connection

ASSUME BoundsAssumption == MaxMessages \in Nat /\ MaxFrames \in Nat

MessageKinds == {"binary", "malformed", "local", "prewarm", "turn"}
FrameKinds   == {"binary", "delta", "completed", "error"}

VARIABLES
    stage,     \* "reading", "preparing", "connecting", "bridging" or "over"
    read,      \* messages read so far; the last of them is the one handled
    backend,   \* the backend connection: "none", "open", "closed" or "broken"
    given,     \* the backend has got the turn's request
    wire,      \* backend messages on their way, as positions in sent
    (* the client *)
    asked,     \* kinds of the messages it has sent
    here,      \* it is connected
    got,       \* frames it received: [turn, from, kind]
    (* history *)
    sent       \* for every message, what its backend connection has sent

handlerVars == <<stage, read, backend, given, wire>>
socketVars  == <<handlerVars, asked, here, got, sent>>

SocketInit ==
    /\ stage = "reading"
    /\ read = 0
    /\ backend = "none"
    /\ given = FALSE
    /\ wire = <<>>
    /\ asked = <<>>
    /\ here = TRUE
    /\ got = <<>>
    /\ sent = <<>>
-----------------------------------------------------------------------------
\* Frames that reach the client if it is still there; `from' is the position
\* among its backend's messages, or 0 for the proxy's own.
Frame(kind, from) == [turn |-> read, from |-> from, kind |-> kind]
Deliver(frames)   == got' = IF here THEN got \o frames ELSE got

ClientSends(kind) ==
    /\ here /\ Len(asked) < MaxMessages
    /\ asked' = Append(asked, kind)
    /\ sent' = Append(sent, <<>>)
    /\ UNCHANGED <<handlerVars, here, got>>

ClientLeaves ==
    /\ here
    /\ here' = FALSE
    /\ UNCHANGED <<handlerVars, asked, got, sent>>
-----------------------------------------------------------------------------
\* Frames the proxy answers a message with by itself.
Reply(kind) ==
    CASE kind = "binary"    -> <<>>
      [] kind = "malformed" -> <<"error">>
      [] kind = "local"     -> <<"error">>
      [] kind = "prewarm"   -> <<"created", "completed">>
      [] kind = "turn"      -> <<>>

\* The next message of the client: its frames carry the message's number.
ReadMessage ==
    /\ stage = "reading" /\ read < Len(asked)
    /\ read' = read + 1
    /\ LET kind  == asked[read']
           reply == Reply(kind)
       IN  /\ stage' = IF kind = "turn" THEN "preparing" ELSE "reading"
           /\ Deliver([k \in DOMAIN reply |-> [turn |-> read', from |-> 0, kind |-> reply[k]]])
    /\ UNCHANGED <<backend, given, wire, asked, here, sent>>

\* recv fails or returns nothing; a connection that broke loses what was unread.
SeeClientGone ==
    /\ stage = "reading" /\ ~here
    /\ stage' = "over"
    /\ UNCHANGED <<read, backend, given, wire, asked, here, got, sent>>

\* refresh_models_if_stale and prepare_responses_request.
Prepare ==
    /\ stage = "preparing"
    /\ stage' = "connecting"
    /\ UNCHANGED <<read, backend, given, wire, asked, here, got, sent>>

\* Whether the send of the request succeeded is not looked at.
Connect ==
    /\ stage = "connecting"
    /\ stage' = "bridging"
    /\ backend' = "open"
    /\ given' \in BOOLEAN
    /\ UNCHANGED <<read, wire, asked, here, got, sent>>

EndTurn(next) ==
    /\ stage' = next
    /\ backend' = "none"
    /\ given' = FALSE
    /\ wire' = <<>>

\* No token, or no connection.
ConnectFails ==
    /\ stage = "connecting"
    /\ Deliver(<<Frame("error", 0)>>)
    /\ EndTurn("reading")
    /\ UNCHANGED <<read, asked, here, sent>>
-----------------------------------------------------------------------------
BackendSends(kind) ==
    /\ backend = "open" /\ given
    /\ Len(sent[read]) < MaxFrames
    /\ sent' = [sent EXCEPT ![read] = Append(@, kind)]
    /\ wire' = Append(wire, Len(sent'[read]))
    /\ UNCHANGED <<stage, read, backend, given, asked, here, got>>

BackendCloses ==
    /\ backend = "open"
    /\ backend' = "closed"
    /\ UNCHANGED <<stage, read, given, wire, asked, here, got, sent>>

\* A connection that breaks may lose what is still on its way.
BackendBreaks ==
    /\ backend = "open"
    /\ backend' = "broken"
    /\ \E k \in 0..Len(wire) : wire' = SubSeq(wire, 1, k)
    /\ UNCHANGED <<stage, read, given, asked, here, got, sent>>

Terminal(kind) == kind \in {"completed", "error"}

\* Mutant: an error does not end its turn.
RelayTextPastError(from) ==
    LET kind == sent[read][from]
    IN  /\ kind # "binary"
        /\ Deliver(<<Frame(kind, from)>>)
        /\ IF kind = "completed"
           THEN EndTurn("reading")
           ELSE wire' = Tail(wire) /\ UNCHANGED <<stage, backend, given>>

RelayText(from) ==
    LET kind == sent[read][from]
    IN  /\ kind # "binary"
        /\ Deliver(<<Frame(kind, from)>>)
        /\ IF Terminal(kind)
           THEN EndTurn("reading")
           ELSE wire' = Tail(wire) /\ UNCHANGED <<stage, backend, given>>

SkipOther(from) ==
    /\ sent[read][from] = "binary"
    /\ wire' = Tail(wire)
    /\ UNCHANGED <<stage, backend, given, got>>

\* The send to a client that is gone fails, and with it the whole task.
RelayFails(from) ==
    /\ sent[read][from] # "binary" /\ ~here
    /\ EndTurn("over")
    /\ UNCHANGED got

Relay ==
    /\ stage = "bridging" /\ wire # <<>>
    /\ RelayText(Head(wire)) \/ SkipOther(Head(wire)) \/ RelayFails(Head(wire))
    /\ UNCHANGED <<read, asked, here, sent>>

\* Mutant: the close of a backend is one of the messages that are skipped.
SeeBackendClosedSkips ==
    /\ stage = "bridging" /\ wire = <<>> /\ backend = "closed"
    /\ UNCHANGED socketVars

\* A backend that closes ends the turn without a word.
SeeBackendClosed ==
    /\ stage = "bridging" /\ wire = <<>> /\ backend = "closed"
    /\ EndTurn("reading")
    /\ UNCHANGED <<read, asked, here, got, sent>>

SeeBackendBroken ==
    /\ stage = "bridging" /\ wire = <<>> /\ backend = "broken"
    /\ Deliver(<<Frame("error", 0)>>)
    /\ EndTurn("reading")
    /\ UNCHANGED <<read, asked, here, sent>>

Handle ==
    \/ ReadMessage
    \/ SeeClientGone
    \/ Relay
    \/ SeeBackendClosed
    \/ SeeBackendBroken

SocketNext ==
    \/ Handle
    \/ Prepare
    \/ Connect
    \/ ConnectFails
    \/ \E kind \in MessageKinds : ClientSends(kind)
    \/ ClientLeaves
    \/ \E kind \in FrameKinds : BackendSends(kind)
    \/ BackendCloses
    \/ BackendBreaks

SocketSpec == SocketInit /\ [][SocketNext]_socketVars

\* The task is polled.  Neither the client nor a backend need ever do anything,
\* and the token and the connection are waited for without a limit.
SocketFairSpec == SocketSpec /\ WF_socketVars(Handle)
-----------------------------------------------------------------------------
Done(n) == read > n \/ (read = n /\ stage = "reading")

Frames == [turn : Nat, from : Nat, kind : FrameKinds \union {"created"}]

SocketTypeOK ==
    /\ stage \in {"reading", "preparing", "connecting", "bridging", "over"}
    /\ asked \in Seq(MessageKinds)
    /\ read \in 0..Len(asked)
    /\ backend \in {"none", "open", "closed", "broken"}
    /\ backend # "none" <=> stage = "bridging"
    /\ given \in BOOLEAN /\ here \in BOOLEAN
    /\ wire \in Seq(Nat)
    /\ got \in Seq(Frames)
    /\ sent \in Seq(Seq(FrameKinds)) /\ Len(sent) = Len(asked)

Relayed(n, p)   == \E k \in DOMAIN got : got[k].turn = n /\ got[k].from = p
Answered(n)     == \E k \in DOMAIN got : got[k].turn = n /\ Terminal(got[k].kind)
IsText(n, p)    == sent[n][p] # "binary"

\* The client is told of its messages one after the other, of the texts of a
\* backend in the order they were sent, and of nothing more of a message after
\* the frame that ends it.
InOrder ==
    \A i, j \in DOMAIN got : i < j =>
        \/ got[i].turn < got[j].turn
        \/ /\ got[i].turn = got[j].turn /\ ~Terminal(got[i].kind)
           /\ got[j].from > 0 => got[i].from < got[j].from

\* What it gets of a turn are texts of that turn's backend, as they were sent
\* and none of them skipped.
AsSent ==
    \A k \in DOMAIN got : got[k].from > 0 =>
        /\ got[k].from \in DOMAIN sent[got[k].turn]
        /\ got[k].kind = sent[got[k].turn][got[k].from]
        /\ IsText(got[k].turn, got[k].from)
        /\ \A p \in 1..(got[k].from - 1) : IsText(got[k].turn, p) => Relayed(got[k].turn, p)

\* A client that stays gets a frame that ends the turn, or all its backend said
\* before it closed the connection.
Whole(n) ==
    here /\ Done(n) =>
        /\ ~Answered(n) => \A p \in DOMAIN sent[n] : IsText(n, p) => Relayed(n, p)
        /\ asked[n] \notin {"binary", "turn"} => Answered(n)

\* handle_responses_ws over the connections it makes: however the client
\* queues its messages and however the backends end, the frames of its turns
\* reach it apart, in order and whole.
TurnsRelayed == InOrder /\ AsSent /\ \A n \in DOMAIN asked : Whole(n)

\* What the task waits for is up to the upstream: the preparation of a turn, its
\* connection, or a backend that is connected and has not ended the turn.
Waiting ==
    \/ stage \in {"preparing", "connecting"}
    \/ /\ stage = "bridging" /\ backend = "open"
       /\ \A k \in DOMAIN wire : ~Terminal(sent[read][wire[k]])

\* Every message of the client is dealt with, unless the task is over with a
\* client that left, or waits for good on the upstream: nothing here has a
\* timeout, and a backend may stay silent, or say nothing the bridge takes for
\* an end (handle_responses_ws knows response.completed and error).
EveryMessageServed ==
    \A n \in 1..MaxMessages :
        [](Len(asked) >= n => (<>(Done(n) \/ stage = "over") \/ <>[]Waiting))
=============================================================================
