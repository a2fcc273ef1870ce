-------------------------- MODULE ResponsesProtocol --------------------------
(***************************************************************************)
(* What a client of a streamed POST /v1/responses may rely on, whatever    *)
(* produced the stream: the response is opened once; an output item is     *)
(* announced before its deltas and closed once; one terminal event ends    *)
(* the response, and a successful one leaves no item open and no gap in    *)
(* the output indices; [DONE] follows the terminal event.  A client may go *)
(* away at any time.                                                       *)
(***************************************************************************)
EXTENDS Naturals

VARIABLES
    opened,    \* response.created was received
    open,      \* output indices of the items announced and not yet done
    closed,    \* output indices of the items done
    outcome,   \* "none", or the terminal event received
    ended      \* the [DONE] marker was received

vars == <<opened, open, closed, outcome, ended>>

TypeOK ==
    /\ opened \in BOOLEAN
    /\ open \in SUBSET Nat
    /\ closed \in SUBSET Nat
    /\ outcome \in {"none", "completed", "incomplete", "failed"}
    /\ ended \in BOOLEAN

Init ==
    /\ opened = FALSE
    /\ open = {}
    /\ closed = {}
    /\ outcome = "none"
    /\ ended = FALSE

Open ==
    /\ ~opened
    /\ outcome = "none"
    /\ opened' = TRUE
    /\ UNCHANGED <<open, closed, outcome, ended>>

Announce ==
    /\ opened
    /\ outcome = "none"
    /\ \E i \in open' \ (open \union closed) : i \in Nat /\ open' = open \union {i}
    /\ UNCHANGED <<opened, closed, outcome, ended>>

Finish(i) ==
    /\ outcome = "none"
    /\ i \in open
    /\ open' = open \ {i}
    /\ closed' = closed \union {i}
    /\ UNCHANGED <<opened, outcome, ended>>

Dense(indices) == \A i \in indices : \A j \in 0..i : j \in indices

Succeed(result) ==
    /\ opened
    /\ outcome = "none"
    /\ result \in {"completed", "incomplete"}
    /\ open = {}
    /\ Dense(closed)
    /\ outcome' = result
    /\ UNCHANGED <<opened, open, closed, ended>>

Fail ==
    /\ outcome = "none"
    /\ outcome' = "failed"
    /\ UNCHANGED <<opened, open, closed, ended>>

End ==
    /\ outcome # "none"
    /\ ~ended
    /\ ended' = TRUE
    /\ UNCHANGED <<opened, open, closed, outcome>>

Next ==
    \/ Open
    \/ Announce
    \/ \E i \in open : Finish(i)
    \/ \E result \in {"completed", "incomplete"} : Succeed(result)
    \/ Fail
    \/ End

Spec == Init /\ [][Next]_vars
=============================================================================
