----------------------------- MODULE TokenBucket -----------------------------
(***************************************************************************)
(* TokenBucket of copilot/client.rs: the limiter every attempt at Copilot  *)
(* passes.  The bucket is refilled by whoever looks at it, and a caller    *)
(* that finds less than one token sleeps for the time the rest would take  *)
(* and looks again: nobody queues.                                         *)
(*                                                                         *)
(* Time is counted in ticks, Interval of them to a token, and the bucket   *)
(* holds what it has in ticks' worth, so that the arithmetic is exact      *)
(* where the code's is in floating point.                                  *)
(***************************************************************************)
EXTENDS Naturals

CONSTANTS
    Callers,     \* concurrent calls of acquire
    Rate,        \* rate_per_minute, which is also the bucket's size
    Interval,    \* ticks in which one token is refilled
    MaxCalls,    \* bound: calls made in all
    MaxWindow    \* bound: ticks over which grants are counted

ASSUME BucketAssumption ==
    /\ Rate \in Nat \ {0}
    /\ Interval \in Nat \ {0}
    /\ MaxCalls \in Nat /\ MaxWindow \in Nat

VARIABLES
    tokens,      \* inner.tokens, in ticks' worth
    age,         \* ticks since inner.last_refill, up to the time that fills the bucket
    at,          \* "idle", "looking" or "sleeping"
    left,        \* ticks a sleeping caller still sleeps
    (* history *)
    overtaken,   \* someone else has been granted a token since the caller last looked
    window,      \* the grants in a stretch of time that may begin at any tick
    calls

bucketVars == <<tokens, age, at, left, overtaken, window, calls>>

Size == Rate * Interval
Lesser(m, n) == IF m <= n THEN m ELSE n

BucketInit ==
    /\ tokens = Size
    /\ age = 0
    /\ at = [c \in Callers |-> "idle"]
    /\ left = [c \in Callers |-> 0]
    /\ overtaken = [c \in Callers |-> FALSE]
    /\ window = [grants |-> 0, time |-> 0]
    /\ calls = 0
-----------------------------------------------------------------------------
Refilled == Lesser(Size, tokens + age)

\* Mutant: the sleep is for what there is, not for what is missing.
ShortfallSwapped == Refilled

Shortfall == Interval - Refilled

Acquire(c) ==
    /\ at[c] = "idle"
    /\ calls < MaxCalls
    /\ calls' = calls + 1
    /\ at' = [at EXCEPT ![c] = "looking"]
    /\ overtaken' = [overtaken EXCEPT ![c] = FALSE]
    /\ UNCHANGED <<tokens, age, left, window>>

Awake(c) == at[c] = "looking" \/ (at[c] = "sleeping" /\ left[c] = 0)

\* Mutant: the time of the refill is not noted.
GrantUndated(c) ==
    /\ Awake(c)
    /\ Refilled >= Interval
    /\ tokens' = Refilled - Interval
    /\ at' = [at EXCEPT ![c] = "idle"]
    /\ overtaken' = [d \in Callers |-> d # c]
    /\ window' = [window EXCEPT !.grants = @ + 1]
    /\ UNCHANGED <<age, left, calls>>

\* A look at the bucket, under the lock, that finds a token ...
Grant(c) ==
    /\ Awake(c)
    /\ Refilled >= Interval
    /\ tokens' = Refilled - Interval
    /\ age' = 0
    /\ at' = [at EXCEPT ![c] = "idle"]
    /\ overtaken' = [d \in Callers |-> d # c]
    /\ window' = [window EXCEPT !.grants = @ + 1]
    /\ UNCHANGED <<left, calls>>

\* Mutant: what was refilled is forgotten.
SleepForgets(c) ==
    /\ Awake(c)
    /\ Refilled < Interval
    /\ tokens' = 0
    /\ age' = 0
    /\ at' = [at EXCEPT ![c] = "sleeping"]
    /\ left' = [left EXCEPT ![c] = Shortfall]
    /\ overtaken' = [overtaken EXCEPT ![c] = FALSE]
    /\ UNCHANGED <<window, calls>>

\* ... and one that does not.
Sleep(c) ==
    /\ Awake(c)
    /\ Refilled < Interval
    /\ tokens' = Refilled
    /\ age' = 0
    /\ at' = [at EXCEPT ![c] = "sleeping"]
    /\ left' = [left EXCEPT ![c] = Shortfall]
    /\ overtaken' = [overtaken EXCEPT ![c] = FALSE]
    /\ UNCHANGED <<window, calls>>

\* The request is dropped while its call waits.
Drop(c) ==
    /\ at[c] # "idle"
    /\ at' = [at EXCEPT ![c] = "idle"]
    /\ UNCHANGED <<tokens, age, left, overtaken, window, calls>>

\* A sleeper may wake late: its time being up does not hold the clock.
Tick ==
    /\ age' = Lesser(Size, age + 1)
    /\ left' = [c \in Callers |-> IF left[c] > 0 THEN left[c] - 1 ELSE 0]
    /\ \/ window.time < MaxWindow /\ window' = [window EXCEPT !.time = @ + 1]
       \/ window' = [grants |-> 0, time |-> 0]
    /\ UNCHANGED <<tokens, at, overtaken, calls>>

Look(c) == Grant(c) \/ Sleep(c)

BucketNext ==
    \/ \E c \in Callers : Acquire(c) \/ Look(c) \/ Drop(c)
    \/ Tick

BucketSpec == BucketInit /\ [][BucketNext]_bucketVars

\* Time passes, and the runtime runs whoever is awake.
BucketFairSpec == BucketSpec /\ WF_bucketVars(Tick) /\ \A c \in Callers : WF_bucketVars(Look(c))
-----------------------------------------------------------------------------
BucketTypeOK ==
    /\ tokens \in 0..Size
    /\ age \in 0..Size
    /\ at \in [Callers -> {"idle", "looking", "sleeping"}]
    /\ left \in [Callers -> 0..Interval]
    /\ overtaken \in [Callers -> BOOLEAN]
    /\ window \in [grants : Nat, time : 0..MaxWindow]
    /\ calls \in 0..MaxCalls

\* Whenever one starts to count, however the callers' looks, sleeps and late
\* wakings fall: no more attempts pass than a full bucket and the tokens of
\* the time since then.
RateBound == window.grants * Interval <= Size + window.time

\* A caller sleeps for a second time only if another took the token it slept
\* for: no refill is lost between two looks, by whomever they are.
SleepsAgainOnlyIfOvertaken ==
    [][\A c \in Callers : Sleep(c) /\ at[c] = "sleeping" => overtaken[c]]_bucketVars

\* With so many calls and no more, each of them is answered.
EveryCallGranted == \A c \in Callers : (at[c] # "idle") ~> (at[c] = "idle")
=============================================================================
