-------------------------- MODULE CopilotClientProofs --------------------------
(***************************************************************************)
(* Theorems about CopilotRequest for every number of retries, every finite *)
(* set of betas and every mix of endpoints, about TokenBucket for any      *)
(* number of callers, any rate and any resolution of time, and about       *)
(* CopilotAuth for any callers and tokens, any margin, any lifetimes of    *)
(* tokens and any bounds.                                                  *)
(*                                                                         *)
(* A refused request cannot come back because every way of going on after  *)
(* a refusal makes the request smaller than all those refused before: in   *)
(* one loop its betas shrink, and a fallback starts from another body      *)
(* (RefusedAreOlder, FirstLoopBody).  The bound on the sends counts each   *)
(* of them against a retry, a beta or a loop (SendsPaid).                  *)
(*                                                                         *)
(* The bucket keeps its bound over every stretch of time because grants    *)
(* and refills balance (Balance), and no refill is lost to a sleeper       *)
(* (Enough).                                                               *)
(*                                                                         *)
(* One request at a time is past the refresh lock because whoever is there *)
(* holds it (LockHeld), and what GitHub answers it is newer than what is   *)
(* cached (AnswersAreNewer).                                               *)
(***************************************************************************)
EXTENDS CopilotRequest, TokenBucket, CopilotAuth, FiniteSetTheorems, TLAPS

\* What the endpoint does not have stays out of every request.
Endpoints ==
    /\ Possible(kind, caller)
    /\ Possible(kind, request)
    /\ \A r \in refused : Possible(kind, r)
    /\ request.betas \subseteq caller.betas
    /\ phase = "refused" => refusal \in complaints
    /\ phase = "headers" => streamed

SameBody(r) == r.cipher = request.cipher /\ r.effort = request.effort

UnderWay == phase \in {"send", "answer", "body", "headers"}

\* Whatever was refused with the body at hand had more betas.
RefusedAreOlder ==
    \A r \in refused : SameBody(r) =>
        /\ request.betas \subseteq r.betas
        /\ UnderWay => request.betas # r.betas

FirstLoopBody == loop = "first" => \A r \in refused : SameBody(r)

LoopsCounted ==
    /\ loop = "first" => loops = 1
    /\ loop = "fallback" => loops = 2 /\ kind \in {"chat", "responses"}
    /\ loop = "fallback" /\ kind = "responses" => request.cipher = {}
    /\ loop = "early" => loops \in {2, 3} /\ kind = "responses" /\ streamed

Removed == Cardinality(caller.betas \ request.betas)

Earlier == IF loops = 1 THEN 0 ELSE IF loops = 2 THEN LoopCost ELSE LoopCost + LoopCost

SendsPaid == sends <= Earlier + attempt + Removed + (IF phase = "send" THEN 0 ELSE 1)

IInv ==
    /\ TypeOK
    /\ Endpoints
    /\ RefusedAreOlder
    /\ FirstLoopBody
    /\ LoopsCounted
    /\ SendsPaid
    /\ CiphertextKept
-----------------------------------------------------------------------------
\* The number of betas removed is a number, and no more than there are.
LEMMA RemovedCount ==
    ASSUME NEW S \in SUBSET Betas, NEW T \in SUBSET Betas
    PROVE  /\ Cardinality(S \ T) \in Nat
           /\ Cardinality(S \ T) <= Cardinality(Betas)
           /\ Cardinality(Betas) \in Nat
  <1>1. IsFiniteSet(Betas)
    BY RequestAssumption
  <1>2. S \ T \subseteq Betas
    OBVIOUS
  <1> QED
    BY <1>1, <1>2, FS_Subset, FS_CardinalityType

\* Removing a beta that was there makes the removed ones more.
LEMMA RemovedGrows ==
    ASSUME NEW S \in SUBSET Betas, NEW T \in SUBSET Betas, T \subseteq S,
           NEW N \in SUBSET Betas, N \cap T # {}
    PROVE  Cardinality(S \ (T \ N)) >= Cardinality(S \ T) + 1
  <1>1. PICK b \in N \cap T : TRUE
    OBVIOUS
  <1>2. IsFiniteSet(S \ (T \ N)) /\ IsFiniteSet(S \ T)
    BY RequestAssumption, FS_Subset
  <1>3. b \notin S \ T /\ (S \ T) \union {b} \subseteq S \ (T \ N)
    BY <1>1
  <1>4. Cardinality((S \ T) \union {b}) = Cardinality(S \ T) + 1
    BY <1>2, <1>3, FS_AddElement
  <1>5. Cardinality((S \ T) \union {b}) <= Cardinality(S \ (T \ N))
    BY <1>2, <1>3, FS_Subset
  <1>6. /\ Cardinality(S \ T) \in Nat
        /\ Cardinality(S \ (T \ N)) \in Nat
    BY <1>2, FS_CardinalityType
  <1> QED
    BY <1>4, <1>5, <1>6

\* The bounds are numbers.
LEMMA LoopCostType == LoopCost \in Nat /\ MaxSends \in Nat /\ RetryMax \in Nat
  <1>1. Cardinality(Betas) \in Nat
    BY RequestAssumption, FS_CardinalityType
  <1> QED
    BY <1>1, RequestAssumption DEF LoopCost, MaxSends

\* A request that has not been sent satisfies the invariant.
LEMMA InitIInv == Init => IInv
  <1> SUFFICES ASSUME Init PROVE IInv
    OBVIOUS
  <1>1. caller \in Request /\ request \in Request /\ request.betas = caller.betas
        /\ request.effort = caller.effort /\ request.cipher \subseteq caller.cipher
        /\ ("other" \in caller.cipher => "other" \in request.cipher)
    BY DEF Init, StrippedKnown, Request, Ciphertext
  <1>2. TypeOK
    <2>1. MaxSends \in Nat /\ RetryMax \in Nat /\ 0 \in 0..RetryMax /\ 0 \in 0..MaxSends
      BY LoopCostType
    <2>2. streamed \in BOOLEAN /\ kind \in Kinds
      BY DEF Init
    <2> QED
      BY <1>1, <2>1, <2>2 DEF Init, TypeOK
  <1>3. Endpoints
    BY <1>1 DEF Init, Endpoints, Possible, Request
  <1>4. RefusedAreOlder /\ FirstLoopBody /\ LoopsCounted
    BY DEF Init, RefusedAreOlder, FirstLoopBody, LoopsCounted
  <1>5. SendsPaid
    <2>1. Removed = 0
      BY <1>1, FS_EmptySet DEF Removed
    <2> QED
      BY <2>1 DEF Init, SendsPaid, Earlier
  <1>6. CiphertextKept
    BY <1>1 DEF CiphertextKept
  <1> QED
    BY <1>2, <1>3, <1>4, <1>5, <1>6 DEF IInv
-----------------------------------------------------------------------------
\* The steps that leave the request, the loop and the history alone.
Quiet ==
    /\ UNCHANGED <<kind, streamed, stripKnown, caller, request, loop, loops, sends, refused, complaints>>
    /\ \/ /\ phase' = "done" /\ phase # "done"
          /\ UNCHANGED <<attempt, refusal>>
          /\ outcome' \in {"ok", "auth", "transient", "lateBody", "transport", "refused", "gone"}
       \/ /\ phase \in {"answer", "body"} /\ phase' = "send"
          /\ attempt < RetryMax /\ attempt' = attempt + 1
          /\ UNCHANGED <<refusal, outcome>>
       \/ /\ phase = "answer"
          /\ phase' \in (IF streamed THEN {"headers"} ELSE {"body"})
          /\ UNCHANGED <<attempt, refusal, outcome>>

\* The steps that send nothing and leave the request as it is.
LEMMA QuietSteps ==
    /\ NoCopilotToken \/ Outage \/ ConnectionBroken \/ Accept => Quiet
    /\ BodyRead \/ BodyTimedOut \/ BodyBroken => Quiet
    /\ ReportRefusal \/ ForwardStream \/ PrefixBroken \/ Disconnect => Quiet
  BY DEF NoCopilotToken, Outage, ConnectionBroken, Accept, BodyRead, BodyTimedOut, BodyBroken,
         ReportRefusal, ForwardStream, PrefixBroken, Disconnect, Finish, RetryOr, Keep, Given, Quiet

\* Those steps keep the invariant.
LEMMA QuietKeeps == ASSUME IInv, Quiet PROVE IInv'
  <1> USE DEF IInv, Quiet
  <1>0. caller \in Request /\ request \in Request /\ attempt \in Nat /\ RetryMax \in Nat
    BY LoopCostType DEF TypeOK
  <1>1. TypeOK'
    BY LoopCostType DEF TypeOK, Refusals
  <1>2. Endpoints'
    BY DEF Endpoints, Possible
  <1>3. RefusedAreOlder' /\ FirstLoopBody'
    BY DEF RefusedAreOlder, FirstLoopBody, SameBody, UnderWay
  <1>4. LoopsCounted'
    BY DEF LoopsCounted
  <1>5. SendsPaid'
    <2>1. Removed \in Nat /\ Removed' = Removed
      BY <1>0, RemovedCount DEF Removed, Request
    <2>2. Earlier \in Nat /\ Earlier' = Earlier /\ sends \in Nat
      BY LoopCostType DEF Earlier, TypeOK
    <2> QED
      BY <1>0, <2>1, <2>2 DEF SendsPaid
  <1>6. CiphertextKept'
    BY DEF CiphertextKept
  <1> QED
    BY <1>1, <1>2, <1>3, <1>4, <1>5, <1>6

\* A send is paid for by the retry, the beta or the loop that allowed it.
LEMMA SendKeeps == ASSUME IInv, Send PROVE IInv'
  <1> USE DEF IInv, Send, Given
  <1>0. caller \in Request /\ request \in Request /\ attempt \in Nat
    BY LoopCostType DEF TypeOK
  <1>1. TypeOK'
    BY LoopCostType DEF TypeOK, Refusals
  <1>2. Endpoints' /\ LoopsCounted' /\ CiphertextKept'
    BY DEF Endpoints, Possible, LoopsCounted, CiphertextKept
  <1>3. RefusedAreOlder' /\ FirstLoopBody'
    BY DEF RefusedAreOlder, FirstLoopBody, SameBody, UnderWay
  <1>4. SendsPaid'
    <2>1. Removed \in Nat /\ Removed' = Removed
      BY <1>0, RemovedCount DEF Removed, Request
    <2>2. Earlier \in Nat /\ Earlier' = Earlier /\ sends \in Nat
      BY LoopCostType DEF Earlier, TypeOK
    <2> QED
      BY <1>0, <2>1, <2>2 DEF SendsPaid
  <1> QED
    BY <1>1, <1>2, <1>3, <1>4

\* A refusal adds the request to the refused ones; either the loop goes on
\* with fewer betas, or it is over.
LEMMA RefuseKeeps ==
    ASSUME IInv, NEW reason \in Refusals, NEW named \in SUBSET Betas, Refuse(reason, named)
    PROVE  IInv'
  <1> USE DEF IInv, Refuse, Given
  <1> DEFINE Fewer == reason = "betas" /\ kind # "get" /\ named \cap request.betas # {}
  <1>0. /\ caller \in Request /\ request \in Request /\ attempt \in Nat
        /\ request.betas \subseteq caller.betas
        /\ refused \in SUBSET Request
    BY LoopCostType DEF TypeOK, Endpoints
  <1>1. request' \in Request /\ SameBody(request') /\ caller' = caller
    BY <1>0 DEF SameBody, Request
  <1>2. request'.betas = IF Fewer THEN request.betas \ named ELSE request.betas
    BY <1>0 DEF Request
  <1>3. phase' = IF Fewer THEN "send" ELSE "refused"
    OBVIOUS
  <1> HIDE DEF Fewer
  <1>4. TypeOK'
    BY <1>0, <1>1, <1>3, LoopCostType DEF TypeOK, Refusals
  <1>5. Endpoints'
    BY <1>0, <1>1, <1>2, <1>3 DEF Endpoints, Possible, SameBody, Fewer
  <1>6. RefusedAreOlder'
    <2> SUFFICES ASSUME NEW r \in refused', SameBody(r)'
                 PROVE  request'.betas \subseteq r.betas /\ (UnderWay' => request'.betas # r.betas)
      BY DEF RefusedAreOlder
    <2>1. r = request \/ (r \in refused /\ SameBody(r))
      BY <1>1 DEF SameBody
    <2>2. request.betas \subseteq r.betas
      BY <2>1 DEF RefusedAreOlder
    <2>3. UnderWay' => Fewer
      BY <1>3 DEF UnderWay
    <2>4. Fewer => \E b \in request.betas : b \notin request'.betas
      BY <1>2 DEF Fewer
    <2> QED
      BY <1>2, <2>2, <2>3, <2>4
  <1>7. FirstLoopBody' /\ LoopsCounted' /\ CiphertextKept'
    BY <1>1 DEF FirstLoopBody, SameBody, LoopsCounted, CiphertextKept
  <1>8. SendsPaid'
    <2>1. Removed \in Nat /\ Removed' \in Nat
      BY <1>0, <1>1, RemovedCount DEF Removed, Request
    <2>2. Removed' >= Removed + (IF Fewer THEN 1 ELSE 0)
      <3>1. CASE Fewer
        <4>1. Cardinality(caller.betas \ (request.betas \ named)) >= Removed + 1
          BY <1>0, <3>1, RemovedGrows DEF Removed, Request, Fewer
        <4> QED
          BY <1>1, <1>2, <3>1, <4>1 DEF Removed
      <3>2. CASE ~Fewer
        BY <1>1, <1>2, <2>1, <3>2 DEF Removed
      <3> QED
        BY <3>1, <3>2
    <2>3. Earlier \in Nat /\ Earlier' = Earlier /\ sends \in Nat
      BY LoopCostType DEF Earlier, TypeOK
    <2> QED
      BY <1>0, <1>3, <2>1, <2>2, <2>3 DEF SendsPaid
  <1> QED
    BY <1>4, <1>5, <1>6, <1>7, <1>8
-----------------------------------------------------------------------------
\* What every new loop restores, whatever its body.
LEMMA AgainKeeps ==
    ASSUME IInv, loops \in {1, 2}, loops = 2 => loop = "fallback",
           NEW next \in {"fallback", "early"}, NEW body \in Request, Again(next, body),
           Possible(kind, [body EXCEPT !.betas = caller.betas]),
           \A r \in refused : r.cipher # body.cipher \/ r.effort # body.effort,
           next = "fallback" => loops = 1 /\ kind \in {"chat", "responses"},
           next = "fallback" /\ kind = "responses" => body.cipher = {},
           next = "early" => kind = "responses" /\ streamed,
           complaints \subseteq complaints',
           complaints' \subseteq Refusals \union {"nameless"},
           "other" \in caller.cipher \ body.cipher => complaints' \cap {"decrypt", "nameless"} # {}
    PROVE  IInv'
  <1> USE DEF IInv, Again, Given
  <1>0. /\ caller \in Request /\ request \in Request /\ attempt \in 0..RetryMax
        /\ refused \in SUBSET Request
    BY DEF TypeOK
  <1>1. request' \in Request /\ request'.cipher = body.cipher /\ request'.effort = body.effort
        /\ request'.betas = caller.betas
    BY <1>0 DEF Request
  <1>2. TypeOK'
    BY <1>0, <1>1, LoopCostType DEF TypeOK, Refusals
  <1>3. Endpoints'
    BY <1>0, <1>1 DEF Endpoints, Possible
  <1>4. \A r \in refused' : ~SameBody(r)'
    BY <1>1 DEF SameBody
  <1>5. RefusedAreOlder' /\ FirstLoopBody'
    BY <1>4 DEF RefusedAreOlder, FirstLoopBody
  <1>6. LoopsCounted'
    BY <1>1 DEF LoopsCounted
  <1>7. SendsPaid'
    <2>1. Removed \in Nat /\ Removed <= Cardinality(Betas) /\ Cardinality(Betas) \in Nat
      BY <1>0, RemovedCount DEF Removed, Request
    <2>2. Removed' = 0
      BY <1>1, FS_EmptySet DEF Removed
    <2>3. Earlier' = Earlier + LoopCost
      BY LoopCostType DEF Earlier
    <2>4. sends <= Earlier + attempt + Removed + 1
      BY <1>0, <2>1, LoopCostType DEF SendsPaid, Earlier, TypeOK
    <2>5. Earlier \in Nat /\ sends \in Nat /\ sends' = sends /\ attempt' = 0 /\ phase' = "send"
      BY LoopCostType DEF Earlier, TypeOK
    <2> QED
      BY <1>0, <2>1, <2>2, <2>3, <2>4, <2>5, LoopCostType DEF SendsPaid, LoopCost
  <1>8. CiphertextKept'
    BY <1>1 DEF CiphertextKept
  <1> QED
    BY <1>2, <1>3, <1>5, <1>6, <1>7, <1>8

\* The fallback of post_chat and stream_chat starts a loop with another body.
LEMMA LowerEffortKeeps == ASSUME IInv, LowerEffort PROVE IInv'
  <1> DEFINE body == [request EXCEPT !.effort = "high"]
  <1>1. /\ caller \in Request /\ request \in Request
        /\ request.effort = "higher" /\ kind = "chat" /\ loop = "first" /\ loops = 1
        /\ complaints' = complaints /\ complaints \subseteq Refusals \union {"nameless"}
    BY DEF IInv, TypeOK, LowerEffort, MayLowerEffort, LoopsCounted
  <1>2. body \in Request /\ body.cipher = request.cipher /\ body.effort = "high"
    BY <1>1 DEF Request
  <1>3. Possible(kind, [body EXCEPT !.betas = caller.betas])
    BY <1>1, <1>2 DEF IInv, Endpoints, Possible, Request
  <1>4. \A r \in refused : r.effort # body.effort
    BY <1>1, <1>2 DEF IInv, FirstLoopBody, SameBody
  <1>5. "other" \in caller.cipher \ body.cipher => complaints' \cap {"decrypt", "nameless"} # {}
    BY <1>1, <1>2 DEF IInv, CiphertextKept
  <1>6. Again("fallback", body)
    BY DEF LowerEffort
  <1> HIDE DEF body
  <1> QED
    BY <1>1, <1>2, <1>3, <1>4, <1>5, <1>6, AgainKeeps

\* So does the fallback of post_responses and stream_responses.
LEMMA StripCiphertextKeeps == ASSUME IInv, StripCiphertext PROVE IInv'
  <1> DEFINE body == Stripped(request)
  <1>1. /\ caller \in Request /\ request \in Request
        /\ request.cipher # {} /\ kind = "responses" /\ loop = "first" /\ loops = 1
        /\ refusal = "decrypt" /\ phase = "refused"
        /\ complaints' = complaints /\ complaints \subseteq Refusals \union {"nameless"}
    BY DEF IInv, TypeOK, StripCiphertext, MayStrip, LoopsCounted
  <1>2. body \in Request /\ body.cipher = {} /\ body.effort = request.effort
    BY <1>1 DEF Request, Stripped
  <1>3. Possible(kind, [body EXCEPT !.betas = caller.betas])
    BY <1>1, <1>2 DEF IInv, Endpoints, Possible, Request
  <1>4. \A r \in refused : r.cipher # body.cipher
    BY <1>1, <1>2 DEF IInv, FirstLoopBody, SameBody
  <1>5. complaints' \cap {"decrypt", "nameless"} # {}
    BY <1>1 DEF IInv, Endpoints
  <1>6. Again("fallback", body)
    BY DEF StripCiphertext
  <1> HIDE DEF body
  <1> QED
    BY <1>1, <1>2, <1>3, <1>4, <1>5, <1>6, AgainKeeps

\* The third loop: what was refused so far still had ciphertext, because a
\* request without betas is refused only once in a loop.
LEMMA EarlyFailureKeeps ==
    ASSUME IInv, NEW reason \in {"decrypt", "nameless"}, EarlyFailure(reason)
    PROVE  IInv'
  <1> DEFINE body == Stripped(caller)
  <1>1. /\ caller \in Request /\ request \in Request /\ refused \in SUBSET Request
        /\ kind = "responses" /\ streamed /\ loop \in {"first", "fallback"} /\ phase = "headers"
        /\ complaints' = complaints \union {reason}
        /\ complaints \subseteq Refusals \union {"nameless"}
    BY DEF IInv, TypeOK, EarlyFailure, LooksAtPrefix, Endpoints
  <1>2. body \in Request /\ body.cipher = {} /\ body.effort = "high"
    BY <1>1 DEF Request, Stripped, IInv, Endpoints, Possible
  <1>3. Possible(kind, [body EXCEPT !.betas = caller.betas])
    BY <1>1, <1>2 DEF IInv, Endpoints, Possible, Request
  <1>4. \A r \in refused : r.cipher # body.cipher
    <2> SUFFICES ASSUME NEW r \in refused, r.cipher = {} PROVE FALSE
      BY <1>2
    <2>1. r.betas = {} /\ request.betas = {} /\ r.effort = "high" /\ request.effort = "high"
      BY <1>1 DEF IInv, Endpoints, Possible
    <2>2. ~SameBody(r)
      BY <1>1, <2>1 DEF IInv, RefusedAreOlder, UnderWay
    <2>3. request.cipher # {} /\ loop = "fallback"
      BY <1>1, <2>1, <2>2 DEF IInv, FirstLoopBody, SameBody
    <2> QED
      BY <1>1, <2>3 DEF IInv, LoopsCounted
  <1>5. complaints' \cap {"decrypt", "nameless"} # {} /\ complaints' \subseteq Refusals \union {"nameless"}
    BY <1>1 DEF Refusals
  <1>6. Again("early", body) /\ loops \in {1, 2} /\ (loops = 2 => loop = "fallback")
    BY <1>1 DEF EarlyFailure, IInv, LoopsCounted
  <1> HIDE DEF body
  <1> QED
    BY <1>1, <1>2, <1>3, <1>4, <1>5, <1>6, AgainKeeps

\* Every step keeps the invariant.
LEMMA NextIInv == IInv /\ [Next]_vars => IInv'
  <1> SUFFICES ASSUME IInv, [Next]_vars PROVE IInv'
    OBVIOUS
  <1>1. CASE Send
    BY <1>1, SendKeeps
  <1>2. CASE Quiet
    BY <1>2, QuietKeeps
  <1>3. ASSUME NEW reason \in Refusals, NEW named \in SUBSET Betas, Refuse(reason, named) PROVE IInv'
    BY <1>3, RefuseKeeps
  <1>4. CASE LowerEffort
    BY <1>4, LowerEffortKeeps
  <1>5. CASE StripCiphertext
    BY <1>5, StripCiphertextKeeps
  <1>6. ASSUME NEW reason \in {"decrypt", "nameless"}, EarlyFailure(reason) PROVE IInv'
    BY <1>6, EarlyFailureKeeps
  <1>7. CASE UNCHANGED vars
    BY <1>7 DEF vars, IInv, TypeOK, Endpoints, RefusedAreOlder, FirstLoopBody, SameBody, UnderWay,
                LoopsCounted, SendsPaid, Removed, Earlier, CiphertextKept
  <1>8. CASE Step
    BY <1>1, <1>2, <1>3, <1>4, <1>5, <1>6, <1>8, QuietSteps DEF Step
  <1>9. CASE Disconnect
    BY <1>2, <1>9, QuietSteps
  <1> QED
    BY <1>7, <1>8, <1>9 DEF Next

\* The invariant holds throughout.
THEOREM Invariant == Spec => []IInv
  BY InitIInv, NextIInv, PTL DEF Spec

\* The state stays within its types: no counter runs away, whatever the
\* upstream answers.
THEOREM TypeCorrect == Spec => []TypeOK
  <1>1. IInv => TypeOK
    BY DEF IInv
  <1> QED
    BY <1>1, Invariant, PTL

\* A request the upstream refused is never sent again as it was, by no loop
\* and no fallback of copilot/client.rs.
THEOREM RefusedNotRepeatedHolds == Spec => []RefusedNotRepeated
  <1>1. IInv => RefusedNotRepeated
    BY DEF IInv, RefusedAreOlder, SameBody, UnderWay, RefusedNotRepeated
  <1> QED
    BY <1>1, Invariant, PTL

\* However the upstream mixes outages and refusals, one client request costs
\* it no more than LoopCost sends for each loop the endpoint allows.
THEOREM SendsBoundedHolds == Spec => []SendsBounded
  <1>1. ASSUME IInv PROVE SendsBounded
    <2> USE <1>1 DEF IInv
    <2>1. caller \in Request /\ request \in Request /\ attempt \in 0..RetryMax /\ sends \in Nat
      BY LoopCostType DEF TypeOK
    <2>2. Removed \in Nat /\ Removed <= Cardinality(Betas) /\ Cardinality(Betas) \in Nat
      BY <2>1, RemovedCount DEF Removed, Request
    <2>3. sends <= Earlier + LoopCost
      BY <2>1, <2>2, LoopCostType DEF SendsPaid, LoopCost, Earlier
    <2> QED
      BY <2>1, <2>3, LoopCostType DEF SendsBounded, Earlier, LoopsCounted, TypeOK
  <1> QED
    BY <1>1, Invariant, PTL

\* Ciphertext Copilot may be able to read is only removed after a failure.
THEOREM CiphertextKeptHolds == Spec => []CiphertextKept
  <1>1. IInv => CiphertextKept
    BY DEF IInv
  <1> QED
    BY <1>1, Invariant, PTL
-----------------------------------------------------------------------------
(***************************************************************************)
(* The limiter.                                                            *)
(***************************************************************************)

\* What is granted since counting began and what could be granted now come
\* from the bucket as it was then and the time since.
Balance == window.grants * Interval + Refilled <= Size + window.time

\* A sleeper nobody overtook finds its token when its time is up.
Enough ==
    \A c \in Callers :
        at[c] = "sleeping" /\ ~overtaken[c] => Refilled + left[c] >= Interval

BucketInv == BucketTypeOK /\ Balance /\ Enough

\* The size of the bucket is a number and holds at least one token.
LEMMA SizeFacts == Size \in Nat /\ Size >= Interval /\ Interval \in Nat \ {0}
<1>1. Rate \in Nat /\ Rate >= 1 /\ Interval \in Nat /\ Interval >= 1
  BY BucketAssumption
<1>2. \A r, i \in Nat : r >= 1 => r * i \in Nat /\ r * i >= i
  BY SMT
<1> QED
  BY <1>1, <1>2 DEF Size

\* What a refill makes of the bucket lies between what it holds and its size.
LEMMA RefilledFacts ==
    ASSUME tokens \in 0..Size, age \in 0..Size
    PROVE  Refilled \in 0..Size /\ Refilled >= tokens
<1> QED
  BY SizeFacts DEF Refilled, Lesser

\* A full bucket and nobody in line satisfy the invariant.
LEMMA Initially == BucketInit => BucketInv
<1> SUFFICES ASSUME BucketInit PROVE BucketInv
  OBVIOUS
<1> USE DEF BucketInit
<1>1. BucketTypeOK
  BY SizeFacts, BucketAssumption DEF BucketTypeOK
<1>2. Balance
  <2>1. window.grants * Interval = 0 /\ window.time = 0
    BY SizeFacts
  <2>2. Refilled \in 0..Size
    BY SizeFacts, <1>1, RefilledFacts DEF BucketTypeOK
  <2> QED
    BY <2>1, <2>2, SizeFacts DEF Balance
<1>3. Enough
  BY DEF Enough
<1> QED
  BY <1>1, <1>2, <1>3 DEF BucketInv

\* Steps that leave the bucket and the clock alone.
LEMMA BucketQuietSteps ==
    ASSUME BucketInv, NEW c \in Callers, Acquire(c) \/ Drop(c)
    PROVE  BucketInv'
<1> USE DEF BucketInv
<1>1. Refilled' = Refilled /\ window' = window /\ tokens' = tokens /\ age' = age /\ left' = left
  BY DEF Acquire, Drop, Refilled, Lesser
<1>2. BucketTypeOK'
  <2>1. CASE Acquire(c)
    <3>1. calls' \in 0..MaxCalls
      BY <2>1, BucketAssumption DEF BucketTypeOK, Acquire
    <3> QED
      BY <2>1, <3>1 DEF BucketTypeOK, Acquire
  <2>2. CASE Drop(c)
    BY <2>2 DEF BucketTypeOK, Drop
  <2> QED
    BY <2>1, <2>2
<1>3. Balance'
  BY <1>1 DEF Balance
<1>4. Enough'
  <2> SUFFICES ASSUME NEW d \in Callers, at'[d] = "sleeping", ~overtaken'[d]
               PROVE  Refilled' + left'[d] >= Interval
    BY DEF Enough
  <2>1. at[d] = "sleeping" /\ ~overtaken[d]
    BY DEF BucketTypeOK, Acquire, Drop
  <2> QED
    BY <1>1, <2>1 DEF Enough
<1> QED
  BY <1>2, <1>3, <1>4

\* A look begins a refill, which changes nothing of what there is ...
LEMMA SleepKeeps ==
    ASSUME BucketInv, NEW c \in Callers, Sleep(c)
    PROVE  BucketInv'
<1> USE DEF BucketInv
<1>1. Refilled \in 0..Size /\ Refilled < Interval
  BY RefilledFacts DEF BucketTypeOK, Sleep
<1>2. Refilled' = Refilled
  BY <1>1, SizeFacts DEF Refilled, Lesser, Sleep
<1>3. Interval - Refilled \in 0..Interval
  BY <1>1, SizeFacts
<1>4. BucketTypeOK'
  BY <1>1, <1>3, SizeFacts DEF BucketTypeOK, Sleep, Shortfall
<1>5. Balance'
  BY <1>2 DEF Balance, Sleep
<1>6. Enough'
  <2> SUFFICES ASSUME NEW d \in Callers, at'[d] = "sleeping", ~overtaken'[d]
               PROVE  Refilled' + left'[d] >= Interval
    BY DEF Enough
  <2>1. CASE d = c
    <3>1. left'[d] = Interval - Refilled
      BY <2>1 DEF Sleep, BucketTypeOK, Shortfall
    <3> QED
      BY <3>1, <1>1, <1>2, SizeFacts
  <2>2. CASE d # c
    <3>1. at[d] = "sleeping" /\ ~overtaken[d] /\ left'[d] = left[d]
      BY <2>2 DEF Sleep, BucketTypeOK
    <3> QED
      BY <3>1, <1>2 DEF Enough
  <2> QED
    BY <2>1, <2>2
<1> QED
  BY <1>4, <1>5, <1>6

\* ... and a grant takes one token of it, of which everyone asleep is told.
LEMMA GrantKeeps ==
    ASSUME BucketInv, NEW c \in Callers, Grant(c)
    PROVE  BucketInv'
<1> USE DEF BucketInv
<1>1. Refilled \in 0..Size /\ Refilled >= Interval
  BY RefilledFacts DEF BucketTypeOK, Grant
<1>2. Refilled - Interval \in 0..Size
  BY <1>1, SizeFacts
<1>3. Refilled' = Refilled - Interval
  BY <1>2, SizeFacts DEF Refilled, Lesser, Grant
<1>4. BucketTypeOK'
  BY <1>2, SizeFacts DEF BucketTypeOK, Grant
<1>5. Balance'
  <2>1. window'.grants = window.grants + 1 /\ window'.time = window.time
    BY DEF Grant, BucketTypeOK
  <2>2. window.grants \in Nat /\ window.time \in Nat
    BY DEF BucketTypeOK
  <2>3. (window.grants + 1) * Interval = window.grants * Interval + Interval
    BY <2>2, SizeFacts
  <2>4. window.grants * Interval \in Nat
    BY <2>2, SizeFacts
  <2>5. window'.grants * Interval + Refilled' = window.grants * Interval + Refilled
    BY <2>1, <2>3, <2>4, <1>1, <1>3, SizeFacts
  <2> QED
    BY <2>1, <2>5 DEF Balance
<1>6. Enough'
  BY DEF Enough, Grant, BucketTypeOK
<1> QED
  BY <1>4, <1>5, <1>6

\* With the clock the bucket gains at most what the count allows, and at least
\* what a sleeper waits for.
LEMMA TickKeeps ==
    ASSUME BucketInv, Tick
    PROVE  BucketInv'
<1> USE DEF BucketInv
<1>1. tokens' = tokens /\ at' = at /\ overtaken' = overtaken /\ calls' = calls
  BY DEF Tick
<1>2. age' = Lesser(Size, age + 1) /\ age' \in 0..Size
  BY SizeFacts DEF Tick, BucketTypeOK, Lesser
<1>3. Refilled \in 0..Size /\ Refilled' \in 0..Size
  BY <1>1, <1>2, RefilledFacts, SizeFacts DEF BucketTypeOK, Refilled, Lesser
<1>4. Refilled' <= Refilled + 1 /\ (Refilled' = Refilled + 1 \/ Refilled' = Size)
  BY <1>1, <1>2, SizeFacts DEF BucketTypeOK, Refilled, Lesser
<1>5. BucketTypeOK'
  <2>1. left' \in [Callers -> 0..Interval]
    BY SizeFacts DEF BucketTypeOK, Tick
  <2>2. window' \in [grants : Nat, time : 0..MaxWindow]
    BY BucketAssumption DEF BucketTypeOK, Tick
  <2> QED
    BY <1>1, <1>2, <2>1, <2>2 DEF BucketTypeOK
<1>6. Balance'
  <2>1. CASE window' = [window EXCEPT !.time = @ + 1]
    <3>1. window'.grants = window.grants /\ window'.time = window.time + 1
      BY <2>1 DEF BucketTypeOK
    <3>2. window.grants * Interval \in Nat /\ window.time \in Nat
      BY SizeFacts DEF BucketTypeOK
    <3>3. window.grants * Interval + Refilled <= Size + window.time
      BY DEF Balance
    <3>4. window.grants * Interval + Refilled' <= Size + (window.time + 1)
      BY <3>2, <3>3, <1>3, <1>4, SizeFacts
    <3> QED
      BY <3>1, <3>4 DEF Balance
  <2>2. CASE window' = [grants |-> 0, time |-> 0]
    <3>1. window'.grants * Interval = 0 /\ window'.time = 0
      BY <2>2, SizeFacts
    <3> QED
      BY <3>1, <1>3, SizeFacts DEF Balance
  <2> QED
    BY <2>1, <2>2 DEF Tick
<1>7. Enough'
  <2> SUFFICES ASSUME NEW c \in Callers, at'[c] = "sleeping", ~overtaken'[c]
               PROVE  Refilled' + left'[c] >= Interval
    BY DEF Enough
  <2>1. Refilled + left[c] >= Interval
    BY <1>1 DEF Enough
  <2>2. left[c] \in Nat /\ left'[c] \in Nat /\ left'[c] + 1 >= left[c]
    BY SizeFacts DEF Tick, BucketTypeOK
  <2> QED
    BY <2>1, <2>2, <1>3, <1>4, SizeFacts
<1> QED
  BY <1>5, <1>6, <1>7

\* Every step of a caller and of the clock keeps the invariant.
LEMMA BucketStep == BucketInv /\ [BucketNext]_bucketVars => BucketInv'
<1> SUFFICES ASSUME BucketInv, [BucketNext]_bucketVars PROVE BucketInv'
  OBVIOUS
<1>1. ASSUME NEW c \in Callers, Acquire(c) PROVE BucketInv'
  BY <1>1, BucketQuietSteps
<1>2. ASSUME NEW c \in Callers, Drop(c) PROVE BucketInv'
  BY <1>2, BucketQuietSteps
<1>3. ASSUME NEW c \in Callers, Look(c) PROVE BucketInv'
  BY <1>3, GrantKeeps, SleepKeeps DEF Look
<1>4. CASE Tick
  BY <1>4, TickKeeps
<1>5. CASE UNCHANGED bucketVars
  <2>1. Refilled' = Refilled
    BY <1>5 DEF bucketVars, Refilled, Lesser
  <2> QED
    BY <2>1, <1>5 DEF bucketVars, BucketInv, BucketTypeOK, Balance, Enough
<1> QED
  BY <1>1, <1>2, <1>3, <1>4, <1>5 DEF BucketNext

\* The invariant holds throughout.
THEOREM BucketInvariant == BucketSpec => []BucketInv
<1> QED
  BY Initially, BucketStep, PTL DEF BucketSpec

\* acquire keeps the bucket between empty and full, whatever the clock does.
THEOREM BucketTypeCorrect == BucketSpec => []BucketTypeOK
<1>1. BucketInv => BucketTypeOK
  BY DEF BucketInv
<1> QED
  BY <1>1, BucketInvariant, PTL

\* acquire lets through, in every stretch of time, a full bucket's requests
\* and those of the time at most.
THEOREM RateBoundHolds == BucketSpec => []RateBound
<1>1. BucketInv => RateBound
  <2> SUFFICES ASSUME BucketInv PROVE RateBound
    OBVIOUS
  <2>1. Refilled \in Nat
    BY RefilledFacts, SizeFacts DEF BucketInv, BucketTypeOK
  <2>2. window.grants * Interval \in Nat /\ window.time \in Nat
    BY SizeFacts DEF BucketInv, BucketTypeOK
  <2> QED
    BY <2>1, <2>2, SizeFacts DEF BucketInv, Balance, RateBound
<1> QED
  BY <1>1, BucketInvariant, PTL

\* A caller of acquire that has slept sleeps again only if it was overtaken.
THEOREM SleepsAgainOnlyIfOvertakenHolds == BucketSpec => SleepsAgainOnlyIfOvertaken
<1>1. BucketInv => \A c \in Callers : Sleep(c) /\ at[c] = "sleeping" => overtaken[c]
  <2> SUFFICES ASSUME BucketInv, NEW c \in Callers, Sleep(c), at[c] = "sleeping", ~overtaken[c]
               PROVE  FALSE
    BY DEF BucketInv, BucketTypeOK
  <2>1. left[c] = 0 /\ Refilled < Interval
    BY DEF Sleep, Awake
  <2>2. Refilled + left[c] >= Interval
    BY DEF BucketInv, Enough
  <2>3. Refilled \in Nat
    BY RefilledFacts, SizeFacts DEF BucketInv, BucketTypeOK
  <2> QED
    BY <2>1, <2>2, <2>3, SizeFacts
<1> QED
  BY <1>1, BucketInvariant, PTL DEF SleepsAgainOnlyIfOvertaken
-----------------------------------------------------------------------------
\* Whoever is past the wait holds the lock.
LockHeld == \A c \in Requesters : pc[c] \in Inside => holder = c

\* The cache holds a token GitHub issued, and an answer under way is newer.
AnswersAreNewer ==
    /\ cache.serial <= issued
    /\ \A c \in Requesters : pc[c] = "reply" /\ reply[c].kind = "token" =>
          cache.serial < reply[c].serial /\ reply[c].serial <= issued

\* The inductive invariant.
AuthInv ==
    /\ AuthTypeOK
    /\ LockHeld
    /\ NoRedundantExchange
    /\ AnswersAreNewer

\* Taking one element out of a queue of callers leaves a queue of callers.
LEMMA RemoveAtType ==
    ASSUME NEW S, NEW s \in Seq(S), NEW i \in 1..Len(s)
    PROVE  RemoveAt(s, i) \in Seq(S)
  BY DEF RemoveAt

\* Initially nothing is under way and nothing is cached.
LEMMA InitAuthInv == AuthInit => AuthInv
  <1> SUFFICES ASSUME AuthInit PROVE AuthInv
    OBVIOUS
  <1>1. AuthTypeOK
    BY AuthAssumption DEF AuthInit, AuthTypeOK, Inside, Outcomes, Reply, NoReply
  <1>2. LockHeld /\ NoRedundantExchange
    BY DEF AuthInit, LockHeld, NoRedundantExchange, Inside
  <1>3. AnswersAreNewer
    BY DEF AuthInit, AnswersAreNewer
  <1>4. QED
    BY <1>1, <1>2, <1>3 DEF AuthInv

\* Types are kept by every step.
LEMMA NextAuthTypeOK ==
    ASSUME AuthTypeOK, [AuthNext]_authVars
    PROVE  AuthTypeOK'
  <1> USE AuthAssumption DEF AuthTypeOK, Inside, Outcomes, Reply, NoReply
  <1>1. ASSUME NEW c \in Requesters, Call(c) PROVE AuthTypeOK'
    <2>1. queue' \in Seq(Requesters)
      <3>1. Append(queue, c) \in Seq(Requesters)
        OBVIOUS
      <3>2. queue' \in {queue, Append(queue, c)}
        BY <1>1 DEF Call
      <3>3. QED
        BY <3>1, <3>2
    <2>2. pc' \in [Requesters -> {"idle", "waiting"} \union Inside] /\ res' \in [Requesters -> Outcomes]
      BY <1>1 DEF Call
    <2>3. QED
      BY <1>1, <2>1, <2>2 DEF Call, worldVars
  <1>2. ASSUME NEW c \in Requesters, AcquireLock(c) PROVE AuthTypeOK'
    <2>1. queue' \in Seq(Requesters)
      BY <1>2 DEF AcquireLock
    <2>2. pc' \in [Requesters -> {"idle", "waiting"} \union Inside]
      BY <1>2 DEF AcquireLock
    <2>3. QED
      BY <1>2, <2>1, <2>2 DEF AcquireLock, worldVars
  <1>3. ASSUME NEW c \in Requesters, DoubleCheck(c) PROVE AuthTypeOK'
    BY <1>3 DEF DoubleCheck, Return, worldVars
  <1>4. ASSUME NEW c \in Requesters, LoadGithubToken(c) PROVE AuthTypeOK'
    BY <1>4 DEF LoadGithubToken, UseGithubToken, worldVars
  <1>5. ASSUME NEW c \in Requesters, RefuseDeviceFlow(c) PROVE AuthTypeOK'
    BY <1>5 DEF RefuseDeviceFlow, Return, worldVars
  <1>6. ASSUME NEW c \in Requesters, StartDeviceFlow(c) PROVE AuthTypeOK'
    BY <1>6 DEF StartDeviceFlow, worldVars
  <1>7. ASSUME NEW c \in Requesters, DeviceFlowGranted(c) PROVE AuthTypeOK'
    BY <1>7 DEF DeviceFlowGranted
  <1>8. ASSUME NEW c \in Requesters, DeviceFlowFailed(c) PROVE AuthTypeOK'
    BY <1>8 DEF DeviceFlowFailed, Return
  <1>9. ASSUME NEW c \in Requesters, PersistToken(c) PROVE AuthTypeOK'
    BY <1>9 DEF PersistToken, UseGithubToken
  <1>10. ASSUME NEW c \in Requesters, PersistFailed(c) PROVE AuthTypeOK'
    BY <1>10 DEF PersistFailed, Return
  <1>11. ASSUME NEW c \in Requesters, GithubAnswers(c) PROVE AuthTypeOK'
    <2> DEFINE Issued(life) == [kind |-> "token", serial |-> issued + 1, exp |-> now + life]
               Refused(how) == [NoReply EXCEPT !.kind = how]
    <2>1. \A life \in Lifetimes : Issued(life) \in Reply
      OBVIOUS
    <2>2. Refused("rejected") \in Reply /\ Refused("denied") \in Reply /\ Refused("failed") \in Reply
      BY Zenon
    <2> HIDE DEF Issued, Refused, Reply, NoReply
    <2>3. /\ \/ \E life \in Lifetimes : reply' = [reply EXCEPT ![c] = Issued(life)]
             \/ reply' = [reply EXCEPT ![c] = Refused("rejected")]
             \/ reply' = [reply EXCEPT ![c] = Refused("denied")]
             \/ reply' = [reply EXCEPT ![c] = Refused("failed")]
          /\ issued' \in {issued, issued + 1}
          /\ failures' \in {failures, failures + 1}
      BY <1>11, Zenon DEF GithubAnswers, Issued, Refused
    <2>4. PICK r \in Reply : reply' = [reply EXCEPT ![c] = r]
      BY <2>1, <2>2, <2>3
    <2>5. reply' \in [Requesters -> Reply] /\ issued' \in Nat /\ failures' \in Nat
      BY <2>3, <2>4
    <2>6. pc' \in [Requesters -> {"idle", "waiting"} \union Inside]
      BY <1>11 DEF GithubAnswers
    <2>7. QED
      BY <1>11, <2>5, <2>6 DEF GithubAnswers
  <1>12. ASSUME NEW c \in Requesters, StoreToken(c) PROVE AuthTypeOK'
    BY <1>12 DEF StoreToken, Return, worldVars
  <1>13. ASSUME NEW c \in Requesters, RefreshFailed(c) PROVE AuthTypeOK'
    BY <1>13 DEF RefreshFailed, Return, worldVars
  <1>14. ASSUME NEW c \in Requesters, Cancel(c) PROVE AuthTypeOK'
    <2>1. queue' \in Seq(Requesters)
      <3>1. CASE pc[c] = "waiting"
        <4>1. LeaveQueue(c)
          BY <1>14, <3>1 DEF Cancel
        <4>2. PICK i \in 1..Len(queue) : queue' = RemoveAt(queue, i)
          BY <4>1 DEF LeaveQueue
        <4>3. QED
          BY <4>2, RemoveAtType
      <3>2. CASE pc[c] # "waiting"
        BY <1>14, <3>2 DEF Cancel
      <3>3. QED
        BY <3>1, <3>2
    <2>2. holder' \in Requesters \union {NoOne}
      BY <1>14 DEF Cancel
    <2>3. Dropped(c)
      BY <1>14 DEF Cancel
    <2>4. file' \in Tokens \union {NoToken}
      BY <2>3 DEF Dropped
    <2>5. /\ pc' \in [Requesters -> {"idle", "waiting"} \union Inside]
          /\ using' \in [Requesters -> Tokens \union {NoToken}]
          /\ reply' \in [Requesters -> Reply]
      BY <2>3 DEF Dropped
    <2>6. QED
      BY SMTT(30), <2>1, <2>2, <2>3, <2>4, <2>5 DEF Dropped
  <1>15. ASSUME TimePasses PROVE AuthTypeOK'
    BY <1>15 DEF TimePasses, procVars
  <1>16. ASSUME NEW token \in Tokens, Revoke(token) \/ ReplaceFile(token) \/ Subscription(token) PROVE AuthTypeOK'
    <2>1. CASE Revoke(token)
      <3>1. accepted' \in SUBSET Tokens /\ denied' \in SUBSET Tokens
        BY <2>1 DEF Revoke
      <3>2. QED
        BY <2>1, <3>1 DEF Revoke, procVars
    <2>2. CASE ReplaceFile(token)
      BY <2>2 DEF ReplaceFile, procVars
    <2>3. CASE Subscription(token)
      <3>1. denied' \in SUBSET Tokens
        BY <2>3 DEF Subscription
      <3>2. QED
        BY <2>3, <3>1 DEF Subscription, procVars
    <2>4. QED
      BY <1>16, <2>1, <2>2, <2>3
  <1>17. CASE UNCHANGED authVars
    BY <1>17 DEF authVars, procVars, worldVars
  <1>18. QED
    BY <1>1, <1>2, <1>3, <1>4, <1>5, <1>6, <1>7, <1>8, <1>9, <1>10, <1>11, <1>12, <1>13, <1>14,
       <1>15, <1>16, <1>17 DEF AuthNext, AuthStep, OwnStep, GithubStep

\* The steps that leave every call where it is.
LEMMA WorldSteps ==
    ASSUME TimePasses \/ (\E token \in Tokens : Revoke(token) \/ ReplaceFile(token) \/ Subscription(token)) \/ UNCHANGED authVars
    PROVE  UNCHANGED <<procVars, reply, issued>>
  BY DEF TimePasses, Revoke, ReplaceFile, Subscription, authVars, worldVars

\* The lock protects everything past the wait.
LEMMA NextLockHeld ==
    ASSUME AuthInv, [AuthNext]_authVars
    PROVE  LockHeld'
  <1> USE AuthAssumption DEF AuthInv, AuthTypeOK, LockHeld, Inside
  <1>1. ASSUME NEW c \in Requesters, Call(c) PROVE LockHeld'
    BY <1>1 DEF Call
  <1>2. ASSUME NEW c \in Requesters, AcquireLock(c) PROVE LockHeld'
    BY <1>2 DEF AcquireLock
  <1>3. ASSUME NEW c \in Requesters, pc[c] \in Inside, Return(c, "token") \/ Return(c, "error") \/ Return(c, "stale")
        PROVE LockHeld'
    BY <1>3 DEF Return
  <1>4. ASSUME NEW c \in Requesters, pc[c] \in Inside, holder' = holder,
               \E l \in Inside : pc' = [pc EXCEPT ![c] = l]
        PROVE LockHeld'
    BY <1>4
  <1>5. ASSUME NEW c \in Requesters, AuthStep(c) PROVE LockHeld'
    BY <1>2, <1>3, <1>4, <1>5
       DEF AuthStep, OwnStep, GithubStep, DoubleCheck, LoadGithubToken, UseGithubToken, RefuseDeviceFlow, StartDeviceFlow,
           DeviceFlowGranted, DeviceFlowFailed, PersistToken, PersistFailed, GithubAnswers,
           StoreToken, RefreshFailed
  <1>6. ASSUME NEW c \in Requesters, Cancel(c) PROVE LockHeld'
    BY <1>6 DEF Cancel, Dropped
  <1>7. CASE TimePasses \/ (\E token \in Tokens : Revoke(token) \/ ReplaceFile(token) \/ Subscription(token)) \/ UNCHANGED authVars
    BY <1>7, WorldSteps DEF procVars
  <1>8. QED
    BY <1>1, <1>5, <1>6, <1>7 DEF AuthNext

\* Two calls past the wait are the same call.
LEMMA OneInside ==
    ASSUME LockHeld, NEW c \in Requesters, NEW d \in Requesters, pc[c] \in Inside, pc[d] \in Inside
    PROVE  c = d
  BY DEF LockHeld

\* Only StoreToken writes the cache.
LEMMA CacheWrites ==
    ASSUME [AuthNext]_authVars, \A c \in Requesters : ~StoreToken(c)
    PROVE  cache' = cache
  BY DEF AuthNext, AuthStep, OwnStep, GithubStep, Call, AcquireLock, DoubleCheck, LoadGithubToken, UseGithubToken, RefuseDeviceFlow,
         StartDeviceFlow, DeviceFlowGranted, DeviceFlowFailed, PersistToken, PersistFailed,
         GithubAnswers, RefreshFailed, Cancel, Dropped, TimePasses, Revoke, ReplaceFile, Subscription, authVars, procVars

\* The clock does not go back.
LEMMA ClockAdvances ==
    ASSUME AuthTypeOK, [AuthNext]_authVars
    PROVE  now' \in Nat /\ now' >= now
  BY DEF AuthTypeOK, AuthNext, AuthStep, OwnStep, GithubStep, Call, AcquireLock, DoubleCheck, LoadGithubToken, UseGithubToken,
         RefuseDeviceFlow, StartDeviceFlow, DeviceFlowGranted, DeviceFlowFailed, PersistToken,
         PersistFailed, GithubAnswers, StoreToken, RefreshFailed, Cancel, Dropped, TimePasses, Revoke, ReplaceFile, Subscription,
         authVars, procVars, worldVars

\* While somebody is past the double check, the cache stays as it found it.
LEMMA NextNoRedundantExchange ==
    ASSUME AuthInv, [AuthNext]_authVars
    PROVE  NoRedundantExchange'
  <1> USE AuthAssumption DEF AuthInv
  <1>1. CASE \E c \in Requesters : StoreToken(c)
    <2>1. PICK c \in Requesters : StoreToken(c)
      BY <1>1
    <2>2. \A d \in Requesters : pc[d] \in Inside => d = c
      BY <2>1, OneInside DEF StoreToken, Inside
    <2>3. \A d \in Requesters : pc'[d] \notin Inside
      BY <2>1, <2>2 DEF StoreToken, Return, AuthTypeOK, Inside
    <2>4. QED
      BY <2>3 DEF NoRedundantExchange
  <1>2. CASE \A c \in Requesters : ~StoreToken(c)
    <2>1. ~Fresh => ~Fresh'
      BY <1>2, CacheWrites, ClockAdvances DEF Fresh, AuthTypeOK
    <2>2. \A d \in Requesters : pc'[d] \in Inside \ {"check"} =>
             pc[d] \in Inside \ {"check"} \/ ~Fresh
      BY <1>2 DEF AuthTypeOK, Inside, AuthNext, AuthStep, OwnStep, GithubStep, Call, AcquireLock, DoubleCheck, LoadGithubToken,
         UseGithubToken, RefuseDeviceFlow, StartDeviceFlow, DeviceFlowGranted, DeviceFlowFailed,
         PersistToken, PersistFailed, GithubAnswers, RefreshFailed, Return, Cancel, Dropped, TimePasses, Revoke,
         ReplaceFile, Subscription, authVars, procVars
    <2>3. QED
      BY <2>1, <2>2 DEF NoRedundantExchange
  <1>3. QED
    BY <1>1, <1>2

\* An answer under way carries a token GitHub issued after the cached one.
LEMMA NextAnswersAreNewer ==
    ASSUME AuthInv, [AuthNext]_authVars
    PROVE  AnswersAreNewer'
  <1> USE AuthAssumption DEF AuthInv
  <1>1. ASSUME NEW c \in Requesters, StoreToken(c) PROVE AnswersAreNewer'
    <2>1. \A d \in Requesters : pc'[d] # "reply"
      BY <1>1, OneInside DEF StoreToken, Return, AuthTypeOK, Inside
    <2>2. cache'.serial <= issued'
      BY <1>1 DEF StoreToken, AnswersAreNewer, worldVars
    <2>3. QED
      BY <2>1, <2>2 DEF AnswersAreNewer
  <1>2. ASSUME NEW c \in Requesters, GithubAnswers(c) PROVE AnswersAreNewer'
    <2>1. cache' = cache /\ issued' \in {issued, issued + 1}
      BY <1>2 DEF GithubAnswers
    <2>2. \A d \in Requesters \ {c} : pc'[d] = pc[d] /\ reply'[d] = reply[d]
      BY <1>2 DEF GithubAnswers, AuthTypeOK
    <2>3. reply'[c].kind = "token" => reply'[c].serial = issued + 1 /\ issued' = issued + 1
      BY <1>2 DEF GithubAnswers, AuthTypeOK, NoReply
    <2>4. cache.serial \in Nat /\ issued \in Nat /\ \A d \in Requesters : reply[d].serial \in Nat
      BY DEF AuthTypeOK, Reply
    <2>5. cache'.serial <= issued'
      BY <2>1, <2>4 DEF AnswersAreNewer
    <2>6. ASSUME NEW d \in Requesters, pc'[d] = "reply", reply'[d].kind = "token"
          PROVE  cache'.serial < reply'[d].serial /\ reply'[d].serial <= issued'
      <3>1. CASE d = c
        BY <2>1, <2>3, <2>4, <2>6, <3>1 DEF AnswersAreNewer
      <3>2. CASE d # c
        BY <2>1, <2>2, <2>4, <2>6, <3>2 DEF AnswersAreNewer
      <3>3. QED
        BY <3>1, <3>2
    <2>7. QED
      BY <2>5, <2>6 DEF AnswersAreNewer
  <1>3. CASE \A c \in Requesters : ~StoreToken(c) /\ ~GithubAnswers(c)
    <2>1. cache' = cache
      BY <1>3, CacheWrites
    <2>2. issued' = issued /\ \A d \in Requesters : pc'[d] = "reply" => pc[d] = "reply" /\ reply'[d] = reply[d]
      BY SMTT(30), <1>3 DEF AuthTypeOK, Inside, AuthNext, AuthStep, OwnStep, GithubStep, Call, AcquireLock, DoubleCheck, LoadGithubToken,
         UseGithubToken, RefuseDeviceFlow, StartDeviceFlow, DeviceFlowGranted, DeviceFlowFailed,
         PersistToken, PersistFailed, RefreshFailed, Return, Cancel, Dropped, TimePasses, Revoke,
         ReplaceFile, Subscription, authVars, procVars, worldVars
    <2>3. QED
      BY <2>1, <2>2 DEF AnswersAreNewer
  <1>4. QED
    BY <1>1, <1>2, <1>3

\* The invariant is inductive.
LEMMA NextAuthInv == AuthInv /\ [AuthNext]_authVars => AuthInv'
  BY NextAuthTypeOK, NextLockHeld, NextNoRedundantExchange, NextAnswersAreNewer DEF AuthInv

\* The invariant holds throughout.
THEOREM AuthInvariant == AuthSpec => []AuthInv
  BY InitAuthInv, NextAuthInv, PTL DEF AuthSpec

\* Every variable keeps its type.
THEOREM AuthTypeCorrect == AuthSpec => []AuthTypeOK
  <1>1. AuthInv => AuthTypeOK
    BY DEF AuthInv
  <1>2. QED
    BY <1>1, AuthInvariant, PTL

\* At most one request at a time is past the refresh lock, whatever requests
\* are dropped where (auth.rs, copilot_token and refresh_copilot_token).
THEOREM SingleFlightHolds == AuthSpec => []SingleFlight
  <1>1. AuthInv => SingleFlight
    BY OneInside DEF AuthInv, SingleFlight
  <1>2. QED
    BY <1>1, AuthInvariant, PTL

\* No request refreshes a token that is still fresh (the double check).
THEOREM NoRedundantExchangeHolds == AuthSpec => []NoRedundantExchange
  <1>1. AuthInv => NoRedundantExchange
    BY DEF AuthInv
  <1>2. QED
    BY <1>1, AuthInvariant, PTL

\* The cached Copilot token is never replaced by one issued before it.
THEOREM NewestTokenKeptHolds == AuthSpec => NewestTokenKept
  <1>1. AuthInv /\ [AuthNext]_authVars => [cache'.serial >= cache.serial]_authVars
    <2> SUFFICES ASSUME AuthInv, [AuthNext]_authVars PROVE cache'.serial >= cache.serial
      OBVIOUS
    <2>1. ASSUME NEW c \in Requesters, StoreToken(c) PROVE cache'.serial >= cache.serial
      BY <2>1 DEF StoreToken, AuthInv, AnswersAreNewer, AuthTypeOK, Reply
    <2>2. CASE \A c \in Requesters : ~StoreToken(c)
      BY <2>2, CacheWrites DEF AuthInv, AuthTypeOK
    <2>3. QED
      BY <2>1, <2>2
  <1>2. QED
    BY <1>1, AuthInvariant, PTL DEF AuthSpec, NewestTokenKept
=============================================================================
