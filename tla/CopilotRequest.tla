---------------------------- MODULE CopilotRequest ----------------------------
(***************************************************************************)
(* One request of a client on its way to Copilot: the retry loops of       *)
(* copilot/client.rs (post_json, stream_request, get_json), the fallbacks  *)
(* around them (post_chat, stream_chat, post_responses, stream_responses)  *)
(* and the early-failure retry of http/responses.rs.                       *)
(*                                                                         *)
(* A request is what the upstream tells apart: which removable ciphertext  *)
(* its agent messages carry, whether it asks gpt-5.5 for an effort above   *)
(* "high", and its anthropic-beta headers.  A loop sends it again          *)
(*   after an outage (no connection, a timeout, 429 or 5xx), RetryMax times*)
(*   without the betas a refusal names, as often as one is removed         *)
(* and a fallback starts a second loop with another body and the caller's  *)
(* own headers.  Delays between attempts and the rate limiter only take    *)
(* time and are left out.                                                  *)
(***************************************************************************)
EXTENDS Naturals, FiniteSets

CONSTANTS
    Kinds,      \* subset of {"chat", "messages", "responses", "get"}
    RetryMax,   \* copilot_retry_max
    Betas       \* anthropic-beta values a client may send

ASSUME RequestAssumption ==
    /\ Kinds \subseteq {"chat", "messages", "responses", "get"}
    /\ RetryMax \in Nat
    /\ IsFiniteSet(Betas)

VARIABLES
    kind, streamed,
    stripKnown,  \* strip_rejected_agent_message_ciphertext
    caller,      \* the request the handler was given
    request,     \* the request as the loop sends it next
    loop,        \* "first", "fallback" or "early"
    attempt,     \* retries after an outage in this loop
    phase,
    refusal,     \* why the upstream refused the request, while phase = "refused"
    outcome,     \* what the caller is told
    (* history *)
    loops,       \* loops begun
    sends,       \* requests that reached the network, up to MaxSends
    refused,     \* the requests the upstream refused
    complaints   \* the reasons the upstream gave for failing

vars == <<kind, streamed, stripKnown, caller, request, loop, attempt, phase, refusal, outcome,
          loops, sends, refused, complaints>>

\* A request costs at most one round of retries and one send per beta for
\* each of its loops, and it has no more than three loops.
LoopCost == RetryMax + 1 + Cardinality(Betas)
MaxSends == LoopCost + LoopCost + LoopCost + 1

Ciphertext == {"known", "other"}   \* in the envelope Copilot always rejects, or not
Request    == [cipher : SUBSET Ciphertext, effort : {"high", "higher"}, betas : SUBSET Betas]
Refusals   == {"betas", "decrypt", "unsupported", "other"}

\* strip_agent_message_encrypted_content, and its variant for the known envelope
Stripped(r) == [r EXCEPT !.cipher = {}]

\* Mutant: all ciphertext is taken for known.
StrippedAll(r) == IF stripKnown THEN Stripped(r) ELSE r

StrippedKnown(r) == IF stripKnown THEN [r EXCEPT !.cipher = @ \ {"known"}] ELSE r

\* What a client can ask of each endpoint.
Possible(k, r) ==
    /\ k # "responses" => r.cipher = {}
    /\ k # "chat" => r.effort = "high"
    /\ k \notin {"chat", "messages"} => r.betas = {}

Init ==
    /\ kind \in Kinds
    /\ streamed \in (IF kind = "get" THEN {FALSE} ELSE BOOLEAN)
    /\ stripKnown \in BOOLEAN
    /\ caller \in {r \in Request : Possible(kind, r)}
    /\ request = StrippedKnown(caller)
    /\ loop = "first"
    /\ attempt = 0
    /\ phase = "send"
    /\ refusal = "none"
    /\ outcome = "none"
    /\ loops = 1
    /\ sends = 0
    /\ refused = {}
    /\ complaints = {}
-----------------------------------------------------------------------------
Finish(result) ==
    /\ phase' = "done"
    /\ outcome' = result
    /\ UNCHANGED <<request, loop, attempt, refusal>>

\* An error the loop rides out while it has retries left.
RetryOr(result) ==
    IF attempt < RetryMax
    THEN /\ attempt' = attempt + 1
         /\ phase' = "send"
         /\ UNCHANGED <<request, loop, refusal, outcome>>
    ELSE Finish(result)

\* What every step but Init leaves alone, and what most do.
Given == UNCHANGED <<kind, streamed, stripKnown, caller>>
Keep  == Given /\ UNCHANGED <<loops, sends, refused, complaints>>

\* Every attempt asks for a Copilot token of its own.
Send ==
    /\ phase = "send"
    /\ phase' = "answer"
    /\ sends' = IF sends < MaxSends THEN sends + 1 ELSE sends
    /\ UNCHANGED <<request, loop, attempt, refusal, outcome, loops, refused, complaints>>
    /\ Given

NoCopilotToken ==
    /\ phase = "send"
    /\ Finish("auth")
    /\ Keep

\* A timeout or a failed connection (map_reqwest_error), or a status that may
\* pass (retryable_status); whether the upstream acted on the request is unknown.
Outage ==
    /\ phase = "answer"
    /\ RetryOr("transient")
    /\ Keep

ConnectionBroken ==
    /\ phase = "answer"
    /\ Finish("transport")
    /\ Keep

\* Any other status.  Mutant: the betas it names are removed from nothing.
RefuseKeepsBetas(reason, named) ==
    /\ phase = "answer"
    /\ IF reason = "betas" /\ kind # "get" /\ named \cap request.betas # {}
       THEN phase' = "send" /\ UNCHANGED refusal
       ELSE phase' = "refused" /\ refusal' = reason
    /\ refused' = refused \union {request}
    /\ complaints' = complaints \union {reason}
    /\ UNCHANGED <<request, loop, attempt, outcome, loops, sends>>
    /\ Given

\* A refusal that names betas the request has is answered by sending it
\* without them; that is no retry.
Refuse(reason, named) ==
    /\ phase = "answer"
    /\ IF reason = "betas" /\ kind # "get" /\ named \cap request.betas # {}
       THEN /\ request' = [request EXCEPT !.betas = @ \ named]
            /\ phase' = "send"
            /\ UNCHANGED refusal
       ELSE /\ phase' = "refused"
            /\ refusal' = reason
            /\ UNCHANGED request
    /\ refused' = refused \union {request}
    /\ complaints' = complaints \union {reason}
    /\ UNCHANGED <<loop, attempt, outcome, loops, sends>>
    /\ Given

\* A success status; the answer's body is still to come.
Accept ==
    /\ phase = "answer"
    /\ phase' = IF streamed THEN "headers" ELSE "body"
    /\ UNCHANGED <<request, loop, attempt, refusal, outcome>>
    /\ Keep

BodyRead ==
    /\ phase = "body"
    /\ Finish("ok")
    /\ Keep

\* Only get_json asks again for a body that did not arrive in time.
BodyTimedOut ==
    /\ phase = "body"
    /\ IF kind = "get" THEN RetryOr("transient") ELSE Finish("lateBody")
    /\ Keep

BodyBroken ==
    /\ phase = "body"
    /\ Finish("transport")
    /\ Keep
-----------------------------------------------------------------------------
\* A second loop; the caller's metadata was cloned, so its betas are back.
Again(next, body) ==
    /\ loops' = loops + 1
    /\ loop' = next
    /\ request' = [body EXCEPT !.betas = caller.betas]
    /\ attempt' = 0
    /\ phase' = "send"
    /\ refusal' = "none"
    /\ UNCHANGED <<outcome, sends, refused>>
    /\ Given

MayLowerEffort ==
    kind = "chat" /\ refusal = "unsupported" /\ request.effort = "higher"

MayStrip ==
    kind = "responses" /\ refusal = "decrypt" /\ request.cipher # {}

\* chat_retry_with_downgraded_effort.  Mutant: the body goes out as it was.
LowerEffortForgotten ==
    /\ phase = "refused" /\ loop = "first" /\ MayLowerEffort
    /\ Again("fallback", request)
    /\ UNCHANGED complaints

LowerEffort ==
    /\ phase = "refused" /\ loop = "first" /\ MayLowerEffort
    /\ Again("fallback", [request EXCEPT !.effort = "high"])
    /\ UNCHANGED complaints

\* Mutant: the fallback comes with a fallback.
StripEveryLoop ==
    /\ phase = "refused" /\ kind = "responses" /\ refusal = "decrypt"
    /\ Again("fallback", Stripped(request))
    /\ UNCHANGED complaints

\* The upstream could not decrypt an agent message.
StripCiphertext ==
    /\ phase = "refused" /\ loop = "first" /\ MayStrip
    /\ Again("fallback", Stripped(request))
    /\ UNCHANGED complaints

ReportRefusal ==
    /\ phase = "refused"
    /\ ~(loop = "first" /\ (MayLowerEffort \/ MayStrip))
    /\ Finish("refused")
    /\ Keep

\* The handler looks at the start of a stream before it passes it on if it
\* could send the request without some ciphertext.
LooksAtPrefix == kind = "responses" /\ caller.cipher # {} /\ loop # "early"

\* buffer_copilot_responses_stream_prefix decides to forward.
ForwardStream ==
    /\ phase = "headers"
    /\ Finish("ok")
    /\ Keep

\* The prefix is too long, or the connection breaks in it.
PrefixBroken ==
    /\ phase = "headers" /\ LooksAtPrefix
    /\ Finish("transport")
    /\ Keep

\* It begins with response.failed, because of the ciphertext or for no reason.
EarlyFailure(reason) ==
    /\ phase = "headers" /\ LooksAtPrefix
    /\ Again("early", Stripped(caller))
    /\ complaints' = complaints \union {reason}

Step ==
    \/ Send
    \/ NoCopilotToken
    \/ Outage
    \/ ConnectionBroken
    \/ \E reason \in Refusals, named \in SUBSET Betas : Refuse(reason, named)
    \/ Accept
    \/ BodyRead
    \/ BodyTimedOut
    \/ BodyBroken
    \/ LowerEffort
    \/ StripCiphertext
    \/ ReportRefusal
    \/ ForwardStream
    \/ PrefixBroken
    \/ \E reason \in {"decrypt", "nameless"} : EarlyFailure(reason)

\* The client goes away and the handler is dropped.
Disconnect ==
    /\ phase # "done"
    /\ Finish("gone")
    /\ Keep

Next == Step \/ Disconnect

Spec == Init /\ [][Next]_vars

\* The upstream answers, or its timeout passes.  The Copilot token each send needs
\* is taken to come, as it does unless GitHub hangs (CopilotAuth!GithubHangs).
FairSpec == Spec /\ WF_vars(Step)
-----------------------------------------------------------------------------
TypeOK ==
    /\ kind \in Kinds
    /\ streamed \in BOOLEAN
    /\ stripKnown \in BOOLEAN
    /\ caller \in Request
    /\ request \in Request
    /\ loop \in {"first", "fallback", "early"}
    /\ attempt \in 0..RetryMax
    /\ phase \in {"send", "answer", "body", "headers", "refused", "done"}
    /\ refusal \in Refusals \union {"none"}
    /\ outcome \in {"none", "ok", "auth", "transient", "lateBody", "transport", "refused", "gone"}
    /\ loops \in 1..3
    /\ sends \in 0..MaxSends
    /\ refused \in SUBSET Request
    /\ complaints \in SUBSET (Refusals \union {"nameless"})

\* A request the upstream refused is never sent again as it was, in whatever
\* way refused betas, a lowered effort, removed ciphertext and the headers
\* a fallback brings back come together.
RefusedNotRepeated == phase = "answer" => request \notin refused

\* A request of a client costs the upstream a bounded number of sends: one
\* loop of them without a fallback, two with, three if the handler then sees
\* an early failure.
SendsBounded ==
    /\ sends <= LoopCost + LoopCost + LoopCost
    /\ ~(streamed /\ kind = "responses") => sends <= LoopCost + LoopCost
    /\ kind \in {"messages", "get"} => sends <= LoopCost

\* Ciphertext Copilot may be able to read stays in the request until a
\* request of this client has failed over it, or for no stated reason.
CiphertextKept ==
    "other" \in caller.cipher \ request.cipher => complaints \cap {"decrypt", "nameless"} # {}

\* Every request is answered.
EventuallyAnswered == <>(phase = "done")
=============================================================================
