----------------------------- MODULE CopilotAuth -----------------------------
(***************************************************************************)
(* auth.rs: the GitHub token the proxy holds and the short-lived Copilot   *)
(* token it exchanges it for, shared by every concurrent request.          *)
(*                                                                         *)
(* `copilot_token' answers from the cache while the token has more than    *)
(* Margin seconds left; otherwise it queues for the refresh lock, looks    *)
(* again, obtains a GitHub token (environment, file, device flow) and      *)
(* exchanges it.  A request handler may be dropped at any await, which     *)
(* drops the call it is in.  The lock is tokio's Mutex: first come, first  *)
(* served.                                                                 *)
(***************************************************************************)
EXTENDS Integers, Sequences, FiniteSets

CONSTANTS
    Requesters,    \* concurrent requests that need a Copilot token
    Tokens,        \* GitHub tokens
    NoToken, NoOne,
    EnvTokens,     \* values of GITHUB_TOKEN to try: tokens, or NoToken
    Terminals,     \* whether stdin is a terminal, values to try
    Margin,        \* refresh a token this long before it expires (120 s)
    Lifetimes,     \* lifetimes GitHub may give a Copilot token
    MaxTime, MaxSerial, MaxFailures, MaxCancels   \* bounds of an instance

ASSUME AuthAssumption ==
    /\ NoToken \notin Tokens
    /\ NoOne \notin Requesters
    /\ EnvTokens \subseteq Tokens \union {NoToken}
    /\ Terminals \subseteq BOOLEAN
    /\ Margin \in Nat
    /\ Lifetimes \subseteq Nat
    /\ {MaxTime, MaxSerial, MaxFailures, MaxCancels} \subseteq Nat

VARIABLES
    env,           \* GITHUB_TOKEN, read when the process starts, or NoToken
    interactive,   \* stdin is a terminal
    now,
    github,        \* github_token: the GitHub token kept in memory
    cache,         \* copilot_token: [serial, exp]; serial 0 when there is none
    holder,        \* holder of copilot_token_refresh_lock
    queue,         \* callers waiting for it
    pc,            \* where each call is
    using,         \* the GitHub token a call is exchanging
    reply,         \* GitHub's answer under way to a call
    res,           \* what a caller's latest call returned
    (* the world outside the process *)
    file,          \* content of the github_token file
    accepted,      \* the GitHub tokens GitHub accepts now
    denied,        \* those of them without a subscription to Copilot
    issued,        \* number of Copilot tokens issued so far
    failures, cancels

procVars  == <<github, cache, holder, queue, pc, using, res>>
worldVars == <<env, interactive, now, file, accepted, denied, issued, failures, cancels>>
authVars  == <<procVars, reply, worldVars>>

Outcomes == {"none", "token", "stale", "error"}
Reply    == [kind : {"none", "token", "rejected", "denied", "failed"}, serial : Nat, exp : Nat]
NoReply  == [kind |-> "none", serial |-> 0, exp |-> 0]

AuthInit ==
    /\ env \in EnvTokens
    /\ interactive \in Terminals
    /\ now = 0
    /\ github = NoToken
    /\ cache = [serial |-> 0, exp |-> 0]
    /\ holder = NoOne
    /\ queue = <<>>
    /\ pc = [c \in Requesters |-> "idle"]
    /\ using = [c \in Requesters |-> NoToken]
    /\ reply = [c \in Requesters |-> NoReply]
    /\ res = [c \in Requesters |-> "none"]
    /\ file \in Tokens \union {NoToken}
    /\ accepted \in SUBSET Tokens
    /\ denied \in SUBSET accepted
    /\ issued = 0
    /\ failures = 0
    /\ cancels = 0
-----------------------------------------------------------------------------
Fresh   == now + Margin < cache.exp
Usable  == now < cache.exp

\* The call ends with `result'; dropping the guard releases the lock.
Return(c, result) ==
    /\ pc' = [pc EXCEPT ![c] = "idle"]
    /\ res' = [res EXCEPT ![c] = result]
    /\ using' = [using EXCEPT ![c] = NoToken]
    /\ holder' = NoOne

\* copilot_token, its fast path, or the wait for the lock.
Call(c) ==
    /\ pc[c] = "idle"
    /\ IF Fresh
       THEN /\ res' = [res EXCEPT ![c] = "token"]
            /\ UNCHANGED <<queue, pc>>
       ELSE /\ res' = [res EXCEPT ![c] = "none"]
            /\ queue' = Append(queue, c)
            /\ pc' = [pc EXCEPT ![c] = "waiting"]
    /\ UNCHANGED <<github, cache, holder, using, reply, worldVars>>

\* Mutant: whoever is first in the queue goes on, lock or not.
AcquireAnyway(c) ==
    /\ queue # <<>> /\ Head(queue) = c
    /\ holder' = c
    /\ queue' = Tail(queue)
    /\ pc' = [pc EXCEPT ![c] = "check"]
    /\ UNCHANGED <<github, cache, using, reply, res, worldVars>>

AcquireLock(c) ==
    /\ holder = NoOne
    /\ queue # <<>> /\ Head(queue) = c
    /\ holder' = c
    /\ queue' = Tail(queue)
    /\ pc' = [pc EXCEPT ![c] = "check"]
    /\ UNCHANGED <<github, cache, using, reply, res, worldVars>>

\* Mutant: no second look at the cache.
DoubleCheckSkipped(c) ==
    /\ pc[c] = "check"
    /\ pc' = [pc EXCEPT ![c] = "github"]
    /\ UNCHANGED <<github, cache, holder, queue, using, reply, res, worldVars>>

\* The double check under the lock.
DoubleCheck(c) ==
    /\ pc[c] = "check"
    /\ IF Fresh THEN Return(c, "token")
       ELSE /\ pc' = [pc EXCEPT ![c] = "github"]
            /\ UNCHANGED <<res, using, holder>>
    /\ UNCHANGED <<github, cache, queue, reply, worldVars>>

UseGithubToken(c, token) ==
    /\ github' = token
    /\ using' = [using EXCEPT ![c] = token]
    /\ pc' = [pc EXCEPT ![c] = "exchange"]
    /\ UNCHANGED <<cache, holder, queue, res, reply>>

\* github_token: the token in memory, the environment's or the file's.
LoadGithubToken(c) ==
    /\ pc[c] = "github"
    /\ \E token \in Tokens :
          /\ \/ github = token
             \/ github = NoToken /\ env = token
             \/ github = NoToken /\ env = NoToken /\ file = token
          /\ UseGithubToken(c, token)
    /\ UNCHANGED worldVars

NoGithubToken == github = NoToken /\ env = NoToken /\ file = NoToken

RefuseDeviceFlow(c) ==
    /\ pc[c] = "github"
    /\ NoGithubToken /\ ~interactive
    /\ Return(c, "error")
    /\ UNCHANGED <<github, cache, queue, reply, worldVars>>

StartDeviceFlow(c) ==
    /\ pc[c] = "github"
    /\ NoGithubToken /\ interactive
    /\ pc' = [pc EXCEPT ![c] = "device"]
    /\ UNCHANGED <<github, cache, holder, queue, using, res, reply, worldVars>>

\* run_device_flow ends with a granted token, or is denied, expires or fails.
DeviceFlowGranted(c) ==
    /\ pc[c] = "device"
    /\ \E token \in Tokens :
          /\ using' = [using EXCEPT ![c] = token]
          /\ accepted' = accepted \union {token}
    /\ pc' = [pc EXCEPT ![c] = "persist"]
    /\ UNCHANGED <<github, cache, holder, queue, res, reply, env, interactive, now, file, denied, issued, failures, cancels>>

DeviceFlowFailed(c) ==
    /\ pc[c] = "device"
    /\ failures < MaxFailures
    /\ failures' = failures + 1
    /\ Return(c, "error")
    /\ UNCHANGED <<github, cache, queue, reply, env, interactive, now, file, accepted, denied, issued, cancels>>

\* persist_token; the write may succeed and the chmod after it fail.
PersistToken(c) ==
    /\ pc[c] = "persist"
    /\ file' = using[c]
    /\ UseGithubToken(c, using[c])
    /\ UNCHANGED <<env, interactive, now, accepted, denied, issued, failures, cancels>>

PersistFailed(c) ==
    /\ pc[c] = "persist"
    /\ failures < MaxFailures
    /\ failures' = failures + 1
    /\ file' \in {file, using[c]}
    /\ Return(c, "error")
    /\ UNCHANGED <<github, cache, queue, reply, env, interactive, now, accepted, denied, issued, cancels>>
-----------------------------------------------------------------------------
\* GitHub answers the exchange, with a token, 401, 403 or some other failure;
\* the answer is then under way.
GithubAnswers(c) ==
    /\ pc[c] = "exchange"
    /\ pc' = [pc EXCEPT ![c] = "reply"]
    /\ \/ /\ using[c] \in accepted \ denied
          /\ issued < MaxSerial
          /\ issued' = issued + 1
          /\ \E life \in Lifetimes :
                reply' = [reply EXCEPT ![c] =
                             [kind |-> "token", serial |-> issued + 1, exp |-> now + life]]
          /\ UNCHANGED failures
       \/ /\ using[c] \notin accepted
          /\ reply' = [reply EXCEPT ![c] = [NoReply EXCEPT !.kind = "rejected"]]
          /\ UNCHANGED <<issued, failures>>
       \/ /\ using[c] \in denied
          /\ reply' = [reply EXCEPT ![c] = [NoReply EXCEPT !.kind = "denied"]]
          /\ UNCHANGED <<issued, failures>>
       \/ /\ failures < MaxFailures
          /\ failures' = failures + 1
          /\ reply' = [reply EXCEPT ![c] = [NoReply EXCEPT !.kind = "failed"]]
          /\ UNCHANGED issued
    /\ UNCHANGED <<github, cache, holder, queue, using, res, env, interactive, now, file, accepted, denied, cancels>>

\* refresh_copilot_token stores the new token.
StoreToken(c) ==
    /\ pc[c] = "reply" /\ reply[c].kind = "token"
    /\ cache' = [serial |-> reply[c].serial, exp |-> reply[c].exp]
    /\ reply' = [reply EXCEPT ![c] = NoReply]
    /\ Return(c, "token")
    /\ UNCHANGED <<github, queue, worldVars>>

\* Mutant: a rejected GitHub token is kept.
RefreshFailedSticky(c) ==
    /\ pc[c] = "reply" /\ reply[c].kind \in {"rejected", "denied", "failed"}
    /\ reply' = [reply EXCEPT ![c] = NoReply]
    /\ Return(c, IF Usable THEN "stale" ELSE "error")
    /\ UNCHANGED <<github, cache, queue, worldVars>>

\* It failed: a 401 drops the GitHub token, a 403 does not; a cached token that has not
\* expired yet is served, otherwise the error.
RefreshFailed(c) ==
    /\ pc[c] = "reply" /\ reply[c].kind \in {"rejected", "denied", "failed"}
    /\ github' = IF reply[c].kind = "rejected" THEN NoToken ELSE github
    /\ reply' = [reply EXCEPT ![c] = NoReply]
    /\ Return(c, IF Usable THEN "stale" ELSE "error")
    /\ UNCHANGED <<cache, queue, worldVars>>
-----------------------------------------------------------------------------
RemoveAt(s, i) == SubSeq(s, 1, i - 1) \o SubSeq(s, i + 1, Len(s))

Dropped(c) ==
    /\ pc[c] # "idle"
    /\ cancels < MaxCancels
    /\ cancels' = cancels + 1
    /\ pc' = [pc EXCEPT ![c] = "idle"]
    /\ using' = [using EXCEPT ![c] = NoToken]
    /\ reply' = [reply EXCEPT ![c] = NoReply]
    /\ file' \in IF pc[c] = "persist" THEN {file, using[c]} ELSE {file}
    /\ UNCHANGED <<github, cache, res, env, interactive, now, accepted, denied, issued, failures>>

LeaveQueue(c) == \E i \in 1..Len(queue) : queue[i] = c /\ queue' = RemoveAt(queue, i)

\* Mutants: any dropped request frees the lock; none does.
CancelFreesLock(c) ==
    /\ Dropped(c)
    /\ holder' = NoOne
    /\ IF pc[c] = "waiting" THEN LeaveQueue(c) ELSE UNCHANGED queue

CancelKeepsLock(c) ==
    /\ Dropped(c)
    /\ UNCHANGED holder
    /\ IF pc[c] = "waiting" THEN LeaveQueue(c) ELSE UNCHANGED queue

\* The request is dropped: a waiter leaves the queue, a holder frees the
\* lock.  A file write already handed to the runtime may still happen.
Cancel(c) ==
    /\ Dropped(c)
    /\ IF pc[c] = "waiting" THEN LeaveQueue(c) /\ UNCHANGED holder
       ELSE holder' = NoOne /\ UNCHANGED queue

TimePasses ==
    /\ now < MaxTime
    /\ now' = now + 1
    /\ UNCHANGED <<procVars, reply, env, interactive, file, accepted, denied, issued, failures, cancels>>

Revoke(token) ==
    /\ token \in accepted
    /\ accepted' = accepted \ {token}
    /\ denied' = denied \ {token}
    /\ UNCHANGED <<procVars, reply, env, interactive, now, file, issued, failures, cancels>>

\* Another run of the program, or the operator, replaces the file.
ReplaceFile(token) ==
    /\ token \in accepted /\ file # token
    /\ file' = token
    /\ UNCHANGED <<procVars, reply, env, interactive, now, accepted, denied, issued, failures, cancels>>

\* The account behind a token loses Copilot, or gets it.
Subscription(token) ==
    /\ token \in accepted
    /\ denied' = IF token \in denied THEN denied \ {token} ELSE denied \union {token}
    /\ UNCHANGED <<procVars, reply, env, interactive, now, file, accepted, issued, failures, cancels>>

\* What a call does without waiting for anybody but the lock's holder.
OwnStep(c) ==
    \/ AcquireLock(c)
    \/ DoubleCheck(c)
    \/ LoadGithubToken(c)
    \/ RefuseDeviceFlow(c)
    \/ StartDeviceFlow(c)
    \/ PersistToken(c)
    \/ PersistFailed(c)
    \/ StoreToken(c)
    \/ RefreshFailed(c)

\* What it waits for: GitHub, and in the device flow the user.
GithubStep(c) == DeviceFlowGranted(c) \/ DeviceFlowFailed(c) \/ GithubAnswers(c)

AuthStep(c) == OwnStep(c) \/ GithubStep(c)

AuthNext ==
    \/ \E c \in Requesters : Call(c) \/ AuthStep(c) \/ Cancel(c)
    \/ TimePasses
    \/ \E token \in Tokens : Revoke(token) \/ ReplaceFile(token) \/ Subscription(token)

AuthSpec == AuthInit /\ [][AuthNext]_authVars

\* A call that can go on by itself does, and requests keep coming.  Nothing
\* makes GitHub answer: the client of the exchange has no timeout (Client::new()),
\* so a connection may stay open for ever.  Time, revocations, subscriptions and
\* cancellations owe nothing either.
AuthFairSpec == AuthSpec /\ \A c \in Requesters : WF_authVars(OwnStep(c)) /\ WF_authVars(Call(c))
-----------------------------------------------------------------------------
Inside == {"check", "github", "device", "persist", "exchange", "reply"}

AuthTypeOK ==
    /\ env \in Tokens \union {NoToken}
    /\ interactive \in BOOLEAN
    /\ now \in Nat
    /\ github \in Tokens \union {NoToken}
    /\ cache \in [serial : Nat, exp : Nat]
    /\ holder \in Requesters \union {NoOne}
    /\ queue \in Seq(Requesters)
    /\ pc \in [Requesters -> {"idle", "waiting"} \union Inside]
    /\ using \in [Requesters -> Tokens \union {NoToken}]
    /\ reply \in [Requesters -> Reply]
    /\ res \in [Requesters -> Outcomes]
    /\ file \in Tokens \union {NoToken}
    /\ accepted \in SUBSET Tokens
    /\ denied \in SUBSET Tokens
    /\ issued \in Nat /\ failures \in Nat /\ cancels \in Nat

\* Two requests never exchange a token, poll a device flow or write the token
\* file at the same time, although any of them may be dropped at any await.
SingleFlight ==
    \A c, d \in Requesters : pc[c] \in Inside /\ pc[d] \in Inside => c = d

\* A late answer never puts an older Copilot token back in the cache.
NewestTokenKept == [][cache'.serial >= cache.serial]_authVars

\* Nobody asks GitHub for a token while a fresh one is cached: whoever waited
\* for the lock looks again (the double check) and finds it.
NoRedundantExchange ==
    \A c \in Requesters : pc[c] \in Inside \ {"check"} => ~Fresh

\* GitHub, or the user asked to authorize, never answers one of the calls.
GithubHangs == \E c \in Requesters : <>[](pc[c] \in {"device", "exchange"})

\* Only GitHub can keep a call waiting: unless one call is with GitHub for ever,
\* which blocks all that queue behind it (its lock is held and its client has no
\* timeout), every call returns, whoever is dropped in the meantime and wherever.
EveryCallReturns == GithubHangs \/ \A c \in Requesters : (pc[c] # "idle") ~> (pc[c] = "idle")

\* A GitHub token that is rejected (401) does not stick: once a token that GitHub
\* takes is and stays in the file, every later call gets a Copilot token without a
\* restart, unless a call hangs or the token in memory is one that GitHub takes
\* but gives nothing for (403), again and again: that one is never dropped.
\* Other failures end (MaxFailures).
RecoversFromRejection ==
    env = NoToken /\ <>[](file \in accepted \ denied) =>
        \/ GithubHangs
        \/ []<>(github \in denied)
        \/ <>[](\A c \in Requesters : res[c] \in {"none", "token"})
=============================================================================
