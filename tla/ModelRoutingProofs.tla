--------------------------- MODULE ModelRoutingProofs ---------------------------
(***************************************************************************)
(* Proofs about ModelRouting for any lists, names, aliases, overrides and  *)
(* any number of requests.                                                 *)
(*                                                                         *)
(* A request is judged by the lists that were in force while it was routed *)
(* (seen).  The list it looks at next is one of them (SeesWhatIsThere), so *)
(* each of its looks adds one fact about one of them to what is known of   *)
(* the request (Good), and lists that come later take none of it away.     *)
(***************************************************************************)
EXTENDS ModelRouting, WellFoundedInduction, TLAPS

\* A set of numbers that is bounded has a largest and a smallest.
LEMMA SmallestOf ==
    ASSUME NEW S \in SUBSET Nat, S # {}
    PROVE  \E s \in S : \A t \in S : s <= t
<1>1. PICK s \in S : \A t \in S : ~(<<t, s>> \in OpToRel(<, Nat))
  BY NatLessThanWellFounded, WFMin
<1>2. \A t \in S : ~(t < s)
  BY <1>1 DEF OpToRel
<1> QED
  BY <1>2

LEMMA LargestOf ==
    ASSUME NEW n \in Nat, NEW S \in SUBSET (0..n), S # {}
    PROVE  \E s \in S : \A t \in S : t <= s
<1> DEFINE D == {n - s : s \in S}
<1>1. D \in SUBSET Nat /\ D # {}
  <2>1. \A s \in S : n - s \in Nat
    OBVIOUS
  <2>2. PICK s \in S : TRUE
    OBVIOUS
  <2>3. n - s \in D
    BY <2>2
  <2> QED
    BY <2>1, <2>3
<1>2. PICK d \in D : \A e \in D : d <= e
  BY <1>1, SmallestOf
<1>3. PICK s \in S : d = n - s
  BY <1>2
<1>4. \A t \in S : n - s <= n - t
  BY <1>2, <1>3
<1> QED
  BY <1>3, <1>4
-----------------------------------------------------------------------------
LEMMA ListsAreModels ==
    ASSUME NEW list \in Lists \union {NoList}
    PROVE  IsModels(list)
<1>1. IsModels(NoList)
  BY DEF IsModels, NoList, Model
<1> QED
  BY <1>1, RoutingAssumption

\* What is known of a model has the type of a list.
LEMMA KnownTypes ==
    ASSUME NEW list \in Lists \union {NoList}, NEW name
    PROVE  /\ SupportedEfforts(name, list) \in SUBSET Efforts
           /\ SupportedEndpoints(name, list) \in SUBSET Endpoints
<1>1. ASSUME NEW f, IsModels(f), NEW id \in DOMAIN f
      PROVE  f[id]["endpoints"] \in SUBSET Endpoints /\ f[id]["efforts"] \in SUBSET Efforts
  BY <1>1 DEF IsModels, Model
<1>2. IsModels(list) /\ IsModels(Static)
  BY ListsAreModels, RoutingAssumption
<1>3. /\ Known(Canonical(name), list, "efforts") \in SUBSET Efforts
      /\ Known(Canonical(name), list, "endpoints") \in SUBSET Endpoints
  BY <1>1, <1>2 DEF Known
<1> QED
  BY <1>3 DEF SupportedEfforts, SupportedEndpoints, Endpoints

\* An effort that is kept or put in place of another is one the model has
\* (SupportedEfforts::clamp).
LEMMA ClampSupported ==
    ASSUME NEW efforts \in SUBSET Efforts, NEW wanted \in Wanted
    PROVE  Clamp(efforts, wanted) = NoEffort \/ Clamp(efforts, wanted) \in efforts
<1> DEFINE within == {e \in efforts : e <= wanted}
<1>1. CASE efforts = {} \/ wanted = NoEffort
  BY <1>1 DEF Clamp
<1>2. CASE efforts # {} /\ wanted # NoEffort /\ within # {}
  <2>1. \E e \in within : \A f \in within : f <= e
    BY <1>2, LargestOf DEF Efforts
  <2>2. Clamp(efforts, wanted) = CHOOSE e \in within : \A f \in within : f <= e
    BY <1>2 DEF Clamp
  <2> QED
    BY <2>1, <2>2
<1>3. CASE efforts # {} /\ wanted # NoEffort /\ within = {}
  <2>1. \E e \in efforts : \A f \in efforts : e <= f
    BY <1>3, SmallestOf DEF Efforts
  <2>2. Clamp(efforts, wanted) = CHOOSE e \in efforts : \A f \in efforts : e <= f
    BY <1>3 DEF Clamp
  <2> QED
    BY <2>1, <2>2
<1> QED
  BY <1>1, <1>2, <1>3

\* Of a family with a listed model the newest is chosen (latest_claude_model).
LEMMA NewestIsListed ==
    ASSUME NEW family, NEW list, OfFamily(family, list) # {}
    PROVE  /\ Newest(family, list) \in OfFamily(family, list)
           /\ \A id \in OfFamily(family, list) :
                 Version[id].number <= Version[Newest(family, list)].number
<1> DEFINE members == OfFamily(family, list)
           numbers == {Version[id].number : id \in members}
<1>1. \A id \in members : Version[id].number \in 0..MaxVersion
  BY RoutingAssumption DEF OfFamily
<1>2. numbers \in SUBSET (0..MaxVersion) /\ numbers # {} /\ MaxVersion \in Nat
  BY <1>1, RoutingAssumption
<1>3. \E n \in numbers : \A m \in numbers : m <= n
  BY <1>2, LargestOf
<1>4. \E id \in members : \A other \in members : Version[other].number <= Version[id].number
  BY <1>3
<1> QED
  BY <1>4 DEF Newest

\* The model a name is resolved to is what is meant by the name.
LEMMA ResolveIsMeant ==
    ASSUME NEW name, NEW list
    PROVE  MeantBy(name, Resolve(name, list), list)
<1>1. CASE name \in Configured
  BY <1>1 DEF MeantBy, Resolve, Configured
<1>2. CASE name \notin Configured /\ name \in DOMAIN list
  <2>1. Resolve(name, list) = name /\ Candidates(name, list) = {name}
    BY <1>2 DEF Resolve, Candidates, Configured
  <2> QED
    BY <1>2, <2>1 DEF MeantBy, Configured
<1>3. CASE /\ name \notin Configured /\ name \notin DOMAIN list
           /\ name \in DOMAIN Family /\ OfFamily(Family[name], list) # {}
  <2>1. /\ Resolve(name, list) = Newest(Family[name], list)
        /\ Candidates(name, list) = OfFamily(Family[name], list)
    BY <1>3 DEF Resolve, Candidates, Configured
  <2> QED
    BY <1>3, <2>1, NewestIsListed DEF MeantBy, Configured
<1>4. CASE /\ name \notin Configured /\ name \notin DOMAIN list
           /\ ~(name \in DOMAIN Family /\ OfFamily(Family[name], list) # {})
  <2>1. Resolve(name, list) = Canonical(name) /\ Candidates(name, list) = {}
    BY <1>4 DEF Resolve, Candidates, Configured
  <2> QED
    BY <1>4, <2>1 DEF MeantBy, Configured
<1> QED
  BY <1>1, <1>2, <1>3, <1>4
-----------------------------------------------------------------------------
\* What is known of one request, by the lists it has seen.
Fields == DOMAIN Idle

Looking(r)  == r.at \in {"resolve", "effort", "route", "reroute"}
SentOff(r)  == r.at = "done" /\ r.endpoint \in Endpoints
OnItsWay(r) == r.at \in {"check", "fetch", "store"} \/ Looking(r) \/ SentOff(r)

Typed(r) ==
    /\ DOMAIN r = Fields
    /\ r.at \in {"idle", "check", "fetch", "store", "resolve", "effort", "route", "reroute", "done"}
    /\ r.api \in Apis
    /\ r.answer \in Lists \union {NoList}
    /\ r.at = "store" => r.answer \in Lists
    /\ r.effort \in Wanted
    /\ r.wanted \in Wanted
    /\ r.endpoint \in Endpoints \union {"none", "local", "error", "listing"}
    /\ r.seen \subseteq Lists \union {NoList}
    /\ Looking(r) \/ SentOff(r) => r.seen # {}

\* A local model is served elsewhere.
NotLocal(r) == OnItsWay(r) => r.api = "list" \/ r.name \notin Local

\* The model is from one of the lists seen.
Chosen(r) ==
    r.at \in {"effort", "route", "reroute"} \/ (SentOff(r) /\ r.api # "search") =>
        r.api # "list" /\ \E list \in r.seen : r.model = Resolve(r.name, list)

HasEffort(r) == r.effort = NoEffort \/ \E list \in r.seen : r.effort \in SupportedEfforts(r.model, list)

Adapted(r) ==
    /\ r.at \in {"route", "reroute"} => HasEffort(r)
    /\ SentOff(r) /\ ~(r.api \in {"messages", "search"} /\ r.endpoint = "responses") => HasEffort(r)

\* The first look at the endpoints did not settle the route.
FirstLook(r) ==
    r.at = "reroute" =>
        CASE r.api = "chat" -> \E list \in r.seen : "responses" \in SupportedEndpoints(r.name, list)
          [] r.api = "messages" -> \E list \in r.seen : "messages" \notin SupportedEndpoints(r.model, list)
          [] r.api = "responses" -> \E list \in r.seen : "responses" \notin SupportedEndpoints(r.model, list)
          [] OTHER -> FALSE

ListsAgree(r) ==
    \A k, l \in r.seen : SupportedEndpoints(r.model, k) = SupportedEndpoints(r.model, l)

\* The endpoint is one the model has, if the route reaches one.
Settles(r, endpoint) ==
    /\ r.api \in {"chat", "messages", "responses"}
    /\ r.api = "chat" => Canonical(r.name) = Canonical(r.model)
    /\ ListsAgree(r)
    => \A list \in r.seen :
          LET usable == SupportedEndpoints(r.model, list) \cap Reachable(r.api)
          IN  usable # {} => endpoint \in usable

Settled(r) == SentOff(r) => Settles(r, r.endpoint)

Good(r) ==
    /\ Typed(r)
    /\ NotLocal(r)
    /\ Chosen(r)
    /\ Adapted(r)
    /\ FirstLook(r)
    /\ Settled(r)

SeesWhatIsThere == \A c \in Clients : Looking(req[c]) => models \in req[c].seen

RegistryOK ==
    /\ models \in Lists \union {NoList}
    /\ fresh \in BOOLEAN
    /\ fresh => models \in Lists
    /\ upstream \in Lists

IInv ==
    /\ RegistryOK
    /\ DOMAIN req = Clients
    /\ \A c \in Clients : Good(req[c])
    /\ SeesWhatIsThere
-----------------------------------------------------------------------------
LEMMA IdleIsGood == Good(Idle)
<1>1. Typed(Idle)
  BY DEF Typed, Idle, Fields, Looking, SentOff, Endpoints, Apis, Wanted
<1> QED
  BY <1>1 DEF Good, NotLocal, Chosen, Adapted, FirstLook, Settled, Idle, Looking, SentOff, OnItsWay

LEMMA Initially == Init => IInv
<1> SUFFICES ASSUME Init PROVE IInv
  OBVIOUS
<1>1. DOMAIN req = Clients /\ \A c \in Clients : req[c] = Idle
  BY DEF Init
<1>2. RegistryOK
  BY DEF Init, RegistryOK
<1>3. ~Looking(Idle)
  BY DEF Looking, Idle
<1>4. SeesWhatIsThere
  BY <1>1, <1>3 DEF SeesWhatIsThere
<1> QED
  BY <1>1, <1>2, <1>4, IdleIsGood DEF IInv

\* A step of one request.
LEMMA OneRequest ==
    ASSUME IInv, RegistryOK', models' = models,
           NEW c \in Clients, NEW r, Good(r), Looking(r) => models \in r.seen,
           req' = [req EXCEPT ![c] = r]
    PROVE  IInv'
<1>1. DOMAIN req' = Clients /\ \A d \in Clients : req'[d] = IF d = c THEN r ELSE req[d]
  BY DEF IInv
<1>2. \A d \in Clients : Good(req'[d])
  BY <1>1 DEF IInv
<1>3. SeesWhatIsThere'
  BY <1>1 DEF IInv, SeesWhatIsThere
<1> QED
  BY <1>1, <1>2, <1>3 DEF IInv

LEMMA NothingStored ==
    ASSUME IInv, UNCHANGED <<models, fresh, upstream>>
    PROVE  RegistryOK' /\ models' = models
BY DEF IInv, RegistryOK

\* More lists seen change nothing about a request that has not been sent.
LEMMA SeesMore ==
    ASSUME NEW r, Good(r), Looking(r), NEW list \in Lists
    PROVE  LET s == [r EXCEPT !.seen = @ \union {list}]
           IN  Good(s) /\ Looking(s) /\ list \in s.seen
<1> DEFINE s == [r EXCEPT !.seen = @ \union {list}]
<1>1. DOMAIN r = Fields
  BY DEF Good, Typed
<1>2. /\ DOMAIN s = Fields /\ s.seen = r.seen \union {list}
      /\ s.at = r.at /\ s.api = r.api /\ s.name = r.name /\ s.answer = r.answer /\ s.model = r.model
      /\ s.effort = r.effort /\ s.wanted = r.wanted /\ s.endpoint = r.endpoint
  BY <1>1 DEF Fields, Idle
<1> HIDE DEF s
<1>3. Looking(s) /\ ~SentOff(s) /\ ~SentOff(r) /\ OnItsWay(r)
  BY <1>2 DEF Looking, SentOff, OnItsWay
<1>4. Typed(s)
  BY <1>2, <1>3 DEF Good, Typed
<1>5. NotLocal(s)
  BY <1>2, <1>3 DEF Good, NotLocal
<1>6. Chosen(s) /\ Settled(s)
  BY <1>2, <1>3 DEF Good, Chosen, Settled
<1>7. Adapted(s)
  BY <1>2, <1>3 DEF Good, Adapted, HasEffort
<1>8. FirstLook(s)
  BY <1>2, <1>3 DEF Good, FirstLook
<1> QED
  BY <1>2, <1>3, <1>4, <1>5, <1>6, <1>7, <1>8 DEF Good, s
-----------------------------------------------------------------------------
LEMMA ArriveKeeps ==
    ASSUME IInv, NEW c \in Clients, NEW ask \in Asks[c], Arrive(c, ask)
    PROVE  IInv'
<1> DEFINE r == IF ask.api # "list" /\ ask.name \in Local
                THEN [Idle EXCEPT !.at = "done", !.api = ask.api, !.name = ask.name,
                                  !.endpoint = IF ask.api = "ws" THEN "error" ELSE "local"]
                ELSE [Idle EXCEPT !.at = "check", !.api = ask.api, !.name = ask.name]
<1>1. req' = [req EXCEPT ![c] = r] /\ UNCHANGED <<models, fresh, upstream>>
  BY DEF Arrive
<1>2. ask.api \in Apis
  BY RoutingAssumption
<1>3. /\ DOMAIN r = Fields /\ r.api = ask.api /\ r.name = ask.name /\ r.answer = NoList
      /\ r.effort = NoEffort /\ r.wanted = NoEffort /\ r.seen = {}
      /\ \/ r.at = "done" /\ r.endpoint \in {"error", "local"}
         \/ r.at = "check" /\ r.endpoint = "none" /\ (r.api = "list" \/ r.name \notin Local)
  BY DEF Fields, Idle
<1> HIDE DEF r
<1>4. ~Looking(r) /\ ~SentOff(r)
  BY <1>3 DEF Looking, SentOff, Endpoints
<1>5. Typed(r)
  BY <1>2, <1>3, <1>4 DEF Typed, Wanted
<1>6. NotLocal(r)
  BY <1>3, <1>4 DEF NotLocal, OnItsWay
<1>7. Chosen(r) /\ Adapted(r) /\ FirstLook(r) /\ Settled(r)
  BY <1>3, <1>4 DEF Chosen, Adapted, FirstLook, Settled
<1>8. Good(r)
  BY <1>5, <1>6, <1>7 DEF Good
<1> QED
  BY <1>1, <1>4, <1>8, NothingStored, OneRequest

\* The request goes on to be routed by the list as it is.
LEMMA GoesOn ==
    ASSUME IInv, NEW c \in Clients, req[c].at \in {"check", "fetch"}, GoOn(c),
           UNCHANGED <<models, fresh, upstream>>
    PROVE  IInv'
<1> DEFINE r == [req[c] EXCEPT !.at = "resolve", !.seen = {models}]
<1>1. req' = [req EXCEPT ![c] = r]
  BY DEF GoOn
<1>2. Good(req[c]) /\ DOMAIN req[c] = Fields
  BY DEF IInv, Good, Typed
<1>3. /\ DOMAIN r = Fields /\ r.at = "resolve" /\ r.seen = {models}
      /\ r.api = req[c].api /\ r.name = req[c].name /\ r.answer = req[c].answer
      /\ r.effort = req[c].effort /\ r.wanted = req[c].wanted /\ r.endpoint = req[c].endpoint
  BY <1>2 DEF Fields, Idle
<1> HIDE DEF r
<1>4. Looking(r) /\ ~SentOff(r)
  BY <1>3 DEF Looking, SentOff
<1>5. Typed(r)
  BY <1>2, <1>3, <1>4 DEF Good, Typed, IInv, RegistryOK
<1>6. NotLocal(r)
  BY <1>2, <1>3 DEF Good, NotLocal, OnItsWay
<1>7. Chosen(r) /\ Adapted(r) /\ FirstLook(r) /\ Settled(r)
  BY <1>3, <1>4 DEF Chosen, Adapted, FirstLook, Settled
<1>8. Good(r) /\ models \in r.seen
  BY <1>3, <1>5, <1>6, <1>7 DEF Good
<1> QED
  BY <1>1, <1>8, NothingStored, OneRequest

\* The request is on its way to a list of its own.
LEMMA OnTheWayToAList ==
    ASSUME IInv, NEW c \in Clients, NEW at \in {"fetch", "store"}, NEW answer \in Lists \union {NoList},
           req[c].at \in {"check", "fetch"}, at = "store" => answer \in Lists,
           req' = [req EXCEPT ![c].at = at, ![c].answer = answer],
           UNCHANGED <<models, fresh, upstream>>
    PROVE  IInv'
<1> DEFINE r == [req[c] EXCEPT !.at = at, !.answer = answer]
<1>1. req' = [req EXCEPT ![c] = r]
  OBVIOUS
<1>2. Good(req[c]) /\ DOMAIN req[c] = Fields
  BY DEF IInv, Good, Typed
<1>3. /\ DOMAIN r = Fields /\ r.at = at /\ r.answer = answer
      /\ r.api = req[c].api /\ r.name = req[c].name /\ r.seen = req[c].seen
      /\ r.effort = req[c].effort /\ r.wanted = req[c].wanted /\ r.endpoint = req[c].endpoint
  BY <1>2 DEF Fields, Idle
<1> HIDE DEF r
<1>4. ~Looking(r) /\ ~SentOff(r)
  BY <1>3 DEF Looking, SentOff
<1>5. Typed(r)
  BY <1>2, <1>3, <1>4 DEF Good, Typed
<1>6. NotLocal(r)
  BY <1>2, <1>3 DEF Good, NotLocal, OnItsWay
<1>7. Chosen(r) /\ Adapted(r) /\ FirstLook(r) /\ Settled(r)
  BY <1>3, <1>4 DEF Chosen, Adapted, FirstLook, Settled
<1>8. Good(r)
  BY <1>5, <1>6, <1>7 DEF Good
<1> QED
  BY <1>1, <1>4, <1>8, NothingStored, OneRequest

LEMMA RefreshKeeps ==
    ASSUME IInv, NEW c \in Clients, Check(c) \/ Fetch(c) \/ FetchFailed(c)
    PROVE  IInv'
<1>1. CASE Check(c) /\ fresh
  BY <1>1, GoesOn DEF Check
<1>2. CASE Check(c) /\ ~fresh
  <2>1. Good(req[c]) /\ DOMAIN req[c] = Fields /\ req[c].answer \in Lists \union {NoList}
    BY DEF IInv, Good, Typed
  <2>2. [req EXCEPT ![c].at = "fetch"] = [req EXCEPT ![c].at = "fetch", ![c].answer = req[c].answer]
    BY <2>1 DEF IInv, Fields, Idle
  <2> QED
    BY <1>2, <2>1, <2>2, OnTheWayToAList DEF Check, At
<1>3. CASE Fetch(c)
  BY <1>3, OnTheWayToAList DEF Fetch, IInv, RegistryOK
<1>4. CASE FetchFailed(c)
  BY <1>4, GoesOn DEF FetchFailed
<1> QED
  BY <1>1, <1>2, <1>3, <1>4
-----------------------------------------------------------------------------
\* The list of one request is the one all the others look at from now on.
LEMMA StoreKeeps ==
    ASSUME IInv, NEW c \in Clients, SetCopilotModels(c)
    PROVE  IInv'
<1> DEFINE list == req[c].answer
           r == [req[c] EXCEPT !.at = "resolve", !.answer = NoList, !.seen = {list}]
<1>1. Good(req[c]) /\ DOMAIN req[c] = Fields /\ req[c].at = "store" /\ list \in Lists
  BY DEF IInv, Good, Typed, SetCopilotModels
<1>2. RegistryOK' /\ models' = list
  BY <1>1 DEF SetCopilotModels, RegistryOK, IInv
<1>3. /\ DOMAIN r = Fields /\ r.at = "resolve" /\ r.answer = NoList /\ r.seen = {list}
      /\ r.api = req[c].api /\ r.name = req[c].name
      /\ r.effort = req[c].effort /\ r.wanted = req[c].wanted /\ r.endpoint = req[c].endpoint
  BY <1>1 DEF Fields, Idle
<1>4. /\ DOMAIN req' = Clients
      /\ \A d \in Clients : req'[d] = IF d = c THEN r
                                      ELSE IF Routing(d) THEN [req[d] EXCEPT !.seen = @ \union {list}]
                                      ELSE req[d]
  BY DEF SetCopilotModels
<1> HIDE DEF r
<1>5. Looking(r) /\ ~SentOff(r)
  BY <1>3 DEF Looking, SentOff
<1>6. Typed(r)
  BY <1>1, <1>3, <1>5 DEF Good, Typed
<1>7. NotLocal(r)
  BY <1>1, <1>3 DEF Good, NotLocal, OnItsWay
<1>8. Chosen(r) /\ Adapted(r) /\ FirstLook(r) /\ Settled(r)
  BY <1>3, <1>5 DEF Chosen, Adapted, FirstLook, Settled
<1>9. Good(r) /\ list \in r.seen
  BY <1>3, <1>6, <1>7, <1>8 DEF Good
<1>10. ASSUME NEW d \in Clients
       PROVE  Good(req'[d]) /\ (Looking(req'[d]) => list \in req'[d].seen)
  <2>1. CASE d = c
    BY <2>1, <1>4, <1>9
  <2>2. CASE d # c /\ Routing(d)
    <3>1. Good(req[d]) /\ Looking(req[d])
      BY <2>2 DEF IInv, Routing, Looking
    <3>2. LET s == [req[d] EXCEPT !.seen = @ \union {list}]
          IN  Good(s) /\ Looking(s) /\ list \in s.seen
      BY <3>1, <1>1, SeesMore
    <3>3. req'[d] = [req[d] EXCEPT !.seen = @ \union {list}]
      BY <2>2, <1>4
    <3> QED
      BY <3>2, <3>3
  <2>3. CASE d # c /\ ~Routing(d)
    <3>1. Good(req[d]) /\ ~Looking(req[d])
      BY <2>3 DEF IInv, Routing, Looking
    <3> QED
      BY <2>3, <3>1, <1>4
  <2> QED
    BY <2>1, <2>2, <2>3
<1> QED
  BY <1>2, <1>4, <1>10 DEF IInv, SeesWhatIsThere

LEMMA ResolveKeeps ==
    ASSUME IInv, NEW c \in Clients, ResolveModel(c)
    PROVE  IInv'
<1>1. Good(req[c]) /\ DOMAIN req[c] = Fields /\ req[c].at = "resolve" /\ Looking(req[c])
      /\ models \in req[c].seen
  BY DEF IInv, Good, Typed, ResolveModel, SeesWhatIsThere, Looking
<1>2. CASE req[c].api = "list"
  <2> DEFINE r == [req[c] EXCEPT !.at = "done", !.endpoint = "listing"]
  <2>1. req' = [req EXCEPT ![c] = r] /\ UNCHANGED <<models, fresh, upstream>>
    BY <1>2 DEF ResolveModel, IInv
  <2>2. /\ DOMAIN r = Fields /\ r.at = "done" /\ r.endpoint = "listing"
        /\ r.api = req[c].api /\ r.answer = req[c].answer /\ r.seen = req[c].seen
        /\ r.effort = req[c].effort /\ r.wanted = req[c].wanted
    BY <1>1 DEF Fields, Idle
  <2> HIDE DEF r
  <2>3. ~Looking(r) /\ ~SentOff(r)
    BY <2>2 DEF Looking, SentOff, Endpoints
  <2>4. Typed(r)
    BY <1>1, <2>2, <2>3 DEF Good, Typed
  <2>5. NotLocal(r) /\ Chosen(r) /\ Adapted(r) /\ FirstLook(r) /\ Settled(r)
    BY <1>2, <2>2, <2>3 DEF NotLocal, Chosen, Adapted, FirstLook, Settled, OnItsWay
  <2>6. Good(r)
    BY <2>4, <2>5 DEF Good
  <2> QED
    BY <2>1, <2>3, <2>6, NothingStored, OneRequest
<1>3. CASE req[c].api # "list"
  <2> DEFINE r == [req[c] EXCEPT !.at = "effort", !.model = Resolve(req[c].name, models)]
  <2>1. req' = [req EXCEPT ![c] = r] /\ UNCHANGED <<models, fresh, upstream>>
    BY <1>3 DEF ResolveModel, IInv
  <2>2. /\ DOMAIN r = Fields /\ r.at = "effort" /\ r.model = Resolve(req[c].name, models)
        /\ r.endpoint = req[c].endpoint /\ r.name = req[c].name
        /\ r.api = req[c].api /\ r.answer = req[c].answer /\ r.seen = req[c].seen
        /\ r.effort = req[c].effort /\ r.wanted = req[c].wanted
    BY <1>1 DEF Fields, Idle
  <2> HIDE DEF r
  <2>3. Looking(r) /\ ~SentOff(r) /\ models \in r.seen
    BY <1>1, <2>2 DEF Looking, SentOff
  <2>4. Typed(r)
    BY <1>1, <2>2, <2>3 DEF Good, Typed
  <2>5. NotLocal(r)
    BY <1>1, <2>2 DEF Good, NotLocal, OnItsWay
  <2>6. Chosen(r) /\ Adapted(r) /\ FirstLook(r) /\ Settled(r)
    BY <1>3, <2>2, <2>3 DEF Chosen, Adapted, FirstLook, Settled
  <2>7. Good(r)
    BY <2>4, <2>5, <2>6 DEF Good
  <2> QED
    BY <2>1, <2>3, <2>7, NothingStored, OneRequest
<1> QED
  BY <1>2, <1>3

LEMMA AdaptKeeps ==
    ASSUME IInv, NEW c \in Clients, NEW wanted \in Wanted, AdaptEffort(c, wanted)
    PROVE  IInv'
<1> DEFINE effort == Clamp(SupportedEfforts(req[c].model, models), wanted)
           r == [req[c] EXCEPT !.at = "route", !.wanted = wanted, !.effort = effort]
<1>1. Good(req[c]) /\ DOMAIN req[c] = Fields /\ req[c].at = "effort" /\ Looking(req[c])
      /\ models \in req[c].seen /\ models \in Lists \union {NoList}
  BY DEF IInv, Good, Typed, AdaptEffort, SeesWhatIsThere, Looking, RegistryOK
<1>2. req' = [req EXCEPT ![c] = r] /\ UNCHANGED <<models, fresh, upstream>>
  BY DEF AdaptEffort, IInv
<1>3. SupportedEfforts(req[c].model, models) \in SUBSET Efforts
  BY <1>1, KnownTypes
<1>4. effort = NoEffort \/ effort \in SupportedEfforts(req[c].model, models)
  BY <1>3, ClampSupported
<1>5. effort \in Wanted
  BY <1>3, <1>4 DEF Wanted
<1>6. /\ DOMAIN r = Fields /\ r.at = "route" /\ r.effort = effort /\ r.wanted = wanted
      /\ r.endpoint = req[c].endpoint /\ r.name = req[c].name /\ r.model = req[c].model
      /\ r.api = req[c].api /\ r.answer = req[c].answer /\ r.seen = req[c].seen
  BY <1>1 DEF Fields, Idle
<1> HIDE DEF r, effort
<1>7. Looking(r) /\ ~SentOff(r) /\ models \in r.seen
  BY <1>1, <1>6 DEF Looking, SentOff
<1>8. Typed(r)
  BY <1>1, <1>5, <1>6, <1>7 DEF Good, Typed
<1>9. NotLocal(r)
  BY <1>1, <1>6 DEF Good, NotLocal, OnItsWay
<1>10. Chosen(r)
  BY <1>1, <1>6, <1>7 DEF Good, Chosen
<1>11. Adapted(r)
  BY <1>4, <1>6, <1>7 DEF Adapted, HasEffort
<1>12. FirstLook(r) /\ Settled(r)
  BY <1>6, <1>7 DEF FirstLook, Settled
<1>13. Good(r)
  BY <1>8, <1>9, <1>10, <1>11, <1>12 DEF Good
<1> QED
  BY <1>2, <1>7, <1>13, NothingStored, OneRequest
-----------------------------------------------------------------------------
\* What each handler has to make sure of before it sends.
LEMMA SendKeeps ==
    ASSUME IInv, NEW c \in Clients, NEW endpoint \in Endpoints, NEW effort \in Wanted,
           req[c].at \in {"route", "reroute"}, Send(c, endpoint, effort),
           \/ effort \in {NoEffort, req[c].effort}
           \/ req[c].api = "messages" /\ endpoint = "responses",
           Settles(req[c], endpoint)
    PROVE  IInv'
<1> DEFINE r == [req[c] EXCEPT !.at = "done", !.endpoint = endpoint, !.effort = effort,
                               !.wanted = NoEffort]
<1>1. Good(req[c]) /\ DOMAIN req[c] = Fields /\ Looking(req[c])
  BY DEF IInv, Good, Typed, Looking
<1>2. req' = [req EXCEPT ![c] = r] /\ UNCHANGED <<models, fresh, upstream>>
  BY DEF Send, IInv
<1>3. /\ DOMAIN r = Fields /\ r.at = "done" /\ r.effort = effort /\ r.wanted = NoEffort
      /\ r.endpoint = endpoint /\ r.name = req[c].name /\ r.model = req[c].model
      /\ r.api = req[c].api /\ r.answer = req[c].answer /\ r.seen = req[c].seen
  BY <1>1 DEF Fields, Idle
<1> HIDE DEF r
<1>4. ~Looking(r) /\ SentOff(r)
  BY <1>3 DEF Looking, SentOff
<1>5. Typed(r)
  BY <1>1, <1>3, <1>4 DEF Good, Typed, Wanted
<1>6. NotLocal(r)
  BY <1>1, <1>3, <1>4 DEF Good, NotLocal, OnItsWay
<1>7. Chosen(r)
  BY <1>1, <1>3, <1>4 DEF Good, Chosen
<1>8. HasEffort(req[c])
  BY <1>1 DEF Good, Adapted
<1>9. Adapted(r)
  BY <1>3, <1>4, <1>8 DEF Adapted, HasEffort
<1>10. FirstLook(r)
  BY <1>3 DEF FirstLook
<1>11. Settled(r)
  BY <1>3 DEF Settled, Settles, ListsAgree
<1>12. Good(r)
  BY <1>5, <1>6, <1>7, <1>9, <1>10, <1>11 DEF Good
<1> QED
  BY <1>2, <1>4, <1>12, NothingStored, OneRequest

\* What is learned from the first look is kept for the second.
LEMMA LookAgainKeeps ==
    ASSUME IInv, NEW c \in Clients, req[c].at = "route", LookAgain(c),
           FirstLook([req[c] EXCEPT !.at = "reroute"])
    PROVE  IInv'
<1> DEFINE r == [req[c] EXCEPT !.at = "reroute"]
<1>1. Good(req[c]) /\ DOMAIN req[c] = Fields /\ Looking(req[c]) /\ models \in req[c].seen
  BY DEF IInv, Good, Typed, Looking, SeesWhatIsThere
<1>2. req' = [req EXCEPT ![c] = r] /\ UNCHANGED <<models, fresh, upstream>>
  BY DEF LookAgain, At, IInv
<1>3. /\ DOMAIN r = Fields /\ r.at = "reroute" /\ r.effort = req[c].effort /\ r.wanted = req[c].wanted
      /\ r.endpoint = req[c].endpoint /\ r.name = req[c].name /\ r.model = req[c].model
      /\ r.api = req[c].api /\ r.answer = req[c].answer /\ r.seen = req[c].seen
  BY <1>1 DEF Fields, Idle
<1>4. FirstLook(r)
  OBVIOUS
<1> HIDE DEF r
<1>5. Looking(r) /\ ~SentOff(r) /\ models \in r.seen
  BY <1>1, <1>3 DEF Looking, SentOff
<1>6. Typed(r)
  BY <1>1, <1>3, <1>5 DEF Good, Typed
<1>7. NotLocal(r)
  BY <1>1, <1>3 DEF Good, NotLocal, OnItsWay
<1>8. Chosen(r)
  BY <1>1, <1>3, <1>5 DEF Good, Chosen
<1>9. HasEffort(req[c])
  BY <1>1 DEF Good, Adapted
<1>10. Adapted(r) /\ Settled(r)
  BY <1>3, <1>5, <1>9 DEF Adapted, HasEffort, Settled
<1>11. Good(r)
  BY <1>4, <1>6, <1>7, <1>8, <1>10 DEF Good
<1> QED
  BY <1>2, <1>5, <1>11, NothingStored, OneRequest

\* What the handlers know when they look.
LEMMA WhatIsKnown ==
    ASSUME IInv, NEW c \in Clients, req[c].at \in {"route", "reroute"}
    PROVE  /\ Good(req[c]) /\ DOMAIN req[c] = Fields /\ models \in req[c].seen
           /\ req[c].effort \in Wanted /\ req[c].wanted \in Wanted /\ NoEffort \in Wanted
           /\ req[c].name \notin Local
           /\ FirstLook(req[c])
           /\ ListsAgree(req[c]) =>
                 \A list \in req[c].seen :
                    SupportedEndpoints(req[c].model, list) = SupportedEndpoints(req[c].model, models)
<1>1. Good(req[c]) /\ DOMAIN req[c] = Fields /\ Looking(req[c]) /\ models \in req[c].seen
  BY DEF IInv, Good, Typed, Looking, SeesWhatIsThere
<1>2. req[c].name \notin Local
  BY <1>1 DEF Good, NotLocal, OnItsWay, Chosen
<1>3. ListsAgree(req[c]) =>
         \A list \in req[c].seen :
            SupportedEndpoints(req[c].model, list) = SupportedEndpoints(req[c].model, models)
  BY <1>1 DEF ListsAgree
<1> QED
  BY <1>1, <1>2, <1>3 DEF Good, Typed, Wanted

LEMMA RouteMessagesKeeps ==
    ASSUME IInv, NEW c \in Clients, RouteMessages(c)
    PROVE  IInv'
<1> DEFINE has == SupportedEndpoints(req[c].model, models)
<1>1. req[c].at \in {"route", "reroute"} /\ req[c].api = "messages"
  BY DEF RouteMessages
<1>2. /\ Reachable(req[c].api) = {"messages", "responses", "chat"}
      /\ {"messages", "responses", "chat"} \subseteq Endpoints
  BY <1>1 DEF Reachable, Endpoints
<1>3. CASE req[c].at = "route" /\ ("messages" \in has \/ (has = {} /\ req[c].model \in Claude))
  <2>1. PICK effort \in {req[c].effort, NoEffort} : Send(c, "messages", effort)
    BY <1>3 DEF RouteMessages, Offers
  <2>2. Settles(req[c], "messages")
    BY <1>1, <1>2, <1>3, WhatIsKnown DEF Settles
  <2>3. effort \in Wanted
    BY <1>1, WhatIsKnown
  <2> QED
    BY <1>1, <1>2, <2>1, <2>2, <2>3, SendKeeps
<1>4. CASE req[c].at = "route" /\ ~("messages" \in has \/ (has = {} /\ req[c].model \in Claude))
  <2>1. LookAgain(c)
    BY <1>4 DEF RouteMessages, Offers
  <2>2. FirstLook([req[c] EXCEPT !.at = "reroute"])
    BY <1>1, <1>4, WhatIsKnown DEF FirstLook, Fields, Idle
  <2> QED
    BY <1>4, <2>1, <2>2, LookAgainKeeps
<1>5. CASE req[c].at = "reroute"
  <2>1. ListsAgree(req[c]) => "messages" \notin has
    BY <1>1, <1>5, WhatIsKnown DEF FirstLook
  <2>2. CASE "responses" \in has
    <3>1. Send(c, "responses", req[c].wanted)
      BY <1>5, <2>2 DEF RouteMessages, Offers
    <3>2. Settles(req[c], "responses")
      BY <1>1, <1>2, <2>2, WhatIsKnown DEF Settles
    <3> QED
      BY <1>1, <1>2, <3>1, <3>2, WhatIsKnown, SendKeeps
  <2>3. CASE "responses" \notin has
    <3>1. Send(c, "chat", NoEffort)
      BY <1>5, <2>3 DEF RouteMessages, Offers
    <3>2. Settles(req[c], "chat")
      BY <1>1, <1>2, <2>1, <2>3, WhatIsKnown DEF Settles
    <3> QED
      BY <1>1, <1>2, <3>1, <3>2, WhatIsKnown, SendKeeps
  <2> QED
    BY <2>2, <2>3
<1> QED
  BY <1>1, <1>3, <1>4, <1>5

LEMMA RouteResponsesKeeps ==
    ASSUME IInv, NEW c \in Clients, RouteResponses(c)
    PROVE  IInv'
<1> DEFINE has == SupportedEndpoints(req[c].model, models)
<1>1. req[c].at \in {"route", "reroute"} /\ req[c].api = "responses"
  BY DEF RouteResponses
<1>2. Reachable(req[c].api) = {"responses", "chat"} /\ {"responses", "chat"} \subseteq Endpoints
  BY <1>1 DEF Reachable, Endpoints
<1>3. CASE req[c].at = "route" /\ "responses" \in has
  <2>1. Send(c, "responses", req[c].effort)
    BY <1>3 DEF RouteResponses, Offers
  <2>2. Settles(req[c], "responses")
    BY <1>1, <1>2, <1>3, WhatIsKnown DEF Settles
  <2> QED
    BY <1>1, <1>2, <2>1, <2>2, WhatIsKnown, SendKeeps
<1>4. CASE req[c].at = "route" /\ "responses" \notin has
  <2>1. LookAgain(c)
    BY <1>4 DEF RouteResponses, Offers
  <2>2. FirstLook([req[c] EXCEPT !.at = "reroute"])
    BY <1>1, <1>4, WhatIsKnown DEF FirstLook, Fields, Idle
  <2> QED
    BY <1>4, <2>1, <2>2, LookAgainKeeps
<1>5. CASE req[c].at = "reroute" /\ "chat" \in has
  <2>1. Send(c, "chat", NoEffort)
    BY <1>5 DEF RouteResponses, Offers
  <2>2. Settles(req[c], "chat")
    BY <1>1, <1>2, <1>5, WhatIsKnown DEF Settles
  <2> QED
    BY <1>1, <1>2, <2>1, <2>2, WhatIsKnown, SendKeeps
<1>6. CASE req[c].at = "reroute" /\ "chat" \notin has
  <2>1. ListsAgree(req[c]) => "responses" \notin has
    BY <1>1, <1>6, WhatIsKnown DEF FirstLook
  <2>2. Send(c, "responses", req[c].effort)
    BY <1>6 DEF RouteResponses, Offers
  <2>3. Settles(req[c], "responses")
    BY <1>1, <1>2, <1>6, <2>1, WhatIsKnown DEF Settles
  <2> QED
    BY <1>1, <1>2, <2>2, <2>3, WhatIsKnown, SendKeeps
<1> QED
  BY <1>1, <1>3, <1>4, <1>5, <1>6

\* The name and the model it stands for have the same endpoints, but for a
\* model that is also the name of a local one, which has all of them.
LEMMA NameOfModel ==
    ASSUME NEW name, NEW model, NEW list, name \notin Local, Canonical(name) = Canonical(model)
    PROVE  \/ SupportedEndpoints(name, list) = SupportedEndpoints(model, list)
           \/ SupportedEndpoints(model, list) = {"chat", "responses", "messages"}
BY DEF SupportedEndpoints

LEMMA RouteChatKeeps ==
    ASSUME IInv, NEW c \in Clients, RouteChat(c)
    PROVE  IInv'
<1> DEFINE has == SupportedEndpoints(req[c].model, models)
           named == SupportedEndpoints(req[c].name, models)
           theSame == Canonical(req[c].name) = Canonical(req[c].model)
           anything == {"chat", "responses", "messages"}
<1>1. req[c].at \in {"route", "reroute"} /\ req[c].api = "chat"
  BY DEF RouteChat
<1>2. Reachable(req[c].api) = {"chat", "responses"} /\ {"chat", "responses"} \subseteq Endpoints
  BY <1>1 DEF Reachable, Endpoints
<1>3. req[c].name \notin Local
  BY <1>1, WhatIsKnown
<1>4. theSame => named = has \/ has = anything
  BY <1>3, NameOfModel
<1>5. CASE req[c].at = "route" /\ "responses" \in named
  <2>1. LookAgain(c)
    BY <1>5, <1>1 DEF RouteChat, Offers
  <2>2. FirstLook([req[c] EXCEPT !.at = "reroute"])
    BY <1>1, <1>5, WhatIsKnown DEF FirstLook, Fields, Idle
  <2> QED
    BY <1>5, <2>1, <2>2, LookAgainKeeps
<1>6. CASE req[c].at = "route" /\ "responses" \notin named
  <2>1. Send(c, "chat", req[c].effort)
    BY <1>6, <1>1 DEF RouteChat, Offers
  <2>2. Settles(req[c], "chat")
    BY <1>1, <1>2, <1>4, <1>6, WhatIsKnown DEF Settles
  <2> QED
    BY <1>1, <1>2, <2>1, <2>2, WhatIsKnown, SendKeeps
<1>7. CASE req[c].at = "reroute" /\ "chat" \in named
  <2>1. Send(c, "chat", req[c].effort)
    BY <1>7, <1>1 DEF RouteChat, Offers
  <2>2. Settles(req[c], "chat")
    BY <1>1, <1>2, <1>4, <1>7, WhatIsKnown DEF Settles
  <2> QED
    BY <1>1, <1>2, <2>1, <2>2, WhatIsKnown, SendKeeps
<1>8. CASE req[c].at = "reroute" /\ "chat" \notin named
  <2>1. Send(c, "responses", req[c].effort)
    BY <1>8, <1>1 DEF RouteChat, Offers
  <2>2. PICK list \in req[c].seen : "responses" \in SupportedEndpoints(req[c].name, list)
    BY <1>1, <1>8, WhatIsKnown DEF FirstLook
  <2>3. theSame => "responses" \in SupportedEndpoints(req[c].model, list)
    BY <1>3, <2>2, NameOfModel
  <2>4. theSame /\ ListsAgree(req[c]) => "responses" \in has
    BY <1>1, <2>3, WhatIsKnown
  <2>5. Settles(req[c], "responses")
    BY <1>1, <1>2, <2>4, WhatIsKnown DEF Settles
  <2> QED
    BY <1>1, <1>2, <2>1, <2>5, WhatIsKnown, SendKeeps
<1> QED
  BY <1>1, <1>5, <1>6, <1>7, <1>8

LEMMA RouteWsKeeps ==
    ASSUME IInv, NEW c \in Clients, RouteWs(c)
    PROVE  IInv'
<1>1. req[c].at = "route" /\ req[c].api = "ws" /\ Send(c, "ws", req[c].effort)
  BY DEF RouteWs
<1>2. Settles(req[c], "ws") /\ "ws" \in Endpoints
  BY <1>1 DEF Settles, Endpoints
<1> QED
  BY <1>1, <1>2, WhatIsKnown, SendKeeps

LEMMA RouteSearchKeeps ==
    ASSUME IInv, NEW c \in Clients, RouteSearch(c)
    PROVE  IInv'
<1> DEFINE r == [req[c] EXCEPT !.at = "done", !.model = SearchModel, !.endpoint = "responses",
                               !.effort = req[c].wanted, !.wanted = NoEffort]
<1>1. req[c].at = "route" /\ req[c].api = "search" /\ UNCHANGED <<models, fresh, upstream>>
  BY DEF RouteSearch
<1>2. Good(req[c]) /\ DOMAIN req[c] = Fields /\ req[c].wanted \in Wanted /\ req[c].seen # {}
      /\ req[c].name \notin Local
  BY <1>1, WhatIsKnown
<1>3. req' = [req EXCEPT ![c] = r]
  BY DEF RouteSearch
<1>4. /\ DOMAIN r = Fields /\ r.at = "done" /\ r.effort = req[c].wanted /\ r.wanted = NoEffort
      /\ r.endpoint = "responses" /\ r.name = req[c].name
      /\ r.api = "search" /\ r.answer = req[c].answer /\ r.seen = req[c].seen
  BY <1>1, <1>2 DEF Fields, Idle
<1> HIDE DEF r
<1>5. ~Looking(r)
  BY <1>4 DEF Looking
<1>6. Typed(r)
  BY <1>2, <1>4, <1>5 DEF Good, Typed, Wanted, Endpoints, Apis
<1>7. NotLocal(r) /\ Chosen(r) /\ FirstLook(r) /\ Settled(r)
  BY <1>2, <1>4 DEF NotLocal, Chosen, FirstLook, Settled, Settles
<1>8. Adapted(r)
  BY <1>4 DEF Adapted
<1>9. Good(r)
  BY <1>6, <1>7, <1>8 DEF Good
<1> QED
  BY <1>1, <1>3, <1>5, <1>9, NothingStored, OneRequest
-----------------------------------------------------------------------------
LEMMA IInvPreserved == IInv /\ [Next]_vars => IInv'
<1> SUFFICES ASSUME IInv, [Next]_vars PROVE IInv'
  OBVIOUS
<1>1. ASSUME NEW c \in Clients, Route(c) PROVE IInv'
  BY <1>1, RouteChatKeeps, RouteMessagesKeeps, RouteSearchKeeps, RouteResponsesKeeps, RouteWsKeeps
     DEF Route
<1>2. ASSUME NEW c \in Clients, Step(c) PROVE IInv'
  BY <1>1, <1>2, RefreshKeeps, StoreKeeps, ResolveKeeps, AdaptKeeps DEF Step
<1>3. ASSUME NEW c \in Clients, Answered(c) PROVE IInv'
  <2>1. ~Looking(Idle)
    BY DEF Looking, Idle
  <2> QED
    BY <1>3, <2>1, IdleIsGood, NothingStored, OneRequest DEF Answered
<1>4. ASSUME NEW c \in Clients, NEW ask \in Asks[c], Arrive(c, ask) PROVE IInv'
  BY <1>4, ArriveKeeps
<1>5. CASE (\E list \in Lists : Publish(list)) \/ Expire \/ UNCHANGED vars
  <2>1. UNCHANGED <<models, req>>
    BY <1>5 DEF Publish, Expire, vars
  <2>2. upstream' \in Lists
    BY <1>5 DEF Publish, Expire, vars, IInv, RegistryOK
  <2>3. ASSUME fresh' = fresh PROVE RegistryOK'
    BY <2>1, <2>2, <2>3 DEF IInv, RegistryOK
  <2>4. ASSUME fresh' = FALSE PROVE RegistryOK'
    BY <2>1, <2>2, <2>4 DEF IInv, RegistryOK
  <2>5. fresh' = fresh \/ fresh' = FALSE
    BY <1>5 DEF Publish, Expire, vars
  <2>6. RegistryOK'
    BY <2>3, <2>4, <2>5
  <2> QED
    BY <2>1, <2>6 DEF IInv, SeesWhatIsThere
<1> QED
  BY <1>2, <1>3, <1>4, <1>5 DEF Next

\* The registry holds a list there was and every request keeps its types
\* (CopilotModels of models.rs).
THEOREM TypeCorrect == Spec => []TypeOK
<1>1. IInv => TypeOK
  BY DEF IInv, RegistryOK, Good, Typed, TypeOK, Routing, Looking, Sent, SentOff
<1> QED
  BY Initially, IInvPreserved, <1>1, PTL DEF Spec

\* A request gets the model its name means by a list that was in force after
\* the refresh, however refreshes of other requests race with it
\* (get_copilot_openai_model, refresh_models_if_stale).
THEOREM ModelIsMeantHolds == Spec => []ModelIsMeant
<1>1. IInv => ModelIsMeant
  <2> SUFFICES ASSUME IInv, NEW c \in Clients, Sent(c), req[c].api # "search"
               PROVE  \E list \in req[c].seen : MeantBy(req[c].name, req[c].model, list)
    BY DEF ModelIsMeant
  <2>1. \E list \in req[c].seen : req[c].model = Resolve(req[c].name, list)
    BY DEF IInv, Good, Chosen, Sent, SentOff
  <2> QED
    BY <2>1, ResolveIsMeant
<1> QED
  BY Initially, IInvPreserved, <1>1, PTL DEF Spec

\* No effort goes upstream that the model had in none of these lists
\* (clamp_effort and its three callers).
THEOREM EffortSupportedHolds == Spec => []EffortSupported
<1>1. IInv => EffortSupported
  BY DEF IInv, Good, Adapted, HasEffort, EffortSupported, Sent, SentOff
<1> QED
  BY Initially, IInvPreserved, <1>1, PTL DEF Spec

\* A handler that asks twice never passes by an endpoint the model has, if the
\* lists between its questions agree (http/chat.rs, messages.rs, responses.rs).
THEOREM RoutedAsListedHolds == Spec => []RoutedAsListed
<1>1. IInv => RoutedAsListed
  BY DEF IInv, Good, Settled, Settles, ListsAgree, RoutedAsListed, Sent, SentOff
<1> QED
  BY Initially, IInvPreserved, <1>1, PTL DEF Spec

\* What is advertised of a model is what it is routed by (rich_model_entry,
\* supported_endpoints, supported_efforts).
THEOREM AdvertisedIsRoutedHolds == Spec => []AdvertisedIsRouted
<1>1. AdvertisedIsRouted
  <2> SUFFICES ASSUME NEW id \in Listing(models) \ DOMAIN Aliases
               PROVE  /\ Advertised(id, models, "endpoints") = SupportedEndpoints(id, models)
                      /\ Advertised(id, models, "efforts") = SupportedEfforts(id, models)
    BY DEF AdvertisedIsRouted
  <2>1. Canonical(id) = id /\ id \notin Local
    BY DEF Canonical, Listing
  <2> QED
    BY <2>1 DEF Advertised, SupportedEndpoints, SupportedEfforts, Known
<1> QED
  BY <1>1, PTL
=============================================================================
