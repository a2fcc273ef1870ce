----------------------------- MODULE ModelRouting -----------------------------
(***************************************************************************)
(* The list of Copilot models (models.rs), how requests refresh it         *)
(* (refresh_models_if_stale of copilot/client.rs), and how the handlers of *)
(* http/chat.rs, http/messages.rs and http/responses.rs choose from it the *)
(* model, the reasoning effort and the endpoint of a request.              *)
(*                                                                         *)
(* A handler reads the registry several times, and other requests may put  *)
(* another list there between two reads: refreshes are not single-flight,  *)
(* and their answers may be stored in either order.                        *)
(*                                                                         *)
(* Names are taken without their "github-copilot/" prefix.  An effort is   *)
(* its place in the order low, medium, high, xhigh, max; one the proxy     *)
(* does not know ("minimal") is clamped as if it were above them all.      *)
(***************************************************************************)
EXTENDS Naturals

CONSTANTS
    Clients,
    Asks,          \* what each client may ask: [Clients -> SUBSET [api, name]]
    Lists,         \* the lists Copilot may publish: functions from the listed ids
    Static,        \* the models that are known without a list
    Aliases,       \* COPILOT_MODEL_ALIASES
    Overrides,     \* model_overrides.copilot
    Local,         \* local_models
    Claude,        \* the names that begin with "claude-"
    Family,        \* the names that stand for a Claude family, with the family
    Version,       \* the numbered Claude models: [id -> [family, number]]
    MaxVersion,    \* no version has a higher number (a u32 each in the code)
    DefaultModel,  \* claude-sonnet-4.6
    SearchModel    \* web_search_model

Endpoints == {"chat", "messages", "responses", "ws"}
Efforts   == 0..4
Unknown   == 5
NoEffort  == 9
Wanted    == Efforts \union {Unknown, NoEffort}
Model     == [endpoints : SUBSET Endpoints, efforts : SUBSET Efforts]
Apis      == {"chat", "messages", "search", "responses", "ws", "list"}
NoList    == [id \in {} |-> [endpoints |-> {}, efforts |-> {}]]

IsModels(f) == f \in [DOMAIN f -> Model]

ASSUME RoutingAssumption ==
    /\ \A l \in Lists : IsModels(l)
    /\ IsModels(Static)
    /\ \A n \in DOMAIN Aliases : Aliases[n] \notin DOMAIN Aliases
    /\ \A id \in DOMAIN Version : Version[id].number \in 0..MaxVersion
    /\ MaxVersion \in Nat
    /\ \A c \in Clients : \A ask \in Asks[c] : ask.api \in Apis

VARIABLES
    models,    \* the list in the registry
    fresh,     \* it was fetched less than copilot_models_ttl ago
    upstream,  \* the list Copilot would answer with
    req        \* what each client's request has come to

vars == <<models, fresh, upstream, req>>

Idle ==
    [at |-> "idle", api |-> "list", name |-> "", answer |-> NoList, model |-> "",
     effort |-> NoEffort, wanted |-> NoEffort, endpoint |-> "none", seen |-> {}]

Init ==
    /\ models = NoList
    /\ fresh = FALSE
    /\ upstream \in Lists
    /\ req = [c \in Clients |-> Idle]
-----------------------------------------------------------------------------
\* canonical_model_id
Canonical(name) == IF name \in DOMAIN Aliases THEN Aliases[name] ELSE name

\* What the list says of an id, or what is known without a list.
Known(id, list, field) ==
    IF id \in DOMAIN list /\ list[id][field] # {} THEN list[id][field]
    ELSE IF id \in DOMAIN Static THEN Static[id][field] ELSE {}

\* supported_endpoints
SupportedEndpoints(name, list) ==
    IF name \in Local THEN {"chat", "responses", "messages"}
    ELSE Known(Canonical(name), list, "endpoints")

\* supported_efforts; none known is the empty set.
SupportedEfforts(name, list) == Known(Canonical(name), list, "efforts")

\* latest_claude_model: the listed models of a family.
OfFamily(family, list) == {id \in DOMAIN list \cap DOMAIN Version : Version[id].family = family}

Newest(family, list) ==
    CHOOSE id \in OfFamily(family, list) :
        \A other \in OfFamily(family, list) : Version[other].number <= Version[id].number

\* get_copilot_openai_model
Resolve(name, list) ==
    IF name = "default" THEN DefaultModel
    ELSE IF name \in DOMAIN Overrides THEN Overrides[name]
    ELSE IF name \in DOMAIN list THEN name
    ELSE IF name \in DOMAIN Family /\ OfFamily(Family[name], list) # {}
         THEN Newest(Family[name], list)
    ELSE Canonical(name)

\* rich_model_entry.  Mutant: an empty list of endpoints is advertised as it is.
AdvertisedAsListed(id, list, field) ==
    IF id \in DOMAIN list THEN list[id][field]
    ELSE IF Canonical(id) \in DOMAIN Static THEN Static[Canonical(id)][field] ELSE {}

Advertised(id, list, field) ==
    IF id \in DOMAIN list /\ list[id][field] # {} THEN list[id][field]
    ELSE IF Canonical(id) \in DOMAIN Static THEN Static[Canonical(id)][field] ELSE {}

\* The Copilot models of /v1/models.
Listing(list) == (DOMAIN Static \union DOMAIN list) \ Local

\* Mutant: an effort below all the model has is kept.
ClampDownOnly(efforts, wanted) ==
    LET within == {e \in efforts : e <= wanted}
    IN  IF efforts = {} \/ wanted = NoEffort THEN NoEffort
        ELSE IF within # {} THEN CHOOSE e \in within : \A f \in within : f <= e
        ELSE wanted

\* SupportedEfforts::clamp and clamp_effort
Clamp(efforts, wanted) ==
    LET within == {e \in efforts : e <= wanted}
    IN  IF efforts = {} \/ wanted = NoEffort THEN NoEffort
        ELSE IF within # {} THEN CHOOSE e \in within : \A f \in within : f <= e
        ELSE CHOOSE e \in efforts : \A f \in efforts : e <= f
-----------------------------------------------------------------------------
At(c, at) == req' = [req EXCEPT ![c].at = at]

\* A request comes in.  Local models are served before any list is looked at,
\* but not over the WebSocket.
Arrive(c, ask) ==
    /\ req[c].at = "idle"
    /\ req' = [req EXCEPT ![c] =
                 IF ask.api # "list" /\ ask.name \in Local
                 THEN [Idle EXCEPT !.at = "done", !.api = ask.api, !.name = ask.name,
                                   !.endpoint = IF ask.api = "ws" THEN "error" ELSE "local"]
                 ELSE [Idle EXCEPT !.at = "check", !.api = ask.api, !.name = ask.name]]
    /\ UNCHANGED <<models, fresh, upstream>>

\* The request is routed by the list as it is now or as it is replaced.
GoOn(c) == req' = [req EXCEPT ![c].at = "resolve", ![c].seen = {models}]

\* refresh_needed
Check(c) ==
    /\ req[c].at = "check"
    /\ IF fresh THEN GoOn(c) ELSE At(c, "fetch")
    /\ UNCHANGED <<models, fresh, upstream>>

Fetch(c) ==
    /\ req[c].at = "fetch"
    /\ req' = [req EXCEPT ![c].at = "store", ![c].answer = upstream]
    /\ UNCHANGED <<models, fresh, upstream>>

\* The refresh failed, or its answer has no list: the cached one is kept.
FetchFailed(c) ==
    /\ req[c].at = "fetch"
    /\ GoOn(c)
    /\ UNCHANGED <<models, fresh, upstream>>

\* The requests that will read the list, or read it again.
Routing(c) == req[c].at \in {"resolve", "effort", "route", "reroute"}

\* Mutant: only the first list is kept.
SetFirstModels(c) ==
    /\ req[c].at = "store"
    /\ models' = IF models = NoList THEN req[c].answer ELSE models
    /\ fresh' = TRUE
    /\ req' = [d \in Clients |->
                 IF d = c THEN [req[c] EXCEPT !.at = "resolve", !.answer = NoList, !.seen = {req[c].answer}]
                 ELSE IF Routing(d) THEN [req[d] EXCEPT !.seen = @ \union {req[c].answer}]
                 ELSE req[d]]
    /\ UNCHANGED upstream

\* set_copilot_models
SetCopilotModels(c) ==
    /\ req[c].at = "store"
    /\ models' = req[c].answer
    /\ fresh' = TRUE
    /\ req' = [d \in Clients |->
                 IF d = c THEN [req[c] EXCEPT !.at = "resolve", !.answer = NoList, !.seen = {req[c].answer}]
                 ELSE IF Routing(d) THEN [req[d] EXCEPT !.seen = @ \union {req[c].answer}]
                 ELSE req[d]]
    /\ UNCHANGED upstream

\* The listing is made from one look at the list; so is the model of a request.
ResolveModel(c) ==
    /\ req[c].at = "resolve"
    /\ req' = [req EXCEPT ![c] =
                 IF req[c].api = "list" THEN [@ EXCEPT !.at = "done", !.endpoint = "listing"]
                 ELSE [@ EXCEPT !.at = "effort", !.model = Resolve(req[c].name, models)]]
    /\ UNCHANGED <<models, fresh, upstream>>

\* adapt_openai_reasoning_effort, adapt_responses_reasoning_effort and
\* adapt_output_config_effort.  What the request wanted is only read here.
AdaptEffort(c, wanted) ==
    /\ req[c].at = "effort"
    /\ req' = [req EXCEPT ![c].at = "route", ![c].wanted = wanted,
                          ![c].effort = Clamp(SupportedEfforts(req[c].model, models), wanted)]
    /\ UNCHANGED <<models, fresh, upstream>>
-----------------------------------------------------------------------------
\* The request goes upstream.
Send(c, endpoint, effort) ==
    /\ req' = [req EXCEPT ![c].at = "done", ![c].endpoint = endpoint, ![c].effort = effort,
                          ![c].wanted = NoEffort]
    /\ UNCHANGED <<models, fresh, upstream>>

LookAgain(c) ==
    /\ At(c, "reroute")
    /\ UNCHANGED <<models, fresh, upstream>>

Offers(name, endpoint) == endpoint \in SupportedEndpoints(name, models)

\* chat_completions_inner asks about the name, not about the model.
RouteChat(c) ==
    /\ req[c].api = "chat"
    /\ \/ /\ req[c].at = "route"
          /\ IF Offers(req[c].name, "responses") THEN LookAgain(c)
             ELSE Send(c, "chat", req[c].effort)
       \/ /\ req[c].at = "reroute"
          /\ Send(c, IF Offers(req[c].name, "chat") THEN "chat" ELSE "responses", req[c].effort)

\* Mutant: a Claude model is sent to the messages endpoint whatever the list says.
RouteClaudeMessages(c) ==
    /\ req[c].api = "messages"
    /\ \/ /\ req[c].at = "route"
          /\ IF req[c].model \in Claude \/ Offers(req[c].model, "messages")
             THEN \E effort \in {req[c].effort, NoEffort} : Send(c, "messages", effort)
             ELSE LookAgain(c)
       \/ /\ req[c].at = "reroute"
          /\ IF Offers(req[c].model, "responses") THEN Send(c, "responses", req[c].wanted)
             ELSE Send(c, "chat", NoEffort)

\* messages_inner.  On the messages endpoint the adaptation of "thinking" may
\* take the effort away, on the others the translation starts from the request
\* as it came: to Responses with its own effort, to chat without one.
RouteMessages(c) ==
    /\ req[c].api = "messages"
    /\ \/ /\ req[c].at = "route"
          /\ IF \/ Offers(req[c].model, "messages")
                \/ SupportedEndpoints(req[c].model, models) = {} /\ req[c].model \in Claude
             THEN \E effort \in {req[c].effort, NoEffort} : Send(c, "messages", effort)
             ELSE LookAgain(c)
       \/ /\ req[c].at = "reroute"
          /\ IF Offers(req[c].model, "responses") THEN Send(c, "responses", req[c].wanted)
             ELSE Send(c, "chat", NoEffort)

\* A request with the web search tool goes to the search model.
RouteSearch(c) ==
    /\ req[c].api = "search" /\ req[c].at = "route"
    /\ req' = [req EXCEPT ![c].at = "done", ![c].model = SearchModel, ![c].endpoint = "responses",
                          ![c].effort = req[c].wanted, ![c].wanted = NoEffort]
    /\ UNCHANGED <<models, fresh, upstream>>

\* responses
RouteResponses(c) ==
    /\ req[c].api = "responses"
    /\ \/ /\ req[c].at = "route"
          /\ IF Offers(req[c].model, "responses") THEN Send(c, "responses", req[c].effort)
             ELSE LookAgain(c)
       \/ /\ req[c].at = "reroute"
          /\ IF Offers(req[c].model, "chat") THEN Send(c, "chat", NoEffort)
             ELSE Send(c, "responses", req[c].effort)

\* handle_responses_ws does not ask what the model supports.
RouteWs(c) ==
    /\ req[c].api = "ws" /\ req[c].at = "route"
    /\ Send(c, "ws", req[c].effort)

Route(c) ==
    \/ RouteChat(c)
    \/ RouteMessages(c)
    \/ RouteSearch(c)
    \/ RouteResponses(c)
    \/ RouteWs(c)

\* The client has its answer and may ask again.
Answered(c) ==
    /\ req[c].at = "done"
    /\ req' = [req EXCEPT ![c] = Idle]
    /\ UNCHANGED <<models, fresh, upstream>>

Step(c) ==
    \/ Check(c)
    \/ Fetch(c)
    \/ FetchFailed(c)
    \/ SetCopilotModels(c)
    \/ ResolveModel(c)
    \/ \E wanted \in Wanted : AdaptEffort(c, wanted)
    \/ Route(c)

Publish(list) ==
    /\ upstream' = list
    /\ UNCHANGED <<models, fresh, req>>

\* copilot_models_ttl passes.
Expire ==
    /\ fresh
    /\ fresh' = FALSE
    /\ UNCHANGED <<models, upstream, req>>

Next ==
    \/ \E c \in Clients : Step(c) \/ Answered(c) \/ \E ask \in Asks[c] : Arrive(c, ask)
    \/ \E list \in Lists : Publish(list)
    \/ Expire

Spec == Init /\ [][Next]_vars

-----------------------------------------------------------------------------
Sent(c) == req[c].at = "done" /\ req[c].endpoint \in Endpoints

TypeOK ==
    /\ models \in Lists \union {NoList}
    /\ fresh \in BOOLEAN
    /\ fresh => models \in Lists
    /\ upstream \in Lists
    /\ \A c \in Clients :
        /\ req[c].at \in {"idle", "check", "fetch", "store", "resolve", "effort", "route", "reroute", "done"}
        /\ req[c].api \in Apis
        /\ req[c].answer \in Lists \union {NoList}
        /\ req[c].effort \in Wanted
        /\ req[c].wanted \in Wanted
        /\ req[c].endpoint \in Endpoints \union {"none", "local", "error", "listing"}
        /\ req[c].seen \subseteq Lists \union {NoList}
        /\ Routing(c) \/ Sent(c) => req[c].seen # {}

\* The names whose model is configured, whatever any list says of them.
Configured == DOMAIN Overrides \union {"default"}

\* The listed models a name may stand for: the one of that name, else all of
\* the family it names.
Candidates(name, list) ==
    IF name \in DOMAIN list THEN {name}
    ELSE IF name \in DOMAIN Family THEN OfFamily(Family[name], list) ELSE {}

\* What a client means by a name.  A configured name means the model it is
\* configured for and no other, also when a model of that name is listed; any
\* other name means the newest of its candidates, and itself or what it is an
\* alias of only if there is none.
MeantBy(name, model, list) ==
    /\ name = "default" => model = DefaultModel
    /\ name \in DOMAIN Overrides \ {"default"} => model = Overrides[name]
    /\ name \notin Configured /\ Candidates(name, list) # {} =>
          /\ model \in Candidates(name, list)
          /\ name \notin DOMAIN list =>
                \A id \in Candidates(name, list) : Version[id].number <= Version[model].number
    /\ name \notin Configured /\ Candidates(name, list) = {} => model = Canonical(name)

\* The model is the one the client meant by a list that was in force after the
\* request had the list refreshed, never by the stale one it found: that is how
\* newly advertised models and versions reach the requests.
ModelIsMeant ==
    \A c \in Clients : Sent(c) /\ req[c].api # "search" =>
        \E list \in req[c].seen : MeantBy(req[c].name, req[c].model, list)

\* An effort goes upstream only if the model has it in a list that was in
\* force while the request was routed.  (Requests translated from Messages to
\* Responses keep the effort they came with.)
EffortSupported ==
    \A c \in Clients :
        /\ Sent(c)
        /\ req[c].effort # NoEffort
        /\ ~(req[c].api \in {"messages", "search"} /\ req[c].endpoint = "responses")
        => \E list \in req[c].seen : req[c].effort \in SupportedEfforts(req[c].model, list)

\* What each route can make of a request.
Reachable(api) ==
    CASE api = "chat"      -> {"chat", "responses"}
      [] api = "responses" -> {"responses", "chat"}
      [] api = "messages"  -> {"messages", "responses", "chat"}

\* A request never goes to an endpoint its model does not have while the
\* handler could have reached one it has, as long as the lists that were in
\* force meanwhile agree about the model.  The chat route knows the endpoints
\* of the name it was asked for, so there the name must stand for the model.
RoutedAsListed ==
    \A c \in Clients :
        /\ Sent(c)
        /\ req[c].api \in {"chat", "messages", "responses"}
        /\ req[c].api = "chat" => Canonical(req[c].name) = Canonical(req[c].model)
        /\ \A k, l \in req[c].seen : SupportedEndpoints(req[c].model, k) = SupportedEndpoints(req[c].model, l)
        => \A list \in req[c].seen :
              LET usable == SupportedEndpoints(req[c].model, list) \cap Reachable(req[c].api)
              IN  usable # {} => req[c].endpoint \in usable

\* What /v1/models says of a model is what a request for it is routed by.
AdvertisedIsRouted ==
    \A id \in Listing(models) \ DOMAIN Aliases :
        /\ Advertised(id, models, "endpoints") = SupportedEndpoints(id, models)
        /\ Advertised(id, models, "efforts") = SupportedEfforts(id, models)

=============================================================================
