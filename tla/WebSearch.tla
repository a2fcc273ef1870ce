------------------------------ MODULE WebSearch ------------------------------
(***************************************************************************)
(* resolve_web_search_calls of http/responses.rs: a chat-only model is     *)
(* offered web search as a function, and the proxy runs the searches it    *)
(* asks for.  In every round the conversation is sent as a probe; the      *)
(* calls of the answer are delegated to a model that can search, one after *)
(* the other, and the message and its results join the conversation.       *)
(* The answer to a probe is one of:                                        *)
(*   failed      post_chat returned an error                               *)
(*   unreadable  no message in the first choice                            *)
(*   message     calls, each [id, name, query], whether its text promises  *)
(*               a search (narrates_intent_to_search), and the turn that   *)
(*               chat_to_responses makes of it, or NoTurn if it refuses    *)
(***************************************************************************)
EXTENDS Integers, Sequences, SequencesExt

CONSTANT Answers    \* the answers of the upstream to try

MaxSearchRounds == 3
SearchTool      == "web_search"
Unavailable     == "unavailable"     \* WEB_SEARCH_UNAVAILABLE_NOTE
NoTurn          == [status |-> "refused", output |-> <<>>]
NoAnswer        == [kind |-> "none"]

VARIABLES
    stage,            \* "ready", "probing", "delegating", "answering", "completed" or "failed"
    round,            \* probes sent
    messages,         \* what the rounds have added to the conversation
    appended,         \* the message of this round and the results it has so far
    toSearch,         \* the search calls of this round still to be delegated
    forceSearch,      \* the next probe must call the search function
    forcedRetryUsed,
    answer,           \* the upstream's answer to the last probe
    (* history *)
    searchResults     \* what each delegation came back with

searchVars == <<stage, round, messages, appended, toSearch, forceSearch, forcedRetryUsed,
                answer, searchResults>>

ASSUME AnswersAssumption ==
    \A a \in Answers :
        a.kind = "message" => a.calls \in Seq([id : STRING, name : STRING, query : STRING])

\* The calls of a message that ask for a search, and the others.
Asked(calls) ==
    FlattenSeq([i \in DOMAIN calls |-> IF calls[i].name = SearchTool THEN <<calls[i]>> ELSE <<>>])
Own(calls) ==
    FlattenSeq([i \in DOMAIN calls |-> IF calls[i].name = SearchTool THEN <<>> ELSE <<calls[i]>>])

Assistant(calls)  == [role |-> "assistant", calls |-> calls]
Result(id, text)  == [role |-> "tool", id |-> id, text |-> text]

SearchInit ==
    /\ stage = "ready"
    /\ round = 0
    /\ messages = <<>>
    /\ appended = <<>>
    /\ toSearch = <<>>
    /\ forceSearch = FALSE
    /\ forcedRetryUsed = FALSE
    /\ answer = NoAnswer
    /\ searchResults = <<>>

\* The handler goes on, or the client is gone: the conversation is dropped.
SearchDropped ==
    /\ stage' = "ready"
    /\ round' = 0
    /\ messages' = <<>>
    /\ appended' = <<>>
    /\ toSearch' = <<>>
    /\ forceSearch' = FALSE
    /\ forcedRetryUsed' = FALSE
    /\ answer' = NoAnswer
    /\ searchResults' = <<>>
-----------------------------------------------------------------------------
SendProbe ==
    /\ stage = "ready" /\ round < MaxSearchRounds
    /\ stage' = "probing"
    /\ round' = round + 1
    /\ forceSearch' = FALSE
    /\ answer' = NoAnswer
    /\ UNCHANGED <<messages, appended, toSearch, forcedRetryUsed, searchResults>>

\* The rounds are used up: the answer is asked for with what they have found.
SendFinal ==
    /\ stage = "ready" /\ round = MaxSearchRounds
    /\ stage' = "answering"
    /\ UNCHANGED <<round, messages, appended, toSearch, forceSearch, forcedRetryUsed,
                   answer, searchResults>>

ProbeFailed(a) ==
    /\ a.kind = "failed"
    /\ stage' = "failed"
    /\ UNCHANGED <<appended, toSearch, forceSearch, forcedRetryUsed>>

Narrated(a) == a.narrates /\ ~forcedRetryUsed

\* A turn that ends with the promise of a search is tried once more.
ProbeNarrated(a) ==
    /\ a.kind = "message" /\ Asked(a.calls) = <<>> /\ Narrated(a)
    /\ stage' = "ready"
    /\ forceSearch' = TRUE
    /\ forcedRetryUsed' = TRUE
    /\ UNCHANGED <<appended, toSearch>>

ProbeCompleted(a) ==
    /\ \/ a.kind = "unreadable"
       \/ a.kind = "message" /\ Asked(a.calls) = <<>> /\ ~Narrated(a)
    /\ stage' = "completed"
    /\ UNCHANGED <<appended, toSearch, forceSearch, forcedRetryUsed>>

ProbeAsks(a) ==
    /\ a.kind = "message" /\ Asked(a.calls) # <<>>
    /\ stage' = "delegating"
    /\ appended' = <<Assistant(a.calls)>>
    /\ toSearch' = Asked(a.calls)
    /\ UNCHANGED <<forceSearch, forcedRetryUsed>>

ProbeAnswered(a) ==
    /\ stage = "probing"
    /\ answer' = a
    /\ ProbeFailed(a) \/ ProbeNarrated(a) \/ ProbeCompleted(a) \/ ProbeAsks(a)
    /\ UNCHANGED <<round, messages, searchResults>>

\* delegate_web_search: nothing is searched for without a query, and any
\* failure of the delegated request reads as no findings.
Findings(call) == {Unavailable} \union (IF call.query = "" THEN {} ELSE {call.query})

\* Mutant: the results of a round replace those of the round before.
DelegateForgetting ==
    /\ stage = "delegating"
    /\ \E text \in Findings(Head(toSearch)) :
          LET answered == Append(appended, Result(Head(toSearch).id, text))
              last   == Len(toSearch) = 1
          IN  /\ toSearch' = Tail(toSearch)
              /\ appended' = IF last THEN <<>> ELSE answered
              /\ messages' = IF last THEN answered ELSE messages
              /\ stage' = IF last THEN "ready" ELSE "delegating"
              /\ searchResults' = Append(searchResults, text)
    /\ UNCHANGED <<round, forceSearch, forcedRetryUsed, answer>>

\* One search; with the round's last, message and results join the conversation.
Delegate ==
    /\ stage = "delegating"
    /\ \E text \in Findings(Head(toSearch)) :
          LET answered == Append(appended, Result(Head(toSearch).id, text))
              last     == Len(toSearch) = 1
          IN  /\ toSearch' = Tail(toSearch)
              /\ appended' = IF last THEN <<>> ELSE answered
              /\ messages' = IF last THEN messages \o answered ELSE messages
              /\ stage' = IF last THEN "ready" ELSE "delegating"
              /\ searchResults' = Append(searchResults, text)
    /\ UNCHANGED <<round, forceSearch, forcedRetryUsed, answer>>

SearchNext ==
    \/ SendProbe
    \/ SendFinal
    \/ \E a \in Answers : ProbeAnswered(a)
    \/ Delegate
-----------------------------------------------------------------------------
\* The texts of the results in a conversation, in its order.
ResultTexts(conversation) ==
    FlattenSeq([k \in DOMAIN conversation |->
                  IF conversation[k].role = "tool" THEN <<conversation[k].text>> ELSE <<>>])

\* A message of the conversation is followed by one result for each of its
\* search calls, under the call's id and in the order of the calls, and then by
\* the next message.
ResultsFollow(k) ==
    LET asked == Asked(messages[k].calls)
        next  == k + Len(asked) + 1
    IN  /\ next <= Len(messages) + 1
        /\ \A j \in DOMAIN asked :
              /\ messages[k + j].role = "tool"
              /\ messages[k + j].id = asked[j].id
              /\ messages[k + j].text \in Findings(asked[j])
        /\ next <= Len(messages) => messages[next].role = "assistant"

\* Whatever the upstream is asked, a probe or the answer, it gets every message
\* in which it asked for searches with each of them answered, and everything
\* all the searches so far came back with (resolve_web_search_calls: the
\* results are "fed back as a tool result").
FindingsReachUpstream ==
    /\ ResultTexts(messages \o appended) = searchResults
    /\ \A k \in DOMAIN messages : messages[k].role = "assistant" => ResultsFollow(k)
    /\ messages # <<>> => messages[1].role = "assistant"

\* The retry is for turns that would "end with an intent and no findings"
\* (resolve_web_search_calls): a turn that calls the client's own tools goes on
\* with their results, so it is not thrown away.
OwnCallsSurvive == forceSearch => Own(answer.calls) = <<>>
=============================================================================
