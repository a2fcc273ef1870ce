------------------------ MODULE TranslatedConversation ------------------------
(***************************************************************************)
(* A conversation in which the proxy translates every turn: the client     *)
(* speaks one format and the model behind the proxy another                *)
(* (chat_completions_inner, messages_inner, handle_copilot_chat_messages,  *)
(* handle_local_messages and the chat routes of POST /v1/responses).       *)
(* The client keeps the history and sends it whole with each request; what *)
(* the proxy made of a turn is therefore what it is given back with the    *)
(* next one.                                                               *)
(*                                                                         *)
(* Clients and models keep to their formats: a client answers every call   *)
(* before it says anything else, and a model gives each call a fresh id.   *)
(* A stream is what ResponsesProtocol promises; it may break off anywhere. *)
(***************************************************************************)
EXTENDS Translation

CONSTANTS
    Routes,     \* [api : {"messages", "chat", "responses"}, via : {"responses", "chat"}, stream]
    Names,      \* names of tools
    Spaces,     \* names of namespaces
    ToolLists,  \* for each api the tool lists a client may send
    Breaks,     \* bound: after how many events a stream may break off
    MaxParts,   \* bound: parts of the first turn, two less for each later one
    MaxTurns    \* bound: requests of a conversation

Tools   == [space : {None}, name : Names, kind : {"function", "custom"}]
Entries == [type : {"tool"}, tool : Tools] \union [type : {"namespace"}, name : Spaces, tools : Seq(Tools)]

ASSUME ConversationAssumption ==
    /\ Routes \subseteq [api : {"messages", "chat", "responses"}, via : {"responses", "chat"},
                        stream : BOOLEAN]
    /\ \A r \in Routes : r.api # r.via   \* else nothing is translated
    /\ \A r \in Routes : ToolLists[r.api] \subseteq Seq(Entries)
    /\ \A r \in Routes : r.api # "responses" =>   \* such a request declares functions only
           \A list \in ToolLists[r.api] : \A i \in DOMAIN list :
               list[i].type = "tool" /\ list[i].tool.kind = "function"
    /\ Suggestions \subseteq Nat
    /\ Breaks \subseteq Nat \ {0}
    /\ MaxParts \in Nat /\ MaxTurns \in Nat

VARIABLES
    route, tools,
    history,    \* the client's record of the conversation, in its own format
    phase,      \* "compose", "asked", "answered", "rejected" or "badtools"
    prompt,     \* what the model is shown: [ok, instructions, input] or [ok, messages]
    said,       \* the parts of the model's latest turn
    truncated,  \* whether that turn ended at the model's limit
    got,        \* what the client has of it: [parts, stop]
    requests    \* how many requests so far

vars == <<route, tools, history, phase, prompt, said, truncated, got, requests>>

Nothing == [parts |-> <<>>, stop |-> None]

Init ==
    /\ route \in Routes
    /\ tools \in ToolLists[route.api]
    /\ history = <<>>
    /\ phase = "compose"
    /\ prompt = [ok |-> TRUE]
    /\ said = <<>>
    /\ truncated = FALSE
    /\ got = Nothing
    /\ requests = 0
-----------------------------------------------------------------------------
\* How each format records the parts one side has said.
Recorded(role, parts) ==
    LET texts == Each(LAMBDA p : p.id, TextsOf(parts))
        results == Those(parts, LAMBDA p : p.kind = "result")
        AsItem(p) == CASE p.kind = "text"   -> Message(role, <<p.id>>)
                       [] p.kind = "call"   -> CallItem(p.id, p.tool)
                       [] p.kind = "result" -> OutputItem(p.id)
    IN  CASE parts = <<>> -> <<>>
          [] parts # <<>> /\ route.api = "messages"  -> <<[role |-> role, blocks |-> parts]>>
          [] parts # <<>> /\ route.api = "responses" -> Each(AsItem, parts)
          [] parts # <<>> /\ route.api = "chat" ->
                 Each(LAMBDA p : ToolMessage(p.id), results)
                     \o (IF results # <<>> /\ texts = <<>> THEN <<>>
                         ELSE <<ChatMessage(role, texts, CallsOf(parts))>>)

\* What the handler of the route makes of a request.
AsResponses(messages) ==
    CASE route.api = "messages"  -> AnthropicToResponses(messages)
      [] route.api = "chat"      -> ChatToResponsesInput(messages)
      [] route.api = "responses" -> [instructions |-> <<>>, input |-> messages]

Translated(messages) ==
    IF route.via = "chat" THEN ResponsesToChatRequest(AsResponses(messages))
    ELSE LET body == AsResponses(messages)
         IN  [ok |-> TRUE, instructions |-> body.instructions, input |-> body.input]

\* compute_initiator, for the X-Initiator of the request to the model: of the
\* body that is sent (headers), but of the client's own if that is for
\* POST /v1/responses (prepare_responses_request).
Initiator ==
    CASE route.api = "responses" -> InputItemsInitiator(history)
      [] route.api # "responses" /\ route.via = "responses" -> InputItemsInitiator(prompt.input)
      [] route.api # "responses" /\ route.via = "chat" -> MessagesInitiator(prompt.messages)

Registered == TranslateTools(tools)

Request(messages) ==
    LET p == Translated(messages)
    IN  /\ history' = messages
        /\ prompt' = p
        /\ requests' = requests + 1
        /\ phase' = CASE route.via = "chat" /\ ~p.ok -> "rejected"
                      [] route.via = "chat" /\ p.ok /\ ~Registered.ok -> "badtools"
                      [] OTHER -> "asked"
        /\ truncated' = FALSE
        /\ UNCHANGED <<route, tools, said, got>>

\* The client answers every call, in any order, or says something, or both.
\* With /v1/messages what it says may be its agent's request for a suggestion,
\* and it may also slip in a system message.
Ask ==
    /\ \/ phase = "compose"
       \/ phase = "answered" /\ got.stop # None
    /\ requests < MaxTurns
    /\ LET asked == {i \in DOMAIN got.parts : got.parts[i].kind = "call"}
           words == {<<Text(t)>> : t \in {100 + requests} \union
                                           (IF route.api = "messages" THEN {300 + requests} ELSE {})}
           notes == IF route.api = "messages" THEN {<<>>, <<[role |-> "system", blocks |-> <<Text(200 + requests)>>]>>}
                    ELSE {<<>>}
       IN  \E order \in SetToSeqs({got.parts[i].id : i \in asked}), note \in notes :
              \E more \in IF order = <<>> THEN words ELSE {<<>>} \union words :
                 Request(history \o Recorded("assistant", got.parts) \o note
                             \o Recorded("user", Each(Result, order) \o more))

\* An answer that broke off is thrown away and the request sent again.
Retry ==
    /\ phase = "answered" /\ got.stop = None
    /\ phase' = "asked"
    /\ said' = <<>>
    /\ truncated' = FALSE
    /\ got' = Nothing
    /\ UNCHANGED <<route, tools, history, prompt, requests>>
-----------------------------------------------------------------------------
\* The turns of the model: texts, reasoning without or with its text and calls
\* of declared tools.
Kinds ==
    {[kind |-> k, upstream |-> <<>>, tool |-> NoTool] : k \in {"text", "reasoning", "thought"}}
        \union {[kind |-> "call", upstream |-> d.upstream, tool |-> d.tool] : d \in ToSet(Declared(tools))}

Count(turn, kind) == Cardinality({i \in DOMAIN turn : turn[i].kind = kind})

\* A chat answer has one text, in front of the calls unless it is streamed.
Turns ==
    {turn \in BoundedSeq(Kinds, MaxParts + 2 - 2 * requests) :
        /\ turn # <<>>
        /\ route.via = "chat" =>
              /\ Count(turn, "reasoning") = 0 /\ Count(turn, "thought") = 0
              /\ Count(turn, "text") <= 1
              /\ ~route.stream => \A i \in DOMAIN turn : turn[i].kind = "text" => i = 1}

Id(k) == MaxParts * requests + k

PartAt(turn, k) == IF turn[k].kind = "call" THEN Call(Id(k), turn[k].tool) ELSE Text(Id(k))

\* A chat client that has the answer whole hears the model think aloud.
Audible == {"text", "call"} \union (IF route.api = "chat" /\ ~route.stream THEN {"thought"} ELSE {})

Spoken(turn) ==
    LET heard == Those([k \in DOMAIN turn |-> k], LAMBDA k : turn[k].kind \in Audible)
    IN  Each(LAMBDA k : PartAt(turn, k), heard)

\* The turn as output items; a call that came through chat has the identity
\* that the tool names of the request give it.
ItemAt(turn, k) ==
    CASE turn[k].kind = "text"      -> Message("assistant", <<Id(k)>>)
      [] turn[k].kind = "reasoning" -> Reasoning
      [] turn[k].kind = "thought"   -> Thought(<<Id(k)>>)
      [] turn[k].kind = "call"      ->
             CallItem(Id(k), IF route.via = "chat" THEN Registered.tools[turn[k].upstream]
                             ELSE turn[k].tool)

Output(turn) == [k \in DOMAIN turn |-> ItemAt(turn, k)]

Finishes == {"stop", "length", "content_filter"}

Answered(turn, finish, received) ==
    /\ phase = "asked"
    /\ said' = Spoken(turn)
    /\ truncated' = (finish = "length")
    /\ got' = received
    /\ phase' = "answered"
    /\ UNCHANGED <<route, tools, history, prompt, requests>>

ChatAnswer(turn, finish) ==
    LET calls == Those([k \in DOMAIN turn |-> k], LAMBDA k : turn[k].kind = "call")
    IN  [texts |-> IF turn[1].kind = "text" THEN <<Id(1)>> ELSE <<>>,
         calls |-> Each(LAMBDA k : [id |-> Id(k), name |-> turn[k].upstream], calls),
         finish |-> finish]

\* A Responses client has the items themselves.
ItemParts(output) ==
    FlattenSeq(Each(LAMBDA item : IF item.type = "message" THEN Each(Text, item.texts)
                                  ELSE <<Call(item.id, item.tool)>>, output))

\* The answer comes whole.
AnswerWhole(turn, finish) ==
    /\ ~route.stream
    /\ LET r == IF route.via = "chat" THEN ChatToResponses(ChatAnswer(turn, finish), Registered.tools)
                ELSE [ok |-> TRUE, status |-> Status(finish), output |-> Output(turn)]
       IN  /\ r.ok
           /\ Answered(turn, finish,
                CASE route.api = "messages"  -> ResponsesToAnthropic(r.output, r.status)
                  [] route.api = "chat"      -> ResponsesToChat(r.output)
                  [] route.api = "responses" -> [parts |-> ItemParts(r.output), stop |-> r.status])
-----------------------------------------------------------------------------
\* The events of a turn: item by item; closed only at the end, as the chat
\* adapter does; or with every announcement repeated.
Created == Event("created", 0, Reasoning, None, <<>>)
Terminal(output, finish) == Event("terminal", 0, Reasoning, Status(finish), output)

Burst(output, types, k) == [i \in DOMAIN types |-> Event(types[i], k - 1, output[k], None, <<>>)]
Bursts(output, types)   == [k \in DOMAIN output |-> Burst(output, types, k)]

Manner(manner) ==
    CASE manner = "each"  -> <<"added", "delta", "done">>
      [] manner = "late"  -> <<"added", "delta">>
      [] manner = "twice" -> <<"added", "added", "delta", "done">>

Closing(output, manner) == IF manner = "late" THEN FlattenSeq(Bursts(output, <<"done">>)) ELSE <<>>

Events(turn, manner, finish) ==
    LET output == Output(turn)
    IN  <<Created>> \o FlattenSeq(Bursts(output, Manner(manner))) \o Closing(output, manner)
            \o <<Terminal(output, finish)>>

\* An Anthropic client puts each block at its index in the message.
ReceiveFrame(c, f) ==
    CASE f.type = "added" -> [c EXCEPT !.blocks = With(@, f.index, [part |-> f.part, body |-> <<>>])]
      [] f.type = "delta" /\ f.index \in DOMAIN c.blocks -> [c EXCEPT !.blocks[f.index].body = Append(@, f.part.id)]
      [] f.type = "message_stop" -> [c EXCEPT !.stop = f.stop]
      [] OTHER -> c

\* A chat client adds up the text and, by index, the arguments of the calls.
ReceiveChunk(c, f) ==
    CASE f.type = "delta" /\ f.part.kind = "text" -> [c EXCEPT !.texts = Append(@, f.part)]
      [] f.type = "added" /\ f.index \notin DOMAIN c.blocks ->
             [c EXCEPT !.blocks = With(@, f.index, [part |-> f.part, body |-> <<>>])]
      [] f.type = "delta" /\ f.part.kind = "call" -> [c EXCEPT !.blocks[f.index].body = Append(@, f.part.id)]
      [] f.type = "finish" -> [c EXCEPT !.stop = f.stop]
      [] OTHER -> c

NewClient == [texts |-> <<>>, blocks |-> <<>>, stop |-> None]

\* A block whose body is not its own shows as no part that was said.
BlockParts(b) ==
    IF b.part.kind = "text" THEN Each(Text, b.body)
    ELSE IF b.body = <<b.part.id>> THEN <<b.part>> ELSE <<[b.part EXCEPT !.kind = "garbled"]>>

Received(c) ==
    LET order == Those([i \in 1..MaxParts |-> i - 1], LAMBDA i : i \in DOMAIN c.blocks)
    IN  [parts |-> c.texts \o FlattenSeq(Each(LAMBDA i : BlockParts(c.blocks[i]), order)),
         stop |-> c.stop]

AnthropicStream(events) ==
    Received(FoldLeft(ReceiveFrame, NewClient, FlattenSeq(Each(AnthropicFrames, events))))

\* What the adapter and the chat client behind it make of one event.
Relay(s, e) ==
    LET r == ChatChunks(s.a, e)
    IN  [a |-> r.a, c |-> FoldLeft(ReceiveChunk, s.c, r.chunks)]

ChatStream(events) == Received(FoldLeft(Relay, [a |-> NewChatStream, c |-> NewClient], events).c)

\* The answer is streamed, perhaps not to its end.  A Responses client has the
\* items of the terminal event (ResponsesStreaming!OutputIsWhatWasStreamed).
AnswerStreamed(turn, manner, finish, cut) ==
    /\ route.stream
    /\ LET all    == Events(turn, manner, finish)
           events == SubSeq(all, 1, IF cut = 0 THEN Len(all) ELSE cut)
       IN  /\ cut < Len(all)
           /\ Answered(turn, finish,
                CASE route.api = "messages"  -> AnthropicStream(events)
                  [] route.api = "chat"      -> ChatStream(events)
                  [] route.api = "responses" ->
                         IF cut = 0 THEN [parts |-> ItemParts(Output(turn)), stop |-> Status(finish)]
                         ELSE Nothing)

Manners == IF route.via = "chat" THEN {"late"} ELSE {"each", "late", "twice"}

Answer ==
    \E turn \in Turns, finish \in Finishes :
        \/ AnswerWhole(turn, finish)
        \/ \E manner \in Manners, cut \in Breaks \union {0} :
              /\ cut = 0 \/ finish = "stop"   \* nobody hears how a broken stream would have ended
              /\ AnswerStreamed(turn, manner, finish, cut)

Next ==
    \/ Ask
    \/ Retry
    \/ phase = "asked" /\ Answer

Spec == Init /\ [][Next]_vars
-----------------------------------------------------------------------------
\* Who said what, in order, whatever the format.
Line(role, p) == [role |-> IF p.kind = "result" THEN "tool" ELSE role,
                  kind |-> p.kind, id |-> p.id, name |-> p.tool.name]

Lines(role, parts) == Each(LAMBDA p : Line(role, p), parts)

ItemLines(item) ==
    CASE item.type = "message" -> Lines(item.role, Each(Text, item.texts))
      [] item.type = "call"    -> Lines("assistant", <<Call(item.id, item.tool)>>)
      [] item.type = "output"  -> Lines("tool", <<Result(item.id)>>)

ChatLines(m) ==
    IF m.role = "tool" THEN Lines("tool", <<Result(m.id)>>)
    ELSE Lines(m.role, Each(Text, m.texts) \o m.calls)

HistoryLines ==
    CASE route.api = "messages"  -> FlattenSeq(Each(LAMBDA m : Lines(m.role, m.blocks), history))
      [] route.api = "chat"      -> FlattenSeq(Each(ChatLines, history))
      [] route.api = "responses" -> FlattenSeq(Each(ItemLines, history))

PromptLines ==
    IF route.via = "chat" THEN FlattenSeq(Each(ChatLines, prompt.messages))
    ELSE Lines("system", Each(Text, prompt.instructions)) \o FlattenSeq(Each(ItemLines, prompt.input))

\* The model is shown everything the client's history says, once and in its
\* order, every call with its tool's name and every result as the answer to its
\* own call; only system messages move to the front.  Two translations in a row
\* (Messages to Responses to chat) change nothing about that.
PromptIsHistory ==
    phase = "asked" =>
        PromptLines = Those(HistoryLines, LAMBDA l : l.role = "system")
                          \o Those(HistoryLines, LAMBDA l : l.role # "system")

CallBeforeText(parts) ==
    \E i, j \in DOMAIN parts : i < j /\ parts[i].kind = "call" /\ parts[j].kind = "text"

OneText(parts) == Len(TextsOf(parts)) <= 1

\* How a client may be told that the turn has ended.  A Messages client is to
\* hear of the limit (anthropic_stop_reason), unless there are calls to answer,
\* of which it may hear instead; a chat client never hears of the limit.
Endings ==
    LET calls == CallsOf(said) # <<>>
    IN  CASE route.api = "responses" -> IF truncated THEN {"incomplete"} ELSE {"completed", "filtered"}
          [] route.api = "messages" /\ truncated -> {"length"} \union (IF calls THEN {"calls"} ELSE {})
          [] route.api = "chat" \/ (route.api = "messages" /\ ~truncated) -> {IF calls THEN "calls" ELSE "end"}

\* When a client is told that a turn has ended it has the turn: every text and
\* every call, each of them whole, once, in order and with the tool the client
\* declared; no reasoning, except that a whole chat answer has its text where it
\* was thought; and it is told of an ending that the turn had.
\* (A streamed Messages answer numbers its blocks apart only if it has one text
\* at most and no call in front of it.)
DeliveredAsSaid ==
    /\ phase = "answered" /\ got.stop # None
    /\ route.api = "messages" /\ route.stream => OneText(said) /\ ~CallBeforeText(said)
    => /\ TextsOf(got.parts) = TextsOf(said)
       /\ CallsOf(got.parts) = CallsOf(said)
       /\ Len(got.parts) = Len(said)
       /\ route.api = "responses" => got.parts = said
       /\ got.stop \in Endings

\* What the client has said since the model's latest turn.
Newest ==
    LET spoken == {i \in DOMAIN HistoryLines : HistoryLines[i].role = "assistant"}
    IN  SubSeq(HistoryLines, 1 + (IF spoken = {} THEN 0 ELSE Max(spoken)), Len(HistoryLines))

Brings(lines, role) == \E i \in DOMAIN lines : lines[i].role = role
Suggesting          == HistoryLines[Len(HistoryLines)].id \in Suggestions

\* A request that only brings the results of calls goes out as the agent's,
\* whatever formats it is translated between.  Where the attribution looks at
\* messages, one that brings words is the agent's exactly if it ends asking for a
\* suggestion.  Elsewhere only a conversation with results has an agent; there
\* the attribution looks at input items, so that it is the agent's ever after the
\* first result and nobody sees who asks for a suggestion (compute_initiator).
InitiatorFollowsTurn ==
    phase = "asked" =>
        /\ ~Brings(Newest, "user") => Initiator = "agent"
        /\ IF route.api = "messages" /\ route.via = "chat"
           THEN Brings(Newest, "user") => (Initiator = "agent" <=> Suggesting)
           ELSE Initiator = "agent" => Brings(HistoryLines, "tool")

\* A client that keeps to the rules is never locked out of its conversation by
\* anything else than what the model did: the history it was given by the proxy
\* itself is refused exactly if the model said something right behind a call and
\* is to be shown that through chat.
FollowUpAccepted ==
    phase = "rejected" <=>
        /\ route.via = "chat"
        /\ \E i \in 1..Len(HistoryLines) - 1 :
              /\ HistoryLines[i].kind = "call"
              /\ HistoryLines[i + 1].kind = "text" /\ HistoryLines[i + 1].role = "assistant"

\* Design: translation covers "function calls and function-call outputs across
\* turns".
FollowUpAlwaysAccepted == phase # "rejected"
=============================================================================
