----------------------------- MODULE Translation -----------------------------
(***************************************************************************)
(* How requests and whole turns pass between the Anthropic Messages, Chat  *)
(* Completions and Responses formats (translate/responses_formats.rs and   *)
(* the pure half of local/responses.rs).                                   *)
(*                                                                         *)
(* What is said is a sequence of parts: a text, a tool call, the result of *)
(* a call; a text that a format joins from several is still those several. *)
(* The formats group and order parts differently:                          *)
(*   Anthropic  messages [role, blocks], a block being a part              *)
(*   Chat       messages [role, texts, calls, id]                          *)
(*   Responses  items [type, role, texts, id, tool]                        *)
(* A tool is [space, name, kind]; upstream of a chat endpoint it has one   *)
(* name, which is the tool's own or encodes its place in its namespace.    *)
(***************************************************************************)
EXTENDS Integers, Sequences, FiniteSets, SequencesExt

CONSTANT Suggestions   \* the texts that begin with "[SUGGESTION MODE:"

None   == "none"
NoTool == [space |-> None, name |-> <<>>, kind |-> "function"]

Text(t)       == [kind |-> "text",   id |-> t,  tool |-> NoTool]
Call(id, tool) == [kind |-> "call",   id |-> id, tool |-> tool]
Result(id)    == [kind |-> "result", id |-> id, tool |-> NoTool]

Message(role, texts) == [type |-> "message", role |-> role, texts |-> texts, id |-> 0, tool |-> NoTool]
CallItem(id, tool)   == [type |-> "call", role |-> None, texts |-> <<>>, id |-> id, tool |-> tool]
OutputItem(id)       == [type |-> "output", role |-> None, texts |-> <<>>, id |-> id, tool |-> NoTool]
Reasoning            == [type |-> "reasoning", role |-> None, texts |-> <<>>, id |-> 0, tool |-> NoTool]
Thought(texts)       == [Reasoning EXCEPT !.texts = texts]   \* its content comes with it

ChatMessage(role, texts, calls) == [role |-> role, texts |-> texts, calls |-> calls, id |-> 0]
ToolMessage(id)                 == [role |-> "tool", texts |-> <<>>, calls |-> <<>>, id |-> id]

Each(Op(_), s)    == [i \in DOMAIN s |-> Op(s[i])]
Those(s, Test(_)) == FlattenSeq([i \in DOMAIN s |-> IF Test(s[i]) THEN <<s[i]>> ELSE <<>>])
With(f, key, value) ==
    [x \in DOMAIN f \union {key} |-> IF x = key THEN value ELSE f[x]]

CallsOf(parts) == Those(parts, LAMBDA p : p.kind = "call")
TextsOf(parts) == Those(parts, LAMBDA p : p.kind = "text")
-----------------------------------------------------------------------------
\* normalize_message_level_system: system messages go in front of the others.
NormalizeSystem(messages) ==
    LET system == Those(messages, LAMBDA m : m.role = "system")
    IN  [system   |-> FlattenSeq(Each(LAMBDA m : Each(LAMBDA p : p.id, m.blocks), system)),
         messages |-> Those(messages, LAMBDA m : m.role # "system")]

\* flush_text_message
FlushText(s, role) ==
    IF s.texts = <<>> THEN s
    ELSE [items |-> Append(s.items, Message(role, s.texts)), texts |-> <<>>]

\* Mutant: texts wait for the end of the message.
AppendBlockUnflushed(s, role, part) ==
    CASE part.kind = "text"   -> [s EXCEPT !.texts = Append(@, part.id)]
      [] part.kind = "call"   -> [s EXCEPT !.items = Append(@, CallItem(part.id, part.tool))]
      [] part.kind = "result" -> [s EXCEPT !.items = Append(@, OutputItem(part.id))]

\* Texts are gathered until a block of another kind.
AppendBlock(s, role, part) ==
    CASE part.kind = "text"   -> [s EXCEPT !.texts = Append(@, part.id)]
      [] part.kind = "call"   -> [FlushText(s, role) EXCEPT !.items = Append(@, CallItem(part.id, part.tool))]
      [] part.kind = "result" -> [FlushText(s, role) EXCEPT !.items = Append(@, OutputItem(part.id))]

\* append_anthropic_message_items
AppendMessage(s, m) ==
    FlushText(FoldLeft(LAMBDA x, p : AppendBlock(x, m.role, p), s, m.blocks), m.role)

\* anthropic_messages_to_responses_request: [instructions, input].
AnthropicToResponses(messages) ==
    LET body == NormalizeSystem(messages)
    IN  [instructions |-> body.system,
         input |-> FoldLeft(AppendMessage, [items |-> <<>>, texts |-> <<>>], body.messages).items]

\* openai_chat_messages_to_responses_input
ChatToResponsesInput(messages) ==
    LET Items(m) ==
            IF m.role = "tool" THEN <<OutputItem(m.id)>>
            ELSE (IF m.texts = <<>> THEN <<>> ELSE <<Message(m.role, m.texts)>>)
                     \o Each(LAMBDA c : CallItem(c.id, c.tool), m.calls)
    IN  [instructions |-> <<>>, input |-> FlattenSeq(Each(Items, messages))]
-----------------------------------------------------------------------------
\* flush_tool_calls: consecutive calls make one assistant message.
FlushToolCalls(s) ==
    IF s.pending = <<>> THEN s
    ELSE [s EXCEPT !.messages = Append(@, ChatMessage("assistant", <<>>, s.pending)),
                   !.outstanding = @ \union {s.pending[i].id : i \in DOMAIN s.pending},
                   !.pending = <<>>]

Rejected(s) == [s EXCEPT !.ok = FALSE]

\* translate_function_call, translate_custom_tool_call: the name, not its space.
AddCall(s, item) ==
    IF s.outstanding # {} \/ item.id \in s.known THEN Rejected(s)
    ELSE [s EXCEPT !.known = @ \union {item.id},
                   !.pending = Append(@, Call(item.id, [NoTool EXCEPT !.name = item.tool.name]))]

AddMessage(s, item) ==
    LET f == FlushToolCalls(s)
    IN  IF f.outstanding # {} THEN Rejected(f)
        ELSE [f EXCEPT !.messages = Append(@, ChatMessage(item.role, item.texts, <<>>))]

\* Mutant: outputs must come in the order of their calls.
AddOutputInOrder(s, item) ==
    LET f == FlushToolCalls(s)
    IN  IF item.id \notin f.outstanding \/ \E id \in f.outstanding : id < item.id THEN Rejected(f)
        ELSE [f EXCEPT !.messages = Append(@, ToolMessage(item.id)),
                       !.outstanding = @ \ {item.id}]

\* validate_output_call_id, translate_tool_call_output
AddOutput(s, item) ==
    LET f == FlushToolCalls(s)
    IN  IF item.id \notin f.outstanding THEN Rejected(f)
        ELSE [f EXCEPT !.messages = Append(@, ToolMessage(item.id)),
                       !.outstanding = @ \ {item.id}]

AddItem(s, item) ==
    IF ~s.ok THEN s
    ELSE CASE item.type = "call"    -> AddCall(s, item)
           [] item.type = "message" -> AddMessage(s, item)
           [] item.type = "output"  -> AddOutput(s, item)
           [] OTHER                 -> Rejected(s)

\* translate_input_items
TranslateInputItems(items) ==
    LET start == [ok |-> TRUE, messages |-> <<>>, pending |-> <<>>, outstanding |-> {}, known |-> {}]
        end   == FlushToolCalls(FoldLeft(AddItem, start, items))
    IN  [ok |-> end.ok /\ end.outstanding = {}, messages |-> end.messages]

\* responses_to_chat, without the tools: the instructions lead.
ResponsesToChatRequest(body) ==
    LET r == TranslateInputItems(body.input)
    IN  [ok |-> r.ok,
         messages |-> (IF body.instructions = <<>> THEN <<>>
                       ELSE <<ChatMessage("system", body.instructions, <<>>)>>) \o r.messages]
-----------------------------------------------------------------------------
\* is_suggestion_mode: the content is one string, its first text at the front.
SuggestionMode(message) == message.texts # <<>> /\ message.texts[1] \in Suggestions

\* Mutant: the agent's requests for a suggestion pass for the user's.
MessagesInitiatorPlain(messages) ==
    IF messages # <<>> /\ messages[Len(messages)].role \in {"assistant", "tool"} THEN "agent" ELSE "user"

\* messages_initiator, of a chat request: whose the last message is.
MessagesInitiator(messages) ==
    LET last == messages[Len(messages)]
    IN  IF messages # <<>> /\ (\/ last.role \in {"assistant", "tool"}
                               \/ last.role = "user" /\ SuggestionMode(last))
        THEN "agent" ELSE "user"

\* input_items_initiator, of a request that names no earlier response: the
\* outputs of calls count wherever they are in the input.
InputItemsInitiator(items) ==
    LET last == items[Len(items)]
    IN  IF \/ \E i \in DOMAIN items : items[i].type = "output"
           \/ items # <<>> /\ (last.type = "call" \/ last.role = "assistant")
        THEN "agent" ELSE "user"
-----------------------------------------------------------------------------
\* namespaced_upstream_tool_name: the two positions keep names apart, whatever
\* is left of the tool's own.
NamespacedName(i, j, name) == <<"namespace", i - 1, j - 1>> \o name

\* The tools of a request in order, each with the name it has upstream.
Declared(tools) ==
    LET Nested(i, j) ==
            [upstream |-> NamespacedName(i, j, tools[i].tools[j].name),
             tool |-> [tools[i].tools[j] EXCEPT !.space = tools[i].name]]
        Plain(i) == [upstream |-> tools[i].tool.name, tool |-> tools[i].tool]
    IN  FlattenSeq([i \in DOMAIN tools |->
            CASE tools[i].type = "namespace" -> [j \in DOMAIN tools[i].tools |-> Nested(i, j)]
              [] tools[i].type = "tool"      -> <<Plain(i)>>])

NamesClash(tools) ==
    \E i \in DOMAIN tools : tools[i].type = "namespace" /\
        \E j, k \in DOMAIN tools[i].tools : j # k /\ tools[i].tools[j].name = tools[i].tools[k].name

\* Mutant: the last tool of a name wins.
RegisterToolAgain(reg, d) ==
    [reg EXCEPT !.tools = With(@, d.upstream, d.tool)]

\* register_tool: `tools' is tool_kinds and tool_names together.
RegisterTool(reg, d) ==
    IF d.upstream \in DOMAIN reg.tools THEN [reg EXCEPT !.ok = FALSE]
    ELSE [reg EXCEPT !.tools = With(@, d.upstream, d.tool)]

\* translate_tools
TranslateTools(tools) ==
    LET reg == FoldLeft(RegisterTool, [ok |-> TRUE, tools |-> <<>>], Declared(tools))
    IN  [reg EXCEPT !.ok = @ /\ ~NamesClash(tools)]
-----------------------------------------------------------------------------
\* translate_finish_reason; "filtered" is incomplete for the other reason.
Status(finish) ==
    CASE finish = "length" -> "incomplete"
      [] finish = "content_filter" -> "filtered"
      [] finish \in {"stop", "tool_calls"} -> "completed"

\* chat_to_responses_with_tool_names: [ok, status, output] of a chat answer
\* [texts, calls, finish], whose calls are named as they are upstream.
ChatToResponses(chat, tools) ==
    LET unique  == \A i, j \in DOMAIN chat.calls : chat.calls[i].id = chat.calls[j].id => i = j
        known   == \A i \in DOMAIN chat.calls : chat.calls[i].name \in DOMAIN tools
        texts   == IF chat.texts = <<>> THEN <<>> ELSE <<Message("assistant", chat.texts)>>
    IN  IF chat.finish \in {"stop", "tool_calls", "length", "content_filter"} /\ unique /\ known
        THEN [ok |-> TRUE, status |-> Status(chat.finish),
              output |-> texts \o Each(LAMBDA c : CallItem(c.id, tools[c.name]), chat.calls)]
        ELSE [ok |-> FALSE, status |-> "failed", output |-> <<>>]

IsFunctionCall(item) == item.type = "call" /\ item.tool.kind = "function"
HasFunctionCall(output) == \E i \in DOMAIN output : IsFunctionCall(output[i])

\* anthropic_stop_reason
StopReason(output, status) ==
    IF HasFunctionCall(output) THEN "calls"
    ELSE IF status = "incomplete" THEN "length" ELSE "end"

\* responses_to_anthropic_message_response
ResponsesToAnthropic(output, status) ==
    LET Parts(item) == IF item.type = "message" THEN Each(Text, item.texts)
                       ELSE IF IsFunctionCall(item) THEN <<Call(item.id, item.tool)>> ELSE <<>>
    IN  [parts |-> FlattenSeq(Each(Parts, output)), stop |-> StopReason(output, status)]

\* responses_to_openai_chat_response: the texts of every item, reasoning too;
\* it does not look at the status.
ResponsesToChat(output) ==
    LET texts == FlattenSeq(Each(LAMBDA item : Each(Text, item.texts), output))
    IN  [parts |-> texts \o CallsOf(ResponsesToAnthropic(output, "completed").parts),
         stop |-> IF HasFunctionCall(output) THEN "calls" ELSE "end"]
-----------------------------------------------------------------------------
(* Streams: an event of the Responses API is a record of one form.         *)
Event(type, index, item, outcome, output) ==
    [type |-> type, index |-> index, item |-> item, outcome |-> outcome, output |-> output]

Frame(type, index, part, stop) == [type |-> type, index |-> index, part |-> part, stop |-> stop]

\* responses_sse_to_anthropic_sse_line: texts are numbered within their item
\* and calls by their item.  A failed response has no frame.
AnthropicFrames(e) ==
    CASE e.type = "created" -> <<Frame("message_start", 0, NoTool, None)>>
      [] e.type \in {"added", "delta", "done"} /\ e.item.type = "message" ->
             [k \in DOMAIN e.item.texts |-> Frame(e.type, k - 1, Text(e.item.texts[k]), None)]
      [] e.type \in {"added", "delta", "done"} /\ IsFunctionCall(e.item) ->
             <<Frame(e.type, e.index, Call(e.item.id, e.item.tool), None)>>
      [] e.type = "terminal" /\ e.outcome # "failed" ->
             <<Frame("message_stop", 0, NoTool, StopReason(e.output, e.outcome))>>
      [] OTHER -> <<>>

\* ResponsesToChatStream
NewChatStream == [completed |-> FALSE, sawCall |-> FALSE, calls |-> <<>>]

\* finish
FinishChat(a, output) ==
    IF a.completed THEN [a |-> a, chunks |-> <<>>]
    ELSE [a |-> [a EXCEPT !.completed = TRUE],
          chunks |-> <<Frame("finish", 0, NoTool,
                             IF a.sawCall \/ HasFunctionCall(output) THEN "calls" ELSE "end")>>]

\* The first event of a call gives it the next index among the calls.
ChatCallAdded(a, e) ==
    LET b == [a EXCEPT !.sawCall = TRUE,
                       !.calls = IF e.index \in DOMAIN @ THEN @
                                 ELSE With(@, e.index, Cardinality(DOMAIN @))]
    IN  [a |-> b, chunks |-> <<Frame("added", b.calls[e.index], Call(e.item.id, e.item.tool), None)>>]

\* map_line
ChatChunks(a, e) ==
    CASE e.type = "delta" /\ e.item.type = "message" ->
             [a |-> a, chunks |-> Each(LAMBDA t : Frame("delta", 0, Text(t), None), e.item.texts)]
      [] e.type = "added" /\ IsFunctionCall(e.item) -> ChatCallAdded(a, e)
      [] e.type = "delta" /\ IsFunctionCall(e.item) ->
             [a |-> a, chunks |-> <<Frame("delta", a.calls[e.index], Call(e.item.id, e.item.tool), None)>>]
      [] e.type = "terminal" /\ e.outcome = "completed" -> FinishChat(a, e.output)
      [] e.type = "[DONE]" -> FinishChat(a, <<>>)
      [] OTHER -> [a |-> a, chunks |-> <<>>]
=============================================================================
