------------------------ MODULE MCResponsesStreaming ------------------------
(* Small instances of ResponsesStreaming: one function tool, one custom tool *)
(* whose arguments are the two fragments "x" "y", and an unknown tool name.  *)
EXTENDS ResponsesStreaming

MCToolKind == [f |-> "function", k |-> "custom"]
MCCustomValid == {<<"x", "y">>}

Chunk(kind, usage, text, calls, finish) ==
    [kind |-> kind, usage |-> usage, text |-> text, calls |-> calls, finish |-> finish]
Line(kind, usage) == Chunk(kind, usage, None, <<>>, None)
Call(ix, typed, id, name, frag) ==
    [ix |-> ix, typed |-> typed, id |-> id, name |-> name, frag |-> frag]
OneCall(d) == Chunk("choice", "absent", None, <<d>>, None)
Finish(usage, reason) == Chunk("choice", usage, None, <<>>, reason)

Framing ==
    {Line("[DONE]", "absent"), Line("malformed", "absent"), Line("bare", "absent"),
     Line("bare", "counts"), Line("empty", "null"), Line("empty", "counts"),
     Finish("absent", "stop"), Finish("counts", "stop"), Finish("absent", "length"),
     Finish("absent", "unsupported")}

Texts == {Chunk("choice", "absent", t, <<>>, None) : t \in {"x", "y"}}

\* A chunk that carries text, two parallel calls and the finish reason at once.
Combined ==
    Chunk("choice", "counts", "x",
          <<Call("u0", FALSE, "a", "f", "x"), Call("u1", FALSE, "b", "f", "y")>>, "stop")

\* Every way to end a stream, around few tool calls.
FramingChunks ==
    Framing \union Texts \union {Combined}
    \union {OneCall(Call("u0", FALSE, "a", "f", "x")), OneCall(Call("u0", TRUE, None, None, None)),
            OneCall(Call("u0", FALSE, None, None, "y")), OneCall(Call("u1", FALSE, "b", "k", "x"))}

\* Every order in which the metadata and the arguments of two
\* parallel calls can arrive, ended by a plain finish.
Deltas ==
    {Call("u0", FALSE, id, name, frag) :
        id \in {None, "a"}, name \in {None, "f", "k"}, frag \in {None, "x", "y"}}
    \union {Call("u1", FALSE, id, name, frag) :
        id \in {None, "a", "b"}, name \in {None, "f"}, frag \in {None, "y"}}
    \union {Call(ix, TRUE, None, None, None) : ix \in {"u0", "u1"}}
    \union {Call("u0", FALSE, "a", "unknown", "x")}

ToolChunks ==
    {OneCall(d) : d \in Deltas}
    \union {Chunk("choice", "absent", "x", <<>>, None), Finish("counts", "stop")}

\* The chat path and a search's answer end in every way; the local path has
\* every order of two calls' pieces, and an end that is understood.
MCChunks ==
    [local  |-> {c \in ToolChunks \union Framing : c.kind \in {"choice", "[DONE]"} /\ c.finish # "unsupported"},
     chat   |-> {c \in FramingChunks : c.kind # "none"},
     search |-> {c \in FramingChunks : c.text = None}]

\* For the run that only looks at the rounds of searching.
NoChunks == [search |-> {}]

\* What a probe may be answered with.  A turn without searches is a text, a
\* text and a call, a cut text, nothing, or one that is refused; a text may
\* promise a search, with or without a call of the client's own tool.
Query(id, query) == [id |-> id, name |-> SearchTool, query |-> query]
OwnCall(id)      == [id |-> id, name |-> "f", query |-> ""]
Reply(calls, narrates, turn) ==
    [kind |-> "message", calls |-> calls, narrates |-> narrates, turn |-> turn]
Turn(status, output) == [status |-> status, output |-> output]
Text == Item("message", None, <<"x">>)

MCAnswers ==
    {[kind |-> "failed"], [kind |-> "unreadable"],
     Reply(<<>>, FALSE, Turn("completed", <<Text>>)),
     Reply(<<>>, FALSE, Turn("incomplete", <<Text>>)),
     Reply(<<>>, FALSE, Turn("completed", <<>>)),
     Reply(<<>>, FALSE, NoTurn),
     Reply(<<>>, TRUE, Turn("completed", <<Text>>)),
     Reply(<<OwnCall("a")>>, TRUE, Turn("completed", <<Text, Item("function", "a", <<"y">>)>>)),
     Reply(<<Query("a", "p")>>, FALSE, NoTurn),
     Reply(<<Query("a", "p"), Query("b", "q")>>, TRUE, NoTurn),
     Reply(<<OwnCall("a"), Query("b", "")>>, FALSE, NoTurn)}
=============================================================================
