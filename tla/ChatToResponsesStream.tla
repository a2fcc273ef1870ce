------------------------ MODULE ChatToResponsesStream ------------------------
(***************************************************************************)
(* The adapter of local/responses.rs that turns the chunks of an upstream  *)
(* chat-completions stream into the events of the Responses API.  The Rust *)
(* struct is the record `a'; each method of the struct is an operator that *)
(* returns a result [ok, a, ev]: the Result's discriminant, the struct     *)
(* after the call and the events the call returns.                         *)
(*                                                                         *)
(* Text and tool arguments are sequences of fragments.  A chunk is one of: *)
(*   malformed  any shape the adapter rejects: no JSON, a choice or a delta*)
(*              that is no object, bad usage counts, a bad tool fragment   *)
(*   bare       no "choices" key            empty   "choices": []          *)
(*   choice     one choice: text, tool-call deltas and a finish reason     *)
(* An event stands for the SSE frames the code emits together:             *)
(* created + in_progress, item added + content part added, and the text or *)
(* arguments done + part done + item done of one item.                     *)
(***************************************************************************)
EXTENDS Integers, Sequences, FiniteSets, SequencesExt

CONSTANTS
    ToolKind,     \* function from the tool names of the request to their kind
    CustomValid   \* the fragment sequences that parse as {"input": string}

None == "none"

ASSUME ToolAssumption ==
    /\ ToolKind \in [DOMAIN ToolKind -> {"function", "custom"}]
    /\ DOMAIN ToolKind \subseteq STRING \ {None}

NoIndex == -1

Created                 == [type |-> "created"]
Added(i, kind, id)      == [type |-> "added", index |-> i, kind |-> kind, id |-> id, body |-> <<>>]
Delta(i, frags)         == [type |-> "delta", index |-> i, body |-> frags]
Done(i, kind, id, frags) == [type |-> "done", index |-> i, kind |-> kind, id |-> id, body |-> frags]
Terminal(outcome, status, output) ==
    [type |-> "terminal", outcome |-> outcome, status |-> status, output |-> output]

NewAdapter ==
    [started |-> FALSE, finishSeen |-> FALSE, terminal |-> FALSE, status |-> "in_progress",
     text |-> <<>>, textIndex |-> NoIndex, textDone |-> FALSE,
     toolMap |-> <<>>, calls |-> <<>>, nextIndex |-> 0, usage |-> FALSE]

NewCall(out) ==
    [out |-> out, id |-> None, name |-> None, args |-> <<>>, added |-> FALSE, done |-> FALSE]

Ok(a, ev) == [ok |-> TRUE,  a |-> a, ev |-> ev]
Err(a)    == [ok |-> FALSE, a |-> a, ev |-> <<>>]

\* `?' between two steps that both emit: an error drops what was collected.
Then(r, Step(_)) ==
    LET next == Step(r.a)
    IN  IF ~r.ok THEN r
        ELSE IF next.ok THEN Ok(next.a, r.ev \o next.ev) ELSE next
-----------------------------------------------------------------------------
Item(kind, id, frags) == [kind |-> kind, id |-> id, body |-> frags]

TextItem(a)    == Item("message", None, a.text)
CallItem(call) == Item(ToolKind[call.name], call.id, call.args)

\* Each item of output_items with its output index: the text item and the
\* calls that have an id and a kind.
Listed(a) ==
    LET known == {i \in DOMAIN a.calls : a.calls[i].id # None /\ a.calls[i].name # None}
    IN  {<<i, TextItem(a)>> : i \in {a.textIndex} \ {NoIndex}}
            \union {<<a.calls[i].out, CallItem(a.calls[i])>> : i \in known}

\* Mutant: the text item comes first, whenever it was announced.
OutputItemsTextFirst(a) ==
    (IF a.textIndex = NoIndex THEN <<>> ELSE <<TextItem(a)>>)
        \o [i \in DOMAIN a.calls |-> CallItem(a.calls[i])]

\* output_items: what is listed, sorted by output index.
OutputItems(a) ==
    LET Place(x) == Cardinality({y \in Listed(a) : y[1] <= x[1]})
    IN  [k \in 1..Cardinality(Listed(a)) |-> (CHOOSE x \in Listed(a) : Place(x) = k)[2]]

IsCompleted(a) == a.terminal /\ a.status = "completed"

\* What a failing chunk half-did shows only in the output of response.failed,
\* which is not modelled.
FailedEvent(a) ==
    IF a.terminal THEN Ok(a, <<>>)
    ELSE Ok([a EXCEPT !.terminal = TRUE, !.status = "failed"],
            <<Terminal("failed", "failed", <<>>)>>)

CompleteEvent(a) ==
    LET status == IF a.status = "in_progress" THEN "completed" ELSE a.status
    IN  IF a.terminal THEN Ok(a, <<>>)
        ELSE Ok([a EXCEPT !.terminal = TRUE, !.status = status],
                <<Terminal(IF status = "incomplete" THEN "incomplete" ELSE "completed",
                           status, OutputItems(a))>>)

StartEvents(a) ==
    IF a.started THEN Ok(a, <<>>) ELSE Ok([a EXCEPT !.started = TRUE], <<Created>>)

TextDeltaEvents(a, frag) ==
    LET fresh == a.textIndex = NoIndex
        i     == IF fresh THEN a.nextIndex ELSE a.textIndex
    IN  Ok([a EXCEPT !.textIndex = i,
                     !.nextIndex = IF fresh THEN @ + 1 ELSE @,
                     !.text = Append(@, frag)],
           (IF a.text = <<>> THEN <<Added(i, "message", None)>> ELSE <<>>)
               \o <<Delta(i, <<frag>>)>>)
-----------------------------------------------------------------------------
With(f, key, value) ==
    [x \in DOMAIN f \union {key} |-> IF x = key THEN value ELSE f[x]]

\* Mutant: a fragment without metadata belongs to the latest call.
LocalToolIndexLatest(a, d) ==
    IF d.ix \in DOMAIN a.toolMap THEN Ok(a, <<>>)
    ELSE IF ~d.typed /\ d.id = None /\ d.name = None
         THEN IF a.calls = <<>> THEN Err(a)
              ELSE Ok([a EXCEPT !.toolMap = With(@, d.ix, Len(a.calls))], <<>>)
    ELSE Ok([a EXCEPT !.toolMap = With(@, d.ix, Len(a.calls) + 1),
                      !.calls = Append(@, NewCall(a.nextIndex)),
                      !.nextIndex = @ + 1], <<>>)

\* local_tool_index: dense local positions behind the upstream's own indices.
LocalToolIndex(a, d) ==
    IF d.ix \in DOMAIN a.toolMap THEN Ok(a, <<>>)
    ELSE IF ~d.typed /\ d.id = None /\ d.name = None THEN Err(a)
    ELSE Ok([a EXCEPT !.toolMap = With(@, d.ix, Len(a.calls) + 1),
                      !.calls = Append(@, NewCall(a.nextIndex)),
                      !.nextIndex = @ + 1], <<>>)

Conflicts(new, old) == new # None /\ old # None /\ new # old

ApplyToolDelta(call, d) ==
    [call EXCEPT !.id   = IF @ = None THEN d.id ELSE @,
                 !.name = IF @ = None THEN d.name ELSE @,
                 !.args = IF d.frag = None THEN @ ELSE Append(@, d.frag)]

\* Mutant: an item is announced without the arguments buffered before.
ToolDeltaEventsUnbuffered(a, d) ==
    LET r     == LocalToolIndex(a, d)
        n     == r.a.toolMap[d.ix]
        old   == r.a.calls[n]
        call  == ApplyToolDelta(old, d)
        ready == call.id # None /\ call.name # None
        delta == IF d.frag = None THEN <<>> ELSE <<Delta(call.out, <<d.frag>>)>>
    IN  IF d.name # None /\ d.name \notin DOMAIN ToolKind THEN Err(a)
        ELSE IF ~r.ok THEN r
        ELSE IF Conflicts(d.id, old.id) \/ Conflicts(d.name, old.name) THEN Err(a)
        ELSE Ok([r.a EXCEPT !.calls[n] = [call EXCEPT !.added = old.added \/ ready]],
                IF old.added THEN delta
                ELSE IF ready THEN <<Added(call.out, ToolKind[call.name], call.id)>> \o delta
                ELSE <<>>)

\* The item is announced once its id and its kind are known, with the
\* arguments buffered until then; later fragments are passed on one by one.
ToolDeltaEvents(a, d) ==
    LET r     == LocalToolIndex(a, d)
        n     == r.a.toolMap[d.ix]
        old   == r.a.calls[n]
        call  == ApplyToolDelta(old, d)
        ready == call.id # None /\ call.name # None
        frags == IF old.added THEN (IF d.frag = None THEN <<>> ELSE <<d.frag>>) ELSE call.args
        delta == IF frags = <<>> THEN <<>> ELSE <<Delta(call.out, frags)>>
    IN  IF d.name # None /\ d.name \notin DOMAIN ToolKind THEN Err(a)
        ELSE IF ~r.ok THEN r
        ELSE IF Conflicts(d.id, old.id) \/ Conflicts(d.name, old.name) THEN Err(a)
        ELSE Ok([r.a EXCEPT !.calls[n] = [call EXCEPT !.added = old.added \/ ready]],
                IF old.added THEN delta
                ELSE IF ready THEN <<Added(call.out, ToolKind[call.name], call.id)>> \o delta
                ELSE <<>>)
-----------------------------------------------------------------------------
ValidToolCalls(a) ==
    /\ \A i \in DOMAIN a.calls : a.calls[i].added
    /\ \A i, j \in DOMAIN a.calls :
          i < j => a.calls[i].out < a.calls[j].out /\ a.calls[i].id # a.calls[j].id

CustomInputOk(call) == ToolKind[call.name] = "custom" => call.args \in CustomValid

CallDone(call) == Done(call.out, ToolKind[call.name], call.id, call.args)

FinishEvents(a) ==
    LET text  == IF a.textIndex = NoIndex \/ a.textDone THEN <<>>
                 ELSE <<Done(a.textIndex, "message", None, a.text)>>
        calls == [i \in DOMAIN a.calls |->
                    IF a.calls[i].done THEN <<>> ELSE <<CallDone(a.calls[i])>>]
    IN  IF ~ValidToolCalls(a) \/ \E i \in DOMAIN a.calls : ~a.calls[i].done /\ ~CustomInputOk(a.calls[i])
        THEN Err(a)
        ELSE Ok([a EXCEPT !.textDone = a.textIndex # NoIndex,
                          !.calls = [i \in DOMAIN @ |-> [@[i] EXCEPT !.done = TRUE]]],
                text \o FlattenSeq(calls))

MapFinishReason(a, finish) ==
    IF finish = None THEN Ok(a, <<>>)
    ELSE IF finish = "unsupported" THEN Err(a)
    ELSE FinishEvents([a EXCEPT !.finishSeen = TRUE,
                                !.status = IF finish = "length" THEN "incomplete" ELSE "completed"])

MapChunkUsage(a, c) ==
    [a EXCEPT !.usage = IF c.usage = "absent" THEN @ ELSE c.usage = "counts"]

\* The loop over the tool-call deltas of a choice: what has become of r after
\* the first n of them.
AfterCalls(r, ds) ==
    LET after[n \in 0..Len(ds)] ==
            IF n = 0 THEN r ELSE Then(after[n-1], LAMBDA x : ToolDeltaEvents(x, ds[n]))
    IN  after[Len(ds)]

MapChoice(a, c) ==
    LET texts == IF c.text = None THEN Ok(a, <<>>) ELSE TextDeltaEvents(a, c.text)
    IN  Then(AfterCalls(texts, c.calls), LAMBDA x : MapFinishReason(x, c.finish))

MapChunkChoices(a, c) ==
    CASE c.kind = "bare"   -> IF c.usage = "absent" THEN Err(a) ELSE Ok(a, <<>>)
      [] c.kind = "empty"  -> Ok(a, <<>>)
      [] c.kind = "choice" -> MapChoice(a, c)

MapChunkEvents(a, c) ==
    LET mapped == Then(StartEvents(a), LAMBDA x : MapChunkChoices(MapChunkUsage(x, c), c))
    IN  Then(mapped, LAMBDA x : IF x.finishSeen /\ x.usage THEN CompleteEvent(x) ELSE Ok(x, <<>>))

\* After the finish reason only a usage chunk is accepted.
MapPostFinishChunk(a, c) ==
    IF c.kind = "choice" \/ c.usage = "absent" THEN FailedEvent(a)
    ELSE IF c.usage = "null" THEN Ok([a EXCEPT !.usage = FALSE], <<>>)
    ELSE CompleteEvent([a EXCEPT !.usage = TRUE])

OrFailed(a, r) == IF r.ok THEN r ELSE FailedEvent(a)

\* Mutant: [DONE] ends a stream well, finish reason or not.
MapDoneLineTrusting(a) == OrFailed(a, Then(FinishEvents(a), CompleteEvent))

MapDoneLine(a) ==
    IF ~a.finishSeen THEN FailedEvent(a)
    ELSE OrFailed(a, Then(FinishEvents(a), CompleteEvent))

\* Mutant: lines after the terminal event are mapped too.
MapLineAfterTerminal(a, c) ==
    CASE c.kind = "[DONE]"    -> MapDoneLine(a)
      [] c.kind = "malformed" -> FailedEvent(a)
      [] OTHER -> IF a.finishSeen THEN MapPostFinishChunk(a, c)
                  ELSE OrFailed(a, MapChunkEvents(a, c))

\* map_line for a data line: `c' is a chunk, or the [DONE] marker.
MapLine(a, c) ==
    IF a.terminal THEN Ok(a, <<>>)
    ELSE CASE c.kind = "[DONE]"    -> MapDoneLine(a)
           [] c.kind = "malformed" -> FailedEvent(a)
           [] OTHER -> IF a.finishSeen THEN MapPostFinishChunk(a, c)
                       ELSE OrFailed(a, MapChunkEvents(a, c))
=============================================================================
