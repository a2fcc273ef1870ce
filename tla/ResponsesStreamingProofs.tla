------------------------ MODULE ResponsesStreamingProofs ------------------------
(***************************************************************************)
(* Proofs about ResponsesStreaming, the adapter it streams through         *)
(* (ChatToResponsesStream) and the web search within it (WebSearch), for   *)
(* any lines, turns, tools and answers.                                    *)
(*                                                                         *)
(* The adapter comes first.  What a client makes of events is a view;      *)
(* Leads(live, s, evs, t) says that the events evs, each allowed by        *)
(* ResponsesProtocol when it comes, take a client from the view s to the   *)
(* view t.  An adapter announces a view (Matches), and a method is Good if *)
(* the events it returns lead from what was announced to what is announced *)
(* then; each method has a lemma that says so.  Holds(a, told) says that   *)
(* the adapter has the content of the lines told, call by call, in order   *)
(* and once; LineFaithful joins the two for every line of the upstream.    *)
(*                                                                         *)
(* The promises are about what the client has; the invariant StreamInv is  *)
(* about what it will have.  ToldInv says that the frames on their way     *)
(* lead the client to what the adapter has announced, so that every frame  *)
(* is allowed when it comes; SentInv that the adapter holds what the       *)
(* upstream has sent unless the stream failed.  A turn that is replayed    *)
(* has no adapter: TurnReplayed shows that its frames lead a new client to *)
(* the finished turn.                                                      *)
(*                                                                         *)
(* The search keeps its own books: SearchInv says that the conversation is *)
(* made of rounds, each with a result for every search it asked for.       *)
(***************************************************************************)
EXTENDS ResponsesStreaming, SequenceTheorems, FiniteSetTheorems, WellFoundedInduction, TLAPS

-----------------------------------------------------------------------------
(* The adapter.                                                             *)

\* A set of naturals with a member has a least one.
LEMMA LeastNat ==
    ASSUME NEW S \in SUBSET Nat, NEW k \in S
    PROVE  \E m \in S : \A n \in S : m <= n
<1>1. PICK m \in S : \A n \in S : <<n, m>> \notin OpToRel(<, Nat)
  BY NatLessThanWellFounded, WFMin
<1>2. \A n \in S : ~(n < m)
  BY <1>1 DEF OpToRel
<1> QED
  BY <1>2

\* f[i] is what the first i sequences of ss make together.
PartsJoined(ss, n, f) == f = [i \in 1..n |-> IF i = 1 THEN ss[i] ELSE f[i-1] \o ss[i]]

\* What the first n sequences make together is extended by one more.
LEMMA PrefixesGrow ==
    ASSUME NEW ss, NEW n \in Nat, NEW f, PartsJoined(ss, n, f)
    PROVE  \E g : PartsJoined(ss, n + 1, g)
<1> DEFINE m == n + 1
           g == [i \in 1..m |-> IF i = m THEN (IF i = 1 THEN ss[i] ELSE f[i-1] \o ss[i]) ELSE f[i]]
<1>1. ASSUME NEW i \in 1..m PROVE g[i] = IF i = 1 THEN ss[i] ELSE g[i-1] \o ss[i]
  <2>1. CASE i = m
    <3>1. i # 1 => g[i-1] = f[i-1]
      BY <2>1
    <3> QED
      BY <2>1, <3>1
  <2>2. CASE i # m
    <3>1. g[i] = f[i] /\ i \in 1..n
      BY <2>2
    <3>2. i # 1 => g[i-1] = f[i-1]
      BY <2>2
    <3>3. f[i] = IF i = 1 THEN ss[i] ELSE f[i-1] \o ss[i]
      BY <3>1 DEF PartsJoined
    <3> QED
      BY <3>1, <3>2, <3>3
  <2> QED
    BY <2>1, <2>2
<1>2. g = [i \in 1..m |-> g[i]]
  OBVIOUS
<1> HIDE DEF g
<1>3. g = [i \in 1..m |-> IF i = 1 THEN ss[i] ELSE g[i-1] \o ss[i]]
  BY <1>1, <1>2
<1>4. PartsJoined(ss, m, g)
  BY <1>3 DEF PartsJoined
<1> QED
  BY <1>4

\* For every sequence of sequences there is such a function.
LEMMA PrefixesExist ==
    ASSUME NEW ss, NEW n \in Nat
    PROVE  \E f : PartsJoined(ss, n, f)
<1> DEFINE Bad == {m \in Nat : ~\E f : PartsJoined(ss, m, f)}
<1>1. SUFFICES ASSUME n \in Bad PROVE FALSE
  OBVIOUS
<1>2. PICK m \in Bad : \A k \in Bad : m <= k
  BY <1>1, LeastNat
<1>3. m # 0
  <2>1. PartsJoined(ss, 0, [i \in 1..0 |-> i])
    BY DEF PartsJoined
  <2> QED
    BY <2>1
<1>4. m - 1 \in Nat /\ m - 1 \notin Bad
  BY <1>2, <1>3
<1>5. PICK f : PartsJoined(ss, m - 1, f)
  BY <1>4
<1>6. \E g : PartsJoined(ss, m - 1 + 1, g)
  BY <1>4, <1>5, PrefixesGrow
<1> QED
  BY <1>6, <1>2

\* Its two equations.
LEMMA PrefixesUnfold ==
    ASSUME NEW ss, NEW n \in Nat, NEW f, PartsJoined(ss, n, f), NEW i \in 1..n
    PROVE  f[i] = IF i = 1 THEN ss[i] ELSE f[i-1] \o ss[i]
  BY DEF PartsJoined

\* Two functions or sequences agree on the first n.
SameUpTo(f, g, n) == \A i \in 1..n : g[i] = f[i]

\* Two such functions agree where both are defined.
LEMMA PrefixesAgree ==
    ASSUME NEW ss, NEW tt, NEW n \in Nat, NEW m \in Nat, n <= m, SameUpTo(ss, tt, n),
           NEW f, PartsJoined(ss, n, f), NEW g, PartsJoined(tt, m, g)
    PROVE  SameUpTo(f, g, n)
<1> USE DEF SameUpTo
<1> DEFINE Bad == {i \in 1..n : g[i] # f[i]}
<1>1. SUFFICES ASSUME NEW k \in Bad PROVE FALSE
  OBVIOUS
<1>2. PICK i \in Bad : \A j \in Bad : i <= j
  <2>1. Bad \in SUBSET Nat
    OBVIOUS
  <2> QED
    BY <1>1, <2>1, LeastNat
<1>3. i \in 1..n /\ i \in 1..m
  BY <1>2
<1>4. f[i] = IF i = 1 THEN ss[i] ELSE f[i-1] \o ss[i]
  BY <1>3, PrefixesUnfold
<1>5. g[i] = IF i = 1 THEN tt[i] ELSE g[i-1] \o tt[i]
  BY <1>3, PrefixesUnfold
<1>6. i # 1 => i-1 \in 1..n /\ i-1 \notin Bad
  BY <1>2
<1> QED
  BY <1>2, <1>3, <1>4, <1>5, <1>6

\* FlattenSeq is what all of the sequences make together.
LEMMA FlattenIsPrefix ==
    ASSUME NEW ss, Len(ss) \in Nat, Len(ss) # 0
    PROVE  \E f : PartsJoined(ss, Len(ss), f) /\ FlattenSeq(ss) = f[Len(ss)]
<1> DEFINE f == CHOOSE f : PartsJoined(ss, Len(ss), f)
<1>1. PartsJoined(ss, Len(ss), f)
  BY PrefixesExist
<1>2. FlattenSeq(ss) = f[Len(ss)]
  BY DEF FlattenSeq, PartsJoined
<1> QED
  BY <1>1, <1>2

\* No sequences make nothing.
LEMMA FlattenEmpty == FlattenSeq(<<>>) = <<>>
  BY DEF FlattenSeq

\* A further sequence is put behind what the others make together.
LEMMA FlattenAppend ==
    ASSUME NEW S, NEW ss \in Seq(Seq(S)), NEW s \in Seq(S)
    PROVE  FlattenSeq(Append(ss, s)) = FlattenSeq(ss) \o s
<1> DEFINE tt == Append(ss, s)
           n == Len(ss)
<1>0. /\ Len(tt) = n + 1 /\ n \in Nat /\ tt[n + 1] = s
      /\ \A i \in 1..n : tt[i] = ss[i]
  OBVIOUS
<1>1. n = 0 => ss = <<>>
  OBVIOUS
<1>2. <<>> \o s = s
  OBVIOUS
<1> SUFFICES FlattenSeq(tt) = FlattenSeq(ss) \o s
  OBVIOUS
<1> HIDE DEF tt
<1>3. PICK g : PartsJoined(tt, Len(tt), g) /\ FlattenSeq(tt) = g[Len(tt)]
  BY <1>0, FlattenIsPrefix
<1>4. g[n + 1] = IF n + 1 = 1 THEN tt[n + 1] ELSE g[n + 1 - 1] \o tt[n + 1]
  <2>1. n + 1 \in 1..Len(tt)
    BY <1>0
  <2> QED
    BY <1>0, <1>3, <2>1, PrefixesUnfold
<1>5. CASE n = 0
  BY <1>0, <1>1, <1>2, <1>3, <1>4, <1>5, FlattenEmpty
<1>6. CASE n # 0
  <2>1. PICK f : PartsJoined(ss, n, f) /\ FlattenSeq(ss) = f[n]
    BY <1>0, <1>6, FlattenIsPrefix
  <2>2. SameUpTo(f, g, n)
    <3> DEFINE m == Len(tt)
    <3>1. m \in Nat /\ n \in Nat /\ n <= m
      BY <1>0
    <3>2. SameUpTo(ss, tt, n)
      BY <1>0 DEF SameUpTo
    <3>3. PartsJoined(tt, m, g)
      BY <1>3
    <3>4. PartsJoined(ss, n, f)
      BY <2>1
    <3> HIDE DEF n, m
    <3> QED
      BY <3>1, <3>2, <3>3, <3>4, PrefixesAgree
  <2>3. n + 1 - 1 = n /\ n + 1 # 1 /\ Len(tt) = n + 1
    BY <1>0, <1>6
  <2>4. g[n + 1] = g[n] \o tt[n + 1]
    BY <1>4, <2>3
  <2>5. g[n] = f[n]
    <3>1. n \in 1..n
      BY <1>0, <1>6
    <3> QED
      BY <2>2, <3>1 DEF SameUpTo
  <2> HIDE DEF n
  <2> QED
    BY <1>0, <1>3, <2>1, <2>5, <2>3, <2>4
<1> QED
  BY <1>5, <1>6

\* Elements of the parts are the elements of the whole.
LEMMA FlattenType ==
    ASSUME NEW S, NEW ss \in Seq(Seq(S))
    PROVE  FlattenSeq(ss) \in Seq(S)
<1> DEFINE n == Len(ss)
<1>0. n \in Nat /\ \A i \in 1..n : ss[i] \in Seq(S)
  OBVIOUS
<1>1. CASE n = 0
  <2>1. ss = <<>> /\ <<>> \in Seq(S)
    BY <1>1
  <2> QED
    BY <2>1, FlattenEmpty
<1>2. CASE n # 0
  <2>1. PICK f : PartsJoined(ss, n, f) /\ FlattenSeq(ss) = f[n]
    BY <1>0, <1>2, FlattenIsPrefix
  <2> DEFINE Bad == {i \in 1..n : f[i] \notin Seq(S)}
  <2>2. SUFFICES ASSUME n \in Bad PROVE FALSE
    BY <1>0, <1>2, <2>1
  <2>3. PICK i \in Bad : \A j \in Bad : i <= j
    <3>1. Bad \in SUBSET Nat
      OBVIOUS
    <3> QED
      BY <2>2, <3>1, LeastNat
  <2>4. f[i] = IF i = 1 THEN ss[i] ELSE f[i-1] \o ss[i]
    BY <1>0, <2>1, <2>3, PrefixesUnfold
  <2>5. i # 1 => i-1 \in 1..n /\ i-1 \notin Bad
    BY <1>0, <2>3
  <2>6. ss[i] \in Seq(S)
    BY <1>0, <2>3
  <2>7. i # 1 => f[i-1] \in Seq(S)
    BY <2>5
  <2>8. CASE i = 1
    BY <2>3, <2>4, <2>6, <2>8
  <2>9. CASE i # 1
    <3>1. f[i-1] \o ss[i] \in Seq(S)
      BY <2>6, <2>7, <2>9
    <3> QED
      BY <2>3, <2>4, <2>9, <3>1
  <2> QED
    BY <2>8, <2>9
<1> QED
  BY <1>1, <1>2
-----------------------------------------------------------------------------
\* The prover does not know that a literal is a string.
Strings ==
    STRING \union {None, "message", "function", "custom", "in_progress", "completed", "incomplete", "failed"}

\* The items of the client's response.
Items == [kind : Strings, id : Strings, body : Seq(STRING)]

\* The events on their way to the client.
Events ==
    [type : {"created"}]
        \union [type : {"added", "done"}, index : Nat, kind : Strings, id : Strings, body : Seq(STRING)]
        \union [type : {"delta"}, index : Nat, body : Seq(STRING)]
        \union [type : {"terminal"}, outcome : {"completed", "incomplete", "failed"},
                 status : Strings, output : Seq(Items)]

OpenIn(s, i) == i \in DOMAIN s.items /\ i \notin s.finished

\* What the client has put together once it has received e.
Shown(s, e) ==
    [opened   |-> IF e.type = "created" THEN TRUE ELSE s.opened,
     items    |-> IF e.type \in {"added", "done"} THEN
                      With(s.items, e.index, Item(e.kind, e.id, e.body))
                  ELSE IF e.type = "delta" THEN
                      [s.items EXCEPT ![e.index].body = @ \o e.body]
                  ELSE s.items,
     finished |-> IF e.type = "done" THEN s.finished \union {e.index} ELSE s.finished,
     outcome  |-> IF e.type = "terminal" THEN e.outcome ELSE s.outcome,
     result   |-> IF e.type = "terminal" THEN [status |-> e.status, output |-> e.output] ELSE s.result]

\* The items are what the final list of the output has, in its order.
IsListing(output, its) ==
    /\ DOMAIN its = {k - 1 : k \in DOMAIN output}
    /\ \A k \in DOMAIN output : output[k] = its[k - 1]

\* The protocol allows e next, as the client's instance of ResponsesProtocol has it.
Accepts(live, s, e) ==
    /\ s.outcome = "none"
    /\ e.type = "created" => ~s.opened
    /\ e.type = "added" => s.opened /\ e.index \notin DOMAIN s.items
    /\ e.type = "delta" => OpenIn(s, e.index)
    /\ e.type = "done" =>
          /\ OpenIn(s, e.index)
          /\ live => s.items[e.index] = Item(e.kind, e.id, e.body)
    /\ e.type = "terminal" /\ e.outcome # "failed" =>
          s.opened /\ s.finished = DOMAIN s.items /\ IsListing(e.output, s.items)

\* run is the course of the client through the events evs, one view after each.
Run(live, evs, run) ==
    \A k \in 1..Len(evs) :
        Accepts(live, run[k - 1], evs[k]) /\ run[k] = Shown(run[k - 1], evs[k])

\* The events lead the client from s to t, each allowed when it comes.
Leads(live, s, evs, t) ==
    /\ evs \in Seq(Events)
    /\ \E run : run[0] = s /\ run[Len(evs)] = t /\ Run(live, evs, run)
-----------------------------------------------------------------------------
\* No events lead nowhere.
LEMMA LeadsNowhere ==
    ASSUME NEW live, NEW s, NEW t
    PROVE  Leads(live, s, <<>>, t) <=> s = t
<1>1. ASSUME s = t PROVE Leads(live, s, <<>>, t)
  <2> DEFINE run == [k \in {0} |-> s]
  <2>1. run[0] = s /\ run[Len(<<>>)] = t /\ Run(live, <<>>, run)
    BY <1>1 DEF Run
  <2>2. <<>> \in Seq(Events)
    OBVIOUS
  <2> QED
    BY <2>1, <2>2 DEF Leads
<1>2. ASSUME Leads(live, s, <<>>, t) PROVE s = t
  BY <1>2 DEF Leads
<1> QED
  BY <1>1, <1>2

\* One allowed event leads where it shows.
LEMMA LeadsByOne ==
    ASSUME NEW live, NEW s, NEW e \in Events, Accepts(live, s, e)
    PROVE  Leads(live, s, <<e>>, Shown(s, e))
<1> DEFINE run == [k \in {0, 1} |-> IF k = 0 THEN s ELSE Shown(s, e)]
<1>1. <<e>> \in Seq(Events) /\ Len(<<e>>) = 1 /\ <<e>>[1] = e
  OBVIOUS
<1>2. run[0] = s /\ run[1] = Shown(s, e)
  OBVIOUS
<1> HIDE DEF run
<1>3. Run(live, <<e>>, run)
  <2> SUFFICES ASSUME NEW k \in 1..1
               PROVE  Accepts(live, run[k - 1], <<e>>[k]) /\ run[k] = Shown(run[k - 1], <<e>>[k])
    BY <1>1 DEF Run
  <2>1. k = 1 /\ k - 1 = 0
    OBVIOUS
  <2> QED
    BY <1>1, <1>2, <2>1
<1> QED
  BY <1>1, <1>2, <1>3 DEF Leads

\* Events after events.
LEMMA LeadsOn ==
    ASSUME NEW live, NEW s, NEW t, NEW u, NEW one, NEW two,
           Leads(live, s, one, t), Leads(live, t, two, u)
    PROVE  Leads(live, s, one \o two, u)
<1>1. PICK f : f[0] = s /\ f[Len(one)] = t /\ Run(live, one, f)
  BY DEF Leads
<1>2. PICK g : g[0] = t /\ g[Len(two)] = u /\ Run(live, two, g)
  BY DEF Leads
<1> DEFINE m == Len(one)
           n == Len(two)
           run == [k \in 0..(m + n) |-> IF k <= m THEN f[k] ELSE g[k - m]]
<1>3. m \in Nat /\ n \in Nat
  BY DEF Leads
<1>4. /\ one \o two \in Seq(Events)
      /\ Len(one \o two) = m + n
      /\ \A k \in 1..m : (one \o two)[k] = one[k]
      /\ \A k \in (m + 1)..(m + n) : (one \o two)[k] = two[k - m]
  BY DEF Leads
<1> HIDE DEF m, n
<1>5. run[0] = s /\ run[m + n] = u
  BY <1>1, <1>2, <1>3 DEF m, n
<1>6. ASSUME NEW k \in 1..(m + n)
      PROVE  /\ Accepts(live, run[k - 1], (one \o two)[k])
             /\ run[k] = Shown(run[k - 1], (one \o two)[k])
  <2>1. CASE k <= m
    <3>1. run[k] = f[k] /\ run[k - 1] = f[k - 1] /\ k \in 1..m
      BY <1>3, <2>1
    <3> HIDE DEF run
    <3> QED
      BY <1>1, <1>4, <3>1 DEF Run, m
  <2>2. CASE k > m
    <3>1. /\ run[k] = g[k - m] /\ k - m \in 1..n /\ k \in (m + 1)..(m + n)
          /\ (k - m) - 1 = (k - 1) - m
      BY <1>3, <2>2
    <3>2. run[k - 1] = g[(k - m) - 1]
      <4>1. CASE k - 1 = m
        <5>1. run[k - 1] = f[m] /\ (k - m) - 1 = 0
          BY <1>3, <4>1
        <5> HIDE DEF run
        <5> QED
          BY <1>1, <1>2, <5>1 DEF m
      <4>2. CASE k - 1 # m
        BY <1>3, <2>2, <4>2
      <4> QED
        BY <4>1, <4>2
    <3> HIDE DEF run
    <3>3. Accepts(live, g[(k - m) - 1], two[k - m]) /\ g[k - m] = Shown(g[(k - m) - 1], two[k - m])
      BY <1>2, <3>1 DEF Run, n
    <3> QED
      BY <1>4, <3>1, <3>2, <3>3
  <2>3. k <= m \/ k > m
    BY <1>3
  <2> HIDE DEF run
  <2> QED
    BY <2>1, <2>2, <2>3
<1> HIDE DEF run
<1> QED
  BY <1>4, <1>5, <1>6 DEF Leads, Run

\* Of events that lead to t the first is allowed, and the rest lead on.
LEMMA LeadsFirst ==
    ASSUME NEW live, NEW s, NEW t, NEW evs, Leads(live, s, evs, t), evs # <<>>
    PROVE  /\ Head(evs) \in Events
           /\ Accepts(live, s, Head(evs))
           /\ Leads(live, Shown(s, Head(evs)), Tail(evs), t)
<1>1. PICK f : f[0] = s /\ f[Len(evs)] = t /\ Run(live, evs, f)
  BY DEF Leads
<1> DEFINE n == Len(evs)
           run == [k \in 0..(n - 1) |-> f[k + 1]]
<1>2. /\ n \in Nat /\ n >= 1 /\ Head(evs) = evs[1] /\ Head(evs) \in Events
      /\ Tail(evs) \in Seq(Events) /\ Len(Tail(evs)) = n - 1
      /\ \A k \in 1..(n - 1) : Tail(evs)[k] = evs[k + 1]
  BY DEF Leads
<1> HIDE DEF n
<1>3. Accepts(live, f[0], evs[1]) /\ f[1] = Shown(f[0], evs[1])
  <2>1. 1 \in 1..n /\ 1 - 1 = 0
    BY <1>2
  <2> QED
    BY <1>1, <2>1 DEF Run, n
<1>4. run[0] = f[1] /\ run[n - 1] = t
  <2>1. run[n - 1] = f[n] /\ run[0] = f[1]
    BY <1>2
  <2> QED
    BY <1>1, <2>1 DEF n
<1>5. ASSUME NEW k \in 1..(n - 1)
      PROVE  Accepts(live, run[k - 1], Tail(evs)[k]) /\ run[k] = Shown(run[k - 1], Tail(evs)[k])
  <2>1. run[k - 1] = f[k] /\ run[k] = f[k + 1] /\ k + 1 \in 1..n /\ (k + 1) - 1 = k
    BY <1>2
  <2> HIDE DEF run
  <2>2. Accepts(live, f[(k + 1) - 1], evs[k + 1]) /\ f[k + 1] = Shown(f[(k + 1) - 1], evs[k + 1])
    BY <1>1, <2>1 DEF Run, n
  <2> QED
    BY <1>2, <2>1, <2>2
<1> HIDE DEF run
<1>6. Run(live, Tail(evs), run)
  BY <1>2, <1>5 DEF Run
<1>7. Leads(live, f[1], Tail(evs), t)
  BY <1>2, <1>4, <1>6 DEF Leads
<1> QED
  BY <1>1, <1>2, <1>3, <1>7

\* Nothing but no events leads on from an end that is reached.
LEMMA LeadsNoFurther ==
    ASSUME NEW live, NEW s, NEW t, NEW evs, Leads(live, s, evs, t), s.outcome # "none"
    PROVE  evs = <<>> /\ t = s
<1>1. evs = <<>>
  BY LeadsFirst DEF Accepts
<1> QED
  BY <1>1, LeadsNowhere

\* Nothing that is accepted of a live stream is refused of a replayed one.
LEMMA LeadsReplayed ==
    ASSUME NEW s, NEW t, NEW evs, NEW live, Leads(TRUE, s, evs, t)
    PROVE  Leads(live, s, evs, t)
<1>1. \A x, e : Accepts(TRUE, x, e) => Accepts(live, x, e)
  BY DEF Accepts
<1> QED
  BY <1>1 DEF Leads, Run
-----------------------------------------------------------------------------
\* Upstream indices of calls, and where their calls are.
ToolMaps == UNION {[S -> Nat] : S \in SUBSET (STRING \ {"text"})}

\* The calls of an adapter, and adapters.
Calls ==
    [out : Nat, id : Strings, name : Strings, args : Seq(STRING), added : BOOLEAN, done : BOOLEAN]

\* An adapter's fields.
Adapters ==
    [started : BOOLEAN, finishSeen : BOOLEAN, terminal : BOOLEAN,
     status : {"in_progress", "completed", "incomplete", "failed"},
     text : Seq(STRING), textIndex : Nat \union {NoIndex}, textDone : BOOLEAN,
     toolMap : ToolMaps, calls : Seq(Calls), nextIndex : Nat, usage : BOOLEAN]

\* Every output index below the next is used by one item, and by one only.
Indexed(a) ==
    /\ a.textIndex # NoIndex => a.textIndex < a.nextIndex
    /\ \A i \in DOMAIN a.calls : a.calls[i].out < a.nextIndex /\ a.calls[i].out # a.textIndex
    /\ \A i, j \in DOMAIN a.calls : i # j => a.calls[i].out # a.calls[j].out
    /\ \A k \in Nat : k < a.nextIndex =>
          k = a.textIndex \/ \E i \in DOMAIN a.calls : a.calls[i].out = k

\* What an announcement takes.
Known(call) == call.id # None /\ call.name # None

\* An item is announced as soon as there is something to announce.
Announced(a) ==
    /\ a.text = <<>> <=> a.textIndex = NoIndex
    /\ \A i \in DOMAIN a.calls :
          /\ a.calls[i].added <=> Known(a.calls[i])
          /\ a.calls[i].name = None \/ a.calls[i].name \in DOMAIN ToolKind

\* Items are done with the finish reason, all of them.
Staged(a) ==
    /\ a.status = "failed" => a.terminal
    /\ ~a.finishSeen =>
          /\ ~a.textDone
          /\ \A i \in DOMAIN a.calls : ~a.calls[i].done
          /\ a.status = IF a.terminal THEN "failed" ELSE "in_progress"
    /\ a.finishSeen =>
          /\ a.started
          /\ a.textDone <=> a.textIndex # NoIndex
          /\ \A i \in DOMAIN a.calls : a.calls[i].done /\ a.calls[i].added
          /\ \A i, j \in DOMAIN a.calls : i # j => a.calls[i].id # a.calls[j].id
          /\ a.status # "in_progress"

\* There is one call for each of the upstream's own indices.
Mapped(a) ==
    /\ \A x \in DOMAIN a.toolMap : a.toolMap[x] \in DOMAIN a.calls
    /\ \A x, y \in DOMAIN a.toolMap : x # y => a.toolMap[x] # a.toolMap[y]
    /\ \A i \in DOMAIN a.calls : \E x \in DOMAIN a.toolMap : a.toolMap[x] = i

\* What holds of an adapter between any two of its methods.
AdapterInv(a) ==
    /\ a \in Adapters
    /\ Indexed(a)
    /\ Announced(a)
    /\ Staged(a)
    /\ Mapped(a)

\* The client with every event so far has what the adapter has announced.
Matches(a, s) ==
    /\ s.opened = a.started
    /\ \A k : k \in DOMAIN s.items <=>
          \/ k = a.textIndex /\ a.textIndex # NoIndex
          \/ \E i \in DOMAIN a.calls : a.calls[i].added /\ a.calls[i].out = k
    /\ a.textIndex # NoIndex => s.items[a.textIndex] = TextItem(a)
    /\ \A i \in DOMAIN a.calls : a.calls[i].added => s.items[a.calls[i].out] = CallItem(a.calls[i])
    /\ s.finished = IF a.finishSeen THEN DOMAIN s.items ELSE {}
    /\ s.outcome = IF a.terminal THEN a.status ELSE "none"
    /\ a.terminal /\ a.status # "failed" => s.result.output = OutputItems(a)

\* What a method returns leads the client from s to what the adapter has then.
Good(s, r) ==
    r.ok => AdapterInv(r.a) /\ \E t : Leads(TRUE, s, r.ev, t) /\ Matches(r.a, t)

\* The stream may still bring something.
Growing(a) == a.started /\ ~a.finishSeen /\ ~a.terminal

\* What the adapter holds is what the upstream sent.
Holds(a, told) ==
    /\ \A x : x \in DOMAIN told <=> x \in DOMAIN a.toolMap \/ (x = "text" /\ a.text # <<>>)
    /\ a.text # <<>> => told["text"] = a.text
    /\ \A x \in DOMAIN a.toolMap : told[x] = a.calls[a.toolMap[x]].args
-----------------------------------------------------------------------------
\* The fields of a call.
LEMMA CallsTyped ==
    ASSUME NEW a, a \in Adapters \/ AdapterInv(a)
    PROVE  a.calls \in Seq(Calls) /\ \A i \in DOMAIN a.calls : a.calls[i] \in Calls
<1>1. a.calls \in Seq(Calls)
  BY DEF AdapterInv, Adapters
<1> QED
  BY <1>1

\* A method without events that leaves the adapter as the client has it.
LEMMA GoodQuietly ==
    ASSUME NEW a, AdapterInv(a), NEW s, Matches(a, s)
    PROVE  Good(s, Ok(a, <<>>))
  BY LeadsNowhere DEF Good, Ok

\* A method with one event.
LEMMA GoodByOne ==
    ASSUME NEW a, AdapterInv(a), NEW s, NEW e \in Events, Accepts(TRUE, s, e), Matches(a, Shown(s, e))
    PROVE  Good(s, Ok(a, <<e>>))
  BY LeadsByOne DEF Good, Ok

\* Then: two methods one after the other.
LEMMA GoodThen ==
    ASSUME NEW s, NEW r, NEW next, Good(s, r),
           r.ok => \A t : Matches(r.a, t) => Good(t, next)
    PROVE  Good(s, IF ~r.ok THEN r ELSE IF next.ok THEN Ok(next.a, r.ev \o next.ev) ELSE next)
<1>1. CASE r.ok /\ next.ok
  <2>1. PICK t : Leads(TRUE, s, r.ev, t) /\ Matches(r.a, t)
    BY <1>1 DEF Good
  <2>2. AdapterInv(next.a) /\ \E u : Leads(TRUE, t, next.ev, u) /\ Matches(next.a, u)
    BY <1>1, <2>1 DEF Good
  <2>3. PICK u : Leads(TRUE, t, next.ev, u) /\ Matches(next.a, u)
    BY <2>2
  <2>4. Leads(TRUE, s, r.ev \o next.ev, u)
    BY <2>1, <2>3, LeadsOn
  <2>5. Good(s, Ok(next.a, r.ev \o next.ev))
    BY <2>2, <2>3, <2>4 DEF Good, Ok
  <2> QED
    BY <1>1, <2>5
<1> QED
  BY <1>1 DEF Good

\* The client before the first event.
EmptyView == [opened |-> FALSE, items |-> <<>>, finished |-> {}, outcome |-> "none", result |-> NoResult]

\* A new adapter fits it.
LEMMA NewAdapterGood == AdapterInv(NewAdapter) /\ Matches(NewAdapter, EmptyView)
<1>1. <<>> \in ToolMaps
  <2>1. <<>> \in [{} -> Nat]
    OBVIOUS
  <2> QED
    BY <2>1 DEF ToolMaps
<1>2. NewAdapter \in Adapters
  BY <1>1 DEF NewAdapter, Adapters, NoIndex
<1> QED
  BY <1>2 DEF NewAdapter, AdapterInv, Indexed, Announced, Staged, Mapped, Matches, NoIndex, EmptyView

\* `start' opens the response, once.
LEMMA StartGood ==
    ASSUME NEW a, AdapterInv(a), ~a.terminal, NEW s, Matches(a, s)
    PROVE  /\ Good(s, StartEvents(a))
           /\ StartEvents(a).ok
           /\ StartEvents(a).a = [a EXCEPT !.started = TRUE]
<1>1. CASE a.started
  <2>1. [a EXCEPT !.started = TRUE] = a
    BY <1>1 DEF AdapterInv, Adapters
  <2> QED
    BY <1>1, <2>1, GoodQuietly DEF StartEvents, Ok
<1>2. CASE ~a.started
  <2> DEFINE b == [a EXCEPT !.started = TRUE]
  <2>1. AdapterInv(b)
    BY DEF AdapterInv, Adapters, Indexed, Announced, Staged, Mapped
  <2>2. Created \in Events
    BY DEF Created, Events
  <2>3. Accepts(TRUE, s, Created)
    BY <1>2 DEF Accepts, Created, Matches
  <2>4. Matches(b, Shown(s, Created))
    BY DEF AdapterInv, Adapters, Matches, Shown, Created, TextItem, CallItem, Item
  <2> QED
    BY <1>2, <2>1, <2>2, <2>3, <2>4, GoodByOne DEF StartEvents, Ok
<1> QED
  BY <1>1, <1>2

\* What an event of an item changes of what the client has.
Changed(s, u, i, item) ==
    /\ u.opened = s.opened
    /\ u.outcome = s.outcome
    /\ \A k : k \in DOMAIN u.items <=> k \in DOMAIN s.items \/ k = i
    /\ u.items[i] = item
    /\ \A k \in DOMAIN s.items : k # i => u.items[k] = s.items[k]

\* Names the provers need to be told of.
LEMMA NamesTyped == None \in Strings /\ "message" \in Strings
  BY DEF Strings

\* An announced item is there, empty and open.
LEMMA AddedShown ==
    ASSUME NEW s, NEW i \in Nat, NEW kind \in Strings, NEW id \in Strings,
           s.opened, s.outcome = "none", i \notin DOMAIN s.items
    PROVE  /\ Leads(TRUE, s, <<Added(i, kind, id)>>, Shown(s, Added(i, kind, id)))
           /\ Changed(s, Shown(s, Added(i, kind, id)), i, Item(kind, id, <<>>))
           /\ Shown(s, Added(i, kind, id)).finished = s.finished
<1> DEFINE e == Added(i, kind, id)
<1>1. e.type = "added" /\ e.index = i /\ e.kind = kind /\ e.id = id /\ e.body = <<>>
  BY DEF Added
<1>2. e \in Events
  <2>1. e \in [type : {"added", "done"}, index : Nat, kind : Strings, id : Strings, body : Seq(STRING)]
    BY DEF Added
  <2> QED
    BY <2>1 DEF Events
<1> HIDE DEF e
<1>3. Accepts(TRUE, s, e)
  BY <1>1 DEF Accepts
<1>4. Changed(s, Shown(s, e), i, Item(kind, id, <<>>)) /\ Shown(s, e).finished = s.finished
  BY <1>1 DEF Shown, Changed, With
<1> QED
  BY <1>2, <1>3, <1>4, LeadsByOne DEF e

\* Filling an item changes no other.
LEMMA Refilled ==
    ASSUME NEW kind, NEW id, NEW body, NEW frags
    PROVE  [Item(kind, id, body) EXCEPT !.body = @ \o frags] = Item(kind, id, body \o frags)
<1>1. ASSUME NEW x, x = [kind |-> kind, id |-> id, body |-> body], NEW other
      PROVE  [x EXCEPT !.body = other] = [kind |-> kind, id |-> id, body |-> other]
  BY <1>1
<1>2. Item(kind, id, body).body = body
  BY DEF Item
<1>3. [Item(kind, id, body) EXCEPT !.body = @ \o frags]
        = [Item(kind, id, body) EXCEPT !.body = Item(kind, id, body).body \o frags]
  OBVIOUS
<1> QED
  BY <1>1, <1>2, <1>3 DEF Item

\* A delta fills the open item that it names.
LEMMA DeltaLeads ==
    ASSUME NEW s, NEW i \in Nat, NEW frags \in Seq(STRING), s.outcome = "none", OpenIn(s, i)
    PROVE  /\ Leads(TRUE, s, <<Delta(i, frags)>>, Shown(s, Delta(i, frags)))
           /\ Shown(s, Delta(i, frags)).finished = s.finished
<1> DEFINE e == Delta(i, frags)
<1>1. e.type = "delta" /\ e.index = i /\ e.body = frags
  BY DEF Delta
<1>2. e \in Events
  <2>1. e \in [type : {"delta"}, index : Nat, body : Seq(STRING)]
    BY DEF Delta
  <2> QED
    BY <2>1 DEF Events
<1> HIDE DEF e
<1>3. Accepts(TRUE, s, e)
  BY <1>1 DEF Accepts
<1>4. Shown(s, e).finished = s.finished
  BY <1>1 DEF Shown
<1> QED
  BY <1>2, <1>3, <1>4, LeadsByOne DEF e

\* The view s has an open item at i, which holds body so far.
Filling(s, i, kind, id, body) ==
    s.outcome = "none" /\ OpenIn(s, i) /\ s.items[i] = Item(kind, id, body)

\* What the client has then, by its fields.
LEMMA DeltaShown ==
    ASSUME NEW s, NEW i \in Nat, NEW kind, NEW id, NEW body, NEW frags \in Seq(STRING),
           Filling(s, i, kind, id, body)
    PROVE  /\ Leads(TRUE, s, <<Delta(i, frags)>>, Shown(s, Delta(i, frags)))
           /\ Changed(s, Shown(s, Delta(i, frags)), i, Item(kind, id, body \o frags))
           /\ Shown(s, Delta(i, frags)).finished = s.finished
<1> DEFINE e == Delta(i, frags)
<1>0. s.outcome = "none" /\ OpenIn(s, i) /\ s.items[i] = Item(kind, id, body)
  BY DEF Filling
<1>1. e.type = "delta" /\ e.index = i /\ e.body = frags
  BY DEF Delta
<1> HIDE DEF e
<1>4. [s.items[i] EXCEPT !.body = @ \o frags] = Item(kind, id, body \o frags)
  BY <1>0, Refilled
<1>5. Shown(s, e).items = [s.items EXCEPT ![i].body = @ \o frags] /\ i \in DOMAIN s.items
  BY <1>0, <1>1 DEF Shown, OpenIn
<1>6. Changed(s, Shown(s, e), i, Item(kind, id, body \o frags))
  <2>1. Shown(s, e).opened = s.opened /\ Shown(s, e).outcome = s.outcome
    BY <1>1 DEF Shown
  <2> QED
    BY <1>4, <1>5, <2>1 DEF Changed
<1>7. Shown(s, e).finished = s.finished
  BY <1>1 DEF Shown
<1> QED
  BY <1>0, <1>6, <1>7, DeltaLeads DEF e

\* The view u has the item at i done, and s's others as they were.
Closes(s, u, i) == u.finished = s.finished \union {i}

\* A done item has the content the client has put together for it.
LEMMA DoneShown ==
    ASSUME NEW s, NEW i \in Nat, NEW kind \in Strings, NEW id \in Strings, NEW body \in Seq(STRING),
           s.outcome = "none", OpenIn(s, i), s.items[i] = Item(kind, id, body)
    PROVE  /\ Leads(TRUE, s, <<Done(i, kind, id, body)>>, Shown(s, Done(i, kind, id, body)))
           /\ Changed(s, Shown(s, Done(i, kind, id, body)), i, Item(kind, id, body))
           /\ Closes(s, Shown(s, Done(i, kind, id, body)), i)
<1> DEFINE e == Done(i, kind, id, body)
<1>1. e.type = "done" /\ e.index = i /\ e.kind = kind /\ e.id = id /\ e.body = body
  BY DEF Done
<1>2. e \in Events
  <2>1. e \in [type : {"added", "done"}, index : Nat, kind : Strings, id : Strings, body : Seq(STRING)]
    BY DEF Done
  <2> QED
    BY <2>1 DEF Events
<1> HIDE DEF e
<1>3. Accepts(TRUE, s, e)
  BY <1>1 DEF Accepts
<1>4. Changed(s, Shown(s, e), i, Item(kind, id, body)) /\ Closes(s, Shown(s, e), i)
  BY <1>1 DEF Shown, Changed, Closes, With
<1> QED
  BY <1>2, <1>3, <1>4, LeadsByOne DEF e

\* The adapter b announces what s has and the item at i.
Announces(b, s, i) ==
    \A k : (k = b.textIndex /\ b.textIndex # NoIndex)
              \/ (\E j \in DOMAIN b.calls : b.calls[j].added /\ b.calls[j].out = k)
          <=> k \in DOMAIN s.items \/ k = i

\* Of what b announces only the item at i differs from what a does.
Fills(a, b, i, item) ==
    /\ b.textIndex # NoIndex =>
          \/ b.textIndex = i /\ item = TextItem(b)
          \/ b.textIndex # i /\ b.textIndex = a.textIndex /\ TextItem(b) = TextItem(a)
    /\ \A j \in DOMAIN b.calls : b.calls[j].added =>
          \/ b.calls[j].out = i /\ item = CallItem(b.calls[j])
          \/ b.calls[j].out # i /\ j \in DOMAIN a.calls /\ b.calls[j] = a.calls[j]

\* While items are filled, the client's side of one follows the adapter's and
\* what is known of the others stays.
LEMMA MatchesChanged ==
    ASSUME NEW a, NEW s, NEW b, NEW u, NEW i, NEW item,
           Matches(a, s), Changed(s, u, i, item), u.finished = s.finished, Growing(a), Growing(b),
           Announces(b, s, i), Fills(a, b, i, item)
    PROVE  Matches(b, u)
<1>1. \A k : k \in DOMAIN u.items <=>
          \/ k = b.textIndex /\ b.textIndex # NoIndex
          \/ \E j \in DOMAIN b.calls : b.calls[j].added /\ b.calls[j].out = k
  BY DEF Changed, Announces
<1>2. b.textIndex # NoIndex => u.items[b.textIndex] = TextItem(b)
  BY DEF Changed, Matches, Fills
<1>3. ASSUME NEW j \in DOMAIN b.calls, b.calls[j].added
      PROVE  u.items[b.calls[j].out] = CallItem(b.calls[j])
  <2>1. CASE b.calls[j].out = i
    BY <1>3, <2>1 DEF Changed, Fills
  <2>2. CASE b.calls[j].out # i
    <3>1. j \in DOMAIN a.calls /\ b.calls[j] = a.calls[j]
      BY <1>3, <2>2 DEF Fills
    <3>2. a.calls[j].out \in DOMAIN s.items /\ s.items[a.calls[j].out] = CallItem(a.calls[j])
      BY <1>3, <3>1 DEF Matches
    <3> QED
      BY <2>2, <3>1, <3>2 DEF Changed
  <2> QED
    BY <2>1, <2>2
<1>4. u.finished = {} /\ u.outcome = "none" /\ u.opened
  BY DEF Matches, Changed, Growing
<1> QED
  BY <1>1, <1>2, <1>3, <1>4 DEF Matches, Growing

\* A method that leaves the adapter as announced to the client is good by its events.
LEMMA GoodAfter ==
    ASSUME NEW s, NEW r, NEW u, r.ok, AdapterInv(r.a), Leads(TRUE, s, r.ev, u), Matches(r.a, u)
    PROVE  Good(s, r)
  BY DEF Good

\* The same, of the adapter that the method returns.
LEMMA GoodBy ==
    ASSUME NEW s, NEW b, NEW ev, NEW u, AdapterInv(b), Leads(TRUE, s, ev, u), Matches(b, u)
    PROVE  Good(s, Ok(b, ev))
  BY DEF Good, Ok

\* A fragment of text announces the text item if it is the first.
LEMMA TextGood ==
    ASSUME NEW a, AdapterInv(a), Growing(a), NEW s, Matches(a, s), NEW frag \in STRING
    PROVE  LET r == TextDeltaEvents(a, frag)
           IN  /\ r.ok
               /\ Good(s, r)
               /\ Growing(r.a)
               /\ r.a.text = Append(a.text, frag)
               /\ r.a.toolMap = a.toolMap
               /\ r.a.calls = a.calls
<1> DEFINE r == TextDeltaEvents(a, frag)
           b == r.a
           i == IF a.textIndex = NoIndex THEN a.nextIndex ELSE a.textIndex
           d == Delta(i, <<frag>>)
<1>0. /\ a \in Adapters /\ a.text \in Seq(STRING) /\ a.nextIndex \in Nat
      /\ a.textIndex \in Nat \union {-1} /\ i \in Nat /\ Append(a.text, frag) \in Seq(STRING)
  BY DEF AdapterInv, Adapters, NoIndex
<1>1. b = [a EXCEPT !.textIndex = i, !.text = Append(@, frag),
                    !.nextIndex = IF a.textIndex = NoIndex THEN a.nextIndex + 1 ELSE a.nextIndex]
  BY <1>0 DEF TextDeltaEvents, Ok, Adapters
<1>3. r.ok /\ r.ev = (IF a.text = <<>> THEN <<Added(i, "message", None)>> ELSE <<>>) \o <<d>>
  BY DEF TextDeltaEvents, Ok
<1> SUFFICES /\ r.ok
             /\ Good(s, r)
             /\ Growing(b)
             /\ b.text = Append(a.text, frag)
             /\ b.toolMap = a.toolMap
             /\ b.calls = a.calls
  OBVIOUS
<1> HIDE DEF r, i
<1>2. b \in Adapters
  <2>1. (IF a.textIndex = NoIndex THEN a.nextIndex + 1 ELSE a.nextIndex) \in Nat
    BY <1>0
  <2> QED
    BY <1>0, <1>1, <2>1 DEF Adapters
<1>4. /\ b.started = a.started /\ b.finishSeen = a.finishSeen /\ b.terminal = a.terminal
      /\ b.status = a.status /\ b.textDone = a.textDone
      /\ b.text = Append(a.text, frag) /\ b.toolMap = a.toolMap /\ b.calls = a.calls
      /\ b.textIndex = i
      /\ b.nextIndex = IF a.textIndex = NoIndex THEN a.nextIndex + 1 ELSE a.nextIndex
  BY <1>0, <1>1 DEF Adapters
<1>5. AdapterInv(b)
  <2>1. Indexed(b)
    <3>1. \A k \in DOMAIN a.calls : a.calls[k].out \in Nat
      BY CallsTyped DEF Calls
    <3>4. Indexed(a)
      BY DEF AdapterInv
    <3>5. /\ b.calls = a.calls /\ b.textIndex = i
          /\ b.nextIndex = IF a.textIndex = NoIndex THEN a.nextIndex + 1 ELSE a.nextIndex
      BY <1>4
    <3> HIDE DEF b
    <3>2. CASE a.textIndex = NoIndex
      BY <1>0, <3>1, <3>2, <3>4, <3>5 DEF Indexed, NoIndex, i
    <3>3. CASE a.textIndex # NoIndex
      BY <1>0, <3>1, <3>3, <3>4, <3>5 DEF Indexed, NoIndex, i
    <3> QED
      BY <3>2, <3>3
  <2>2. Announced(b)
    BY <1>0, <1>4 DEF AdapterInv, Announced, NoIndex
  <2>3. Staged(b)
    BY <1>4 DEF AdapterInv, Staged, Growing
  <2>4. Mapped(b)
    BY <1>4 DEF AdapterInv, Mapped
  <2> QED
    BY <1>2, <2>1, <2>2, <2>3, <2>4 DEF AdapterInv
<1>10. /\ i # NoIndex /\ <<frag>> \in Seq(STRING) /\ Growing(b)
       /\ s.outcome = "none" /\ s.opened /\ s.finished = {}
       /\ \A j \in DOMAIN a.calls : a.calls[j].out # i
  <2>1. \A j \in DOMAIN a.calls : a.calls[j].out # i
    <3>1. \A k \in DOMAIN a.calls : a.calls[k].out \in Nat
      BY CallsTyped DEF Calls
    <3> QED
      BY <1>0, <3>1 DEF AdapterInv, Indexed, i
  <2> QED
    BY <1>0, <1>4, <2>1 DEF NoIndex, Growing, Matches
<1>11. Announces(b, s, i) /\ b.textIndex = i
  BY <1>4, <1>10 DEF Matches, Announces, i
<1>12. /\ \A j \in DOMAIN b.calls : b.calls[j].out # i
       /\ b.calls = a.calls
  BY <1>4, <1>10
<1>13. ASSUME NEW item, NEW u, Changed(s, u, i, item), u.finished = s.finished, TextItem(b) = item
       PROVE  Matches(b, u)
  <2>1. Fills(a, b, i, item)
    BY <1>11, <1>12, <1>13 DEF Fills
  <2> QED
    BY <1>10, <1>11, <1>13, <2>1, MatchesChanged
<1>6. CASE a.textIndex = NoIndex
  <2> DEFINE e == Added(i, "message", None)
             t == Shown(s, e)
             u == Shown(t, d)
  <2>1. a.text = <<>> /\ r.ev = <<e>> \o <<d>> /\ Append(a.text, frag) = <<>> \o <<frag>>
    <3>1. a.text = <<>>
      BY <1>6 DEF AdapterInv, Announced
    <3> QED
      BY <1>3, <3>1
  <2>3. i \notin DOMAIN s.items
    BY <1>6, <1>10 DEF Matches
  <2>4. /\ Leads(TRUE, s, <<e>>, t) /\ Changed(s, t, i, Item("message", None, <<>>))
        /\ t.finished = s.finished
    BY <1>0, <1>10, <2>3, NamesTyped, AddedShown
  <2> HIDE DEF t
  <2>5. Filling(t, i, "message", None, <<>>)
    BY <1>10, <2>4 DEF Changed, OpenIn, Filling
  <2>6. /\ Leads(TRUE, t, <<d>>, u) /\ Changed(t, u, i, Item("message", None, <<>> \o <<frag>>))
        /\ u.finished = t.finished
    <3>1. i \in Nat /\ <<frag>> \in Seq(STRING)
      BY <1>0, <1>10
    <3> QED
      BY <2>5, <3>1, DeltaShown
  <2> HIDE DEF e, u, d
  <2>7. Changed(s, u, i, Item("message", None, <<>> \o <<frag>>))
    BY <2>4, <2>6 DEF Changed
  <2>8. Matches(b, u)
    <3>1. TextItem(b) = Item("message", None, <<>> \o <<frag>>)
      BY <1>4, <2>1 DEF TextItem
    <3> DEFINE item == Item("message", None, <<>> \o <<frag>>)
    <3>2. u.finished = s.finished
      BY <2>4, <2>6
    <3> HIDE DEF item
    <3> QED
      BY <1>13, <2>7, <3>1, <3>2 DEF item
  <2>9. Leads(TRUE, s, r.ev, u)
    BY <2>1, <2>4, <2>6, LeadsOn
  <2> QED
    BY <1>3, <1>4, <1>5, <1>10, <2>8, <2>9, GoodAfter
<1>7. CASE a.textIndex # NoIndex
  <2> DEFINE u == Shown(s, d)
  <2>1. a.text # <<>> /\ r.ev = <<d>> /\ i = a.textIndex /\ Append(a.text, frag) = a.text \o <<frag>>
    <3>1. a.text # <<>>
      BY <1>7 DEF AdapterInv, Announced
    <3>2. <<>> \o <<d>> = <<d>>
      OBVIOUS
    <3> QED
      BY <1>0, <1>3, <1>7, <3>1, <3>2 DEF i
  <2>2. Filling(s, i, "message", None, a.text)
    BY <1>7, <1>10, <2>1 DEF Matches, TextItem, OpenIn, Filling
  <2>3. /\ Leads(TRUE, s, <<d>>, u) /\ Changed(s, u, i, Item("message", None, a.text \o <<frag>>))
        /\ u.finished = s.finished
    BY <1>0, <1>10, <2>2, DeltaShown
  <2> HIDE DEF u, d
  <2>4. Matches(b, u)
    <3>1. TextItem(b) = Item("message", None, a.text \o <<frag>>)
      BY <1>4, <2>1 DEF TextItem
    <3> DEFINE item == Item("message", None, a.text \o <<frag>>)
    <3> HIDE DEF item
    <3> QED
      BY <1>13, <2>3, <3>1 DEF item
  <2> QED
    BY <1>3, <1>4, <1>5, <1>10, <2>1, <2>3, <2>4, GoodAfter
<1> QED
  BY <1>6, <1>7
-----------------------------------------------------------------------------
\* An adapter that announces the same matches the same client.
LEMMA MatchesKept ==
    ASSUME NEW a, NEW s, NEW b, Matches(a, s), Growing(a), Growing(b),
           b.text = a.text, b.textIndex = a.textIndex,
           \A j \in DOMAIN a.calls : a.calls[j].added =>
              /\ j \in DOMAIN b.calls
              /\ b.calls[j].added
              /\ b.calls[j].out = a.calls[j].out
              /\ CallItem(b.calls[j]) = CallItem(a.calls[j]),
           \A j \in DOMAIN b.calls : b.calls[j].added => j \in DOMAIN a.calls /\ a.calls[j].added
    PROVE  Matches(b, s)
<1>1. TextItem(b) = TextItem(a)
  BY DEF TextItem
<1>2. \A k : (\E i \in DOMAIN a.calls : a.calls[i].added /\ a.calls[i].out = k)
               <=> (\E i \in DOMAIN b.calls : b.calls[i].added /\ b.calls[i].out = k)
  OBVIOUS
<1>3. \A k : k \in DOMAIN s.items <=>
          \/ k = b.textIndex /\ b.textIndex # NoIndex
          \/ \E i \in DOMAIN b.calls : b.calls[i].added /\ b.calls[i].out = k
  BY <1>2 DEF Matches
<1>4. \A i \in DOMAIN b.calls : b.calls[i].added => s.items[b.calls[i].out] = CallItem(b.calls[i])
  BY DEF Matches
<1> QED
  BY <1>1, <1>3, <1>4 DEF Matches, Growing

\* A call nothing is known of yet.
LEMMA NewCallTyped ==
    ASSUME NEW out \in Nat
    PROVE  /\ NewCall(out) \in Calls
           /\ NewCall(out).out = out /\ NewCall(out).id = None /\ NewCall(out).name = None
           /\ NewCall(out).args = <<>> /\ ~NewCall(out).added /\ ~NewCall(out).done
  BY DEF NewCall, Calls, Strings

\* The arguments of the call that the upstream has under the index x.
Args(a, x) == IF x \in DOMAIN a.toolMap THEN a.calls[a.toolMap[x]].args ELSE <<>>

\* Changing a call keeps the adapter's types.
LEMMA WithTyped ==
    ASSUME NEW f \in ToolMaps, NEW x \in STRING \ {"text"}, NEW n \in Nat
    PROVE  With(f, x, n) \in ToolMaps
<1>1. PICK S \in SUBSET (STRING \ {"text"}) : f \in [S -> Nat]
  BY DEF ToolMaps
<1>2. With(f, x, n) \in [S \union {x} -> Nat]
  BY <1>1 DEF With
<1>3. S \union {x} \in SUBSET (STRING \ {"text"})
  BY <1>1
<1> QED
  BY <1>2, <1>3 DEF ToolMaps

\* A new upstream index gets a call of its own; nothing of the others changes.
LEMMA LocalIndexGood ==
    ASSUME NEW a, AdapterInv(a), Growing(a), NEW s, Matches(a, s), NEW d \in ToolDeltas,
           LocalToolIndex(a, d).ok
    PROVE  LET b == LocalToolIndex(a, d).a
           IN  /\ AdapterInv(b)
               /\ Growing(b)
               /\ Matches(b, s)
               /\ b.text = a.text
               /\ DOMAIN b.toolMap = DOMAIN a.toolMap \union {d.ix}
               /\ \A x \in DOMAIN b.toolMap : Args(b, x) = Args(a, x)
<1> DEFINE b == LocalToolIndex(a, d).a
           n == Len(a.calls)
           call == NewCall(a.nextIndex)
<1>1. CASE d.ix \in DOMAIN a.toolMap
  <2>1. b = a /\ DOMAIN a.toolMap = DOMAIN a.toolMap \union {d.ix}
    BY <1>1 DEF LocalToolIndex, Ok
  <2> QED
    BY <2>1
<1>2. CASE d.ix \notin DOMAIN a.toolMap
  <2>1. /\ a \in Adapters /\ a.calls \in Seq(Calls) /\ n \in Nat /\ a.nextIndex \in Nat
        /\ a.toolMap \in ToolMaps /\ d.ix \in STRING \ {"text"} /\ a.textIndex \in Nat \union {-1}
    BY DEF AdapterInv, Adapters, ToolDeltas, NoIndex
  <2>2. b = [a EXCEPT !.toolMap = With(a.toolMap, d.ix, n + 1),
                      !.calls = Append(a.calls, call),
                      !.nextIndex = a.nextIndex + 1]
    BY <1>2 DEF LocalToolIndex, Ok, Err
  <2>3. /\ call \in Calls /\ call.out = a.nextIndex /\ call.id = None /\ call.name = None
        /\ call.args = <<>> /\ ~call.added /\ ~call.done
    BY <2>1, NewCallTyped
  <2>4. With(a.toolMap, d.ix, n + 1) \in ToolMaps /\ Append(a.calls, call) \in Seq(Calls)
    BY <2>1, <2>3, WithTyped
  <2> SUFFICES /\ AdapterInv(b) /\ Growing(b) /\ Matches(b, s) /\ b.text = a.text
               /\ DOMAIN b.toolMap = DOMAIN a.toolMap \union {d.ix}
               /\ \A x \in DOMAIN b.toolMap : Args(b, x) = Args(a, x)
    OBVIOUS
  <2> HIDE DEF b, call
  <2>5. b \in Adapters
    <3>1. a.nextIndex + 1 \in Nat
      BY <2>1
    <3> HIDE DEF n
    <3> QED
      BY <2>1, <2>2, <2>4, <3>1 DEF Adapters
  <2>6. /\ b.started = a.started /\ b.finishSeen = a.finishSeen /\ b.terminal = a.terminal
        /\ b.status = a.status /\ b.textDone = a.textDone /\ b.text = a.text
        /\ b.textIndex = a.textIndex /\ b.nextIndex = a.nextIndex + 1
        /\ b.toolMap = With(a.toolMap, d.ix, n + 1) /\ b.calls = Append(a.calls, call)
    BY <2>1, <2>2 DEF Adapters
  <2>7. /\ DOMAIN a.calls = 1..n /\ DOMAIN b.calls = 1..(n + 1)
        /\ \A j \in 1..n : b.calls[j] = a.calls[j]
        /\ b.calls[n + 1] = call
        /\ \A j \in 1..n : a.calls[j] \in Calls
    BY <2>1, <2>3, <2>6
  <2>8. /\ DOMAIN b.toolMap = DOMAIN a.toolMap \union {d.ix}
        /\ b.toolMap[d.ix] = n + 1
        /\ \A y \in DOMAIN a.toolMap : b.toolMap[y] = a.toolMap[y]
    <3>1. /\ DOMAIN With(a.toolMap, d.ix, n + 1) = DOMAIN a.toolMap \union {d.ix}
          /\ With(a.toolMap, d.ix, n + 1)[d.ix] = n + 1
          /\ \A y \in DOMAIN a.toolMap : With(a.toolMap, d.ix, n + 1)[y] = a.toolMap[y]
      BY <1>2 DEF With
    <3> QED
      BY <2>6, <3>1
  <2> HIDE DEF n
  <2>9. \A j \in 1..n :
           /\ a.calls[j].out \in Nat /\ a.calls[j].out < a.nextIndex /\ a.calls[j].out # a.textIndex
           /\ a.calls[j].added <=> Known(a.calls[j])
           /\ a.calls[j].name = None \/ a.calls[j].name \in DOMAIN ToolKind
    BY <2>7 DEF AdapterInv, Indexed, Announced, Calls
  <2>10. Indexed(b)
    <3>1. b.textIndex # NoIndex => b.textIndex < b.nextIndex
      BY <2>1, <2>6 DEF AdapterInv, Indexed, NoIndex
    <3>2. \A j \in DOMAIN b.calls : b.calls[j].out < b.nextIndex /\ b.calls[j].out # b.textIndex
      <4>1. \A j \in 1..n : b.calls[j].out < b.nextIndex /\ b.calls[j].out # b.textIndex
        BY <2>1, <2>6, <2>7, <2>9
      <4>2. call.out < b.nextIndex /\ call.out # b.textIndex
        BY <2>1, <2>3, <2>6 DEF AdapterInv, Indexed, NoIndex
      <4> QED
        BY <2>1, <2>7, <4>1, <4>2
    <3>3. \A i, j \in DOMAIN b.calls : i # j => b.calls[i].out # b.calls[j].out
      <4>1. \A i, j \in 1..n : i # j => b.calls[i].out # b.calls[j].out
        BY <2>7 DEF AdapterInv, Indexed
      <4>2. \A i \in 1..n : b.calls[i].out # b.calls[n + 1].out
        BY <2>1, <2>3, <2>7, <2>9
      <4> QED
        BY <2>1, <2>7, <4>1, <4>2
    <3>4. ASSUME NEW k \in Nat, k < b.nextIndex
          PROVE  k = b.textIndex \/ \E i \in DOMAIN b.calls : b.calls[i].out = k
      <4>1. CASE k = a.nextIndex
        BY <2>1, <2>3, <2>7, <4>1
      <4>2. CASE k < a.nextIndex
        <5>1. k = a.textIndex \/ \E i \in 1..n : a.calls[i].out = k
          BY <2>7, <4>2 DEF AdapterInv, Indexed
        <5>2. \A i \in 1..n : i \in DOMAIN b.calls /\ b.calls[i].out = a.calls[i].out
          BY <2>1, <2>7
        <5> QED
          BY <2>6, <5>1, <5>2
      <4> QED
        BY <2>1, <2>6, <3>4, <4>1, <4>2
    <3> QED
      BY <3>1, <3>2, <3>3, <3>4 DEF Indexed
  <2>11. \A j \in DOMAIN b.calls : j = n + 1 \/ j \in 1..n
    BY <2>1, <2>7
  <2>12. Announced(b)
    <3>1. b.text = <<>> <=> b.textIndex = NoIndex
      BY <2>6 DEF AdapterInv, Announced
    <3>2. ~Known(call)
      BY <2>3 DEF Known
    <3>3. \A j \in DOMAIN b.calls :
             /\ b.calls[j].added <=> Known(b.calls[j])
             /\ b.calls[j].name = None \/ b.calls[j].name \in DOMAIN ToolKind
      BY <2>3, <2>7, <2>9, <2>11, <3>2
    <3> QED
      BY <3>1, <3>3 DEF Announced
  <2>13. Staged(b)
    BY <2>3, <2>6, <2>7, <2>11 DEF AdapterInv, Staged, Growing
  <2>14. Mapped(b)
    <3>1. \A x \in DOMAIN a.toolMap : a.toolMap[x] \in 1..n
      BY <2>7 DEF AdapterInv, Mapped
    <3>2. n + 1 \notin 1..n /\ n + 1 \in 1..(n + 1) /\ \A j \in 1..n : j \in 1..(n + 1)
      BY <2>1
    <3>3. \A x \in DOMAIN b.toolMap : b.toolMap[x] \in DOMAIN b.calls
      BY <2>7, <2>8, <3>1, <3>2
    <3>4. \A x, y \in DOMAIN b.toolMap : x # y => b.toolMap[x] # b.toolMap[y]
      BY <2>8, <3>1, <3>2 DEF AdapterInv, Mapped
    <3>5. \A j \in DOMAIN b.calls : \E x \in DOMAIN b.toolMap : b.toolMap[x] = j
      BY <2>7, <2>8, <2>11 DEF AdapterInv, Mapped
    <3> QED
      BY <3>3, <3>4, <3>5 DEF Mapped
  <2>15. AdapterInv(b)
    BY <2>5, <2>10, <2>12, <2>13, <2>14 DEF AdapterInv
  <2>16. Growing(b)
    BY <2>6 DEF Growing
  <2>17. Matches(b, s)
    <3>1. \A j \in DOMAIN a.calls : j \in DOMAIN b.calls /\ b.calls[j] = a.calls[j]
      BY <2>1, <2>7
    <3>2. \A j \in DOMAIN b.calls : b.calls[j].added => j \in DOMAIN a.calls /\ a.calls[j].added
      BY <2>3, <2>7, <2>11
    <3> QED
      BY <2>6, <2>16, <3>1, <3>2, MatchesKept
  <2>18. ASSUME NEW x \in DOMAIN b.toolMap PROVE Args(b, x) = Args(a, x)
    <3>1. CASE x = d.ix
      BY <1>2, <2>3, <2>7, <2>8, <3>1 DEF Args
    <3>2. CASE x \in DOMAIN a.toolMap
      <4>1. a.toolMap[x] \in 1..n
        BY <2>7, <3>2 DEF AdapterInv, Mapped
      <4> QED
        BY <2>7, <2>8, <3>2, <4>1 DEF Args
    <3> QED
      BY <2>8, <3>1, <3>2
  <2> QED
    BY <2>6, <2>8, <2>15, <2>16, <2>17, <2>18
<1> QED
  BY <1>1, <1>2
-----------------------------------------------------------------------------
\* The call a fragment has been put into, announced if that makes it known.
Merged(call, d) ==
    LET new == ApplyToolDelta(call, d)
    IN  [new EXCEPT !.added = call.added \/ (new.id # None /\ new.name # None)]

\* The argument text of a fragment.
LEMMA PieceIn ==
    ASSUME NEW S, NEW frag \in S
    PROVE  /\ Piece(frag) \in Seq(S)
           /\ \A args \in Seq(S) :
                 /\ args \o Piece(frag) \in Seq(S)
                 /\ (IF frag = None THEN args ELSE Append(args, frag)) = args \o Piece(frag)
<1>1. CASE frag = None
  BY <1>1 DEF Piece
<1>2. CASE frag # None
  <2>1. Piece(frag) = <<frag>> /\ <<frag>> \in Seq(S)
    BY <1>2 DEF Piece
  <2>2. \A args \in Seq(S) : Append(args, frag) = args \o <<frag>> /\ args \o <<frag>> \in Seq(S)
    OBVIOUS
  <2> QED
    BY <1>2, <2>1, <2>2
<1> QED
  BY <1>1, <1>2

\* It is a sequence of strings.
LEMMA PieceTyped ==
    ASSUME NEW frag, frag \in STRING
    PROVE  /\ Piece(frag) \in Seq(STRING)
           /\ \A args \in Seq(STRING) :
                 /\ args \o Piece(frag) \in Seq(STRING)
                 /\ (IF frag = None THEN args ELSE Append(args, frag)) = args \o Piece(frag)
  BY PieceIn

\* What a fragment may change of a call.
LEMMA MergedFields ==
    ASSUME NEW call \in Calls, NEW d \in ToolDeltas
    PROVE  LET new == ApplyToolDelta(call, d)
               c == Merged(call, d)
           IN  /\ new \in Calls /\ c \in Calls
               /\ new.out = call.out /\ c.out = call.out
               /\ c.id = (IF call.id = None THEN d.id ELSE call.id) /\ new.id = c.id
               /\ c.name = (IF call.name = None THEN d.name ELSE call.name) /\ new.name = c.name
               /\ c.args = call.args \o Piece(d.frag) /\ new.args = c.args
               /\ c.added <=> (call.added \/ Known(c))
               /\ c.done = call.done
<1> DEFINE new == ApplyToolDelta(call, d)
           c == Merged(call, d)
           id == IF call.id = None THEN d.id ELSE call.id
           name == IF call.name = None THEN d.name ELSE call.name
           args == IF d.frag = None THEN call.args ELSE Append(call.args, d.frag)
           added == call.added \/ (new.id # None /\ new.name # None)
<1>1. /\ call.id \in Strings /\ call.name \in Strings /\ d.id \in Strings /\ d.name \in Strings
      /\ call.args \in Seq(STRING) /\ d.frag \in STRING /\ call.out \in Nat
  BY DEF Calls, ToolDeltas, Strings
<1>3. args = call.args \o Piece(d.frag)
  BY <1>1, PieceTyped
<1>2. id \in Strings /\ name \in Strings /\ args \in Seq(STRING)
  <2>1. args \in Seq(STRING)
    <3> HIDE DEF args
    <3> QED
      BY <1>1, <1>3, PieceTyped
  <2> HIDE DEF args
  <2> QED
    BY <1>1, <2>1
<1>4. new = [call EXCEPT !.id = id, !.name = name, !.args = args]
  BY DEF ApplyToolDelta
<1>5. c = [new EXCEPT !.added = added]
  BY DEF Merged
<1>6. added \in BOOLEAN
  BY DEF Calls
<1> SUFFICES /\ new \in Calls /\ c \in Calls
             /\ new.out = call.out /\ c.out = call.out
             /\ c.id = id /\ new.id = c.id
             /\ c.name = name /\ new.name = c.name
             /\ c.args = call.args \o Piece(d.frag) /\ new.args = c.args
             /\ c.added <=> (call.added \/ Known(c))
             /\ c.done = call.done
  OBVIOUS
<1> HIDE DEF new, c, id, name, args
<1>7. new \in Calls
  BY <1>2, <1>4 DEF Calls
<1>8. /\ new.out = call.out /\ new.id = id /\ new.name = name /\ new.args = args
      /\ new.done = call.done
  BY <1>4 DEF Calls
<1>9. c \in Calls
  <2> HIDE DEF added
  <2> QED
    BY <1>5, <1>6, <1>7 DEF Calls
<1>10. /\ c.out = new.out /\ c.id = new.id /\ c.name = new.name /\ c.args = new.args
       /\ c.done = new.done /\ c.added = added
  <2> HIDE DEF added
  <2> QED
    BY <1>5, <1>7 DEF Calls
<1>11. c.added <=> (call.added \/ Known(c))
  <2>1. added <=> (call.added \/ Known(c))
    BY <1>8, <1>10 DEF Known
  <2> HIDE DEF added
  <2> QED
    BY <1>10, <2>1
<1> QED
  BY <1>3, <1>7, <1>8, <1>9, <1>10, <1>11
-----------------------------------------------------------------------------
\* A fragment that is no contradiction fits its call, whether announced or not.
Fits(call, d) ==
    /\ ~Conflicts(d.id, call.id)
    /\ ~Conflicts(d.name, call.name)
    /\ d.name = None \/ d.name \in DOMAIN ToolKind

\* The adapter with the fragment put into its call.
MergedInto(b, n, d) == [b EXCEPT !.calls[n] = Merged(b.calls[n], d)]

\* Only that call is changed.
LEMMA MergedIntoFields ==
    ASSUME NEW b, AdapterInv(b), NEW d \in ToolDeltas, NEW n \in DOMAIN b.calls
    PROVE  LET f == MergedInto(b, n, d)
           IN  /\ f \in Adapters
               /\ f.started = b.started /\ f.finishSeen = b.finishSeen /\ f.terminal = b.terminal
               /\ f.status = b.status /\ f.textDone = b.textDone /\ f.text = b.text
               /\ f.textIndex = b.textIndex /\ f.nextIndex = b.nextIndex /\ f.toolMap = b.toolMap
               /\ DOMAIN f.calls = DOMAIN b.calls
               /\ f.calls[n] = Merged(b.calls[n], d)
               /\ \A j \in DOMAIN b.calls : j # n => f.calls[j] = b.calls[j]
<1> DEFINE f == MergedInto(b, n, d)
           calls == [b.calls EXCEPT ![n] = Merged(b.calls[n], d)]
<1>1. b \in Adapters /\ b.calls \in Seq(Calls) /\ b.calls[n] \in Calls
  BY CallsTyped DEF AdapterInv
<1>2. Merged(b.calls[n], d) \in Calls
  BY <1>1, MergedFields
<1>3. calls \in Seq(Calls)
  BY <1>1, <1>2
<1>4. f = [b EXCEPT !.calls = calls]
  BY DEF MergedInto
<1>5. /\ DOMAIN calls = DOMAIN b.calls /\ calls[n] = Merged(b.calls[n], d)
      /\ \A j \in DOMAIN b.calls : j # n => calls[j] = b.calls[j]
  OBVIOUS
<1> HIDE DEF calls
<1> SUFFICES /\ f \in Adapters
             /\ f.started = b.started /\ f.finishSeen = b.finishSeen /\ f.terminal = b.terminal
             /\ f.status = b.status /\ f.textDone = b.textDone /\ f.text = b.text
             /\ f.textIndex = b.textIndex /\ f.nextIndex = b.nextIndex /\ f.toolMap = b.toolMap
             /\ f.calls = calls
  BY <1>5
<1> HIDE DEF f
<1> QED
  BY <1>1, <1>3, <1>4 DEF Adapters

\* Putting a fragment into a call that is not announced tells the client nothing.
LEMMA MergedGood ==
    ASSUME NEW b, AdapterInv(b), Growing(b), NEW d \in ToolDeltas, d.ix \in DOMAIN b.toolMap,
           Fits(b.calls[b.toolMap[d.ix]], d)
    PROVE  LET n == b.toolMap[d.ix]
               f == MergedInto(b, n, d)
           IN  /\ n \in DOMAIN b.calls
               /\ AdapterInv(f)
               /\ Growing(f)
               /\ \A x \in DOMAIN b.toolMap :
                     Args(f, x) = Args(b, x) \o (IF x = d.ix THEN Piece(d.frag) ELSE <<>>)
<1> DEFINE n == b.toolMap[d.ix]
           f == MergedInto(b, n, d)
           old == b.calls[n]
           c == Merged(old, d)
<1>1. n \in DOMAIN b.calls /\ old \in Calls
  BY CallsTyped DEF AdapterInv, Mapped
<1>2. /\ f \in Adapters
      /\ f.started = b.started /\ f.finishSeen = b.finishSeen /\ f.terminal = b.terminal
      /\ f.status = b.status /\ f.textDone = b.textDone /\ f.text = b.text
      /\ f.textIndex = b.textIndex /\ f.nextIndex = b.nextIndex /\ f.toolMap = b.toolMap
      /\ DOMAIN f.calls = DOMAIN b.calls
      /\ f.calls[n] = c
      /\ \A j \in DOMAIN b.calls : j # n => f.calls[j] = b.calls[j]
  BY <1>1, MergedIntoFields
<1>3. /\ c \in Calls /\ c.out = old.out
      /\ c.id = (IF old.id = None THEN d.id ELSE old.id)
      /\ c.name = (IF old.name = None THEN d.name ELSE old.name)
      /\ c.args = old.args \o Piece(d.frag)
      /\ c.added <=> (old.added \/ Known(c))
      /\ c.done = old.done
  BY <1>1, MergedFields
<1>4. Fits(old, d)
  OBVIOUS
<1> SUFFICES /\ AdapterInv(f)
             /\ Growing(f)
             /\ \A x \in DOMAIN b.toolMap :
                   Args(f, x) = Args(b, x) \o (IF x = d.ix THEN Piece(d.frag) ELSE <<>>)
  BY <1>1
<1>5. old = b.calls[n] /\ n = b.toolMap[d.ix]
  OBVIOUS
<1> HIDE DEF f, c, old, n
<1>6. \A j \in DOMAIN b.calls : f.calls[j].out = b.calls[j].out /\ f.calls[j].done = b.calls[j].done
  BY <1>2, <1>3, <1>5
<1>7. Indexed(f)
  BY <1>2, <1>6 DEF AdapterInv, Indexed
<1>8. Announced(f)
  <2>1. old.added <=> Known(old)
    BY <1>1, <1>5 DEF AdapterInv, Announced
  <2>2. c.added <=> Known(c)
    BY <1>3, <2>1 DEF Known
  <2>3. c.name = None \/ c.name \in DOMAIN ToolKind
    BY <1>1, <1>3, <1>4, <1>5 DEF AdapterInv, Announced, Fits
  <2>4. ASSUME NEW j \in DOMAIN f.calls
        PROVE  /\ f.calls[j].added <=> Known(f.calls[j])
               /\ f.calls[j].name = None \/ f.calls[j].name \in DOMAIN ToolKind
    <3>1. CASE j = n
      BY <1>2, <2>2, <2>3, <3>1
    <3>2. CASE j # n
      BY <1>2, <3>2 DEF AdapterInv, Announced
    <3> QED
      BY <3>1, <3>2
  <2> QED
    BY <1>2, <2>4 DEF AdapterInv, Announced
<1>9. Staged(f)
  <2>1. \A j \in DOMAIN f.calls : ~f.calls[j].done
    <3>1. \A j \in DOMAIN b.calls : ~b.calls[j].done
      BY DEF AdapterInv, Staged, Growing
    <3> QED
      BY <1>2, <1>6, <3>1
  <2> QED
    BY <1>2, <2>1 DEF AdapterInv, Staged, Growing
<1>10. Mapped(f)
  BY <1>2 DEF AdapterInv, Mapped
<1>11. Growing(f)
  BY <1>2 DEF Growing
<1>12. ASSUME NEW x \in DOMAIN b.toolMap
       PROVE  Args(f, x) = Args(b, x) \o (IF x = d.ix THEN Piece(d.frag) ELSE <<>>)
  <2>1. CASE x = d.ix
    BY <1>2, <1>3, <1>5, <2>1 DEF Args
  <2>2. CASE x # d.ix
    <3>1. b.toolMap[x] # n /\ b.toolMap[x] \in DOMAIN b.calls
      BY <1>5, <2>2 DEF AdapterInv, Mapped
    <3>2. Args(f, x) = Args(b, x) /\ Args(b, x) = b.calls[b.toolMap[x]].args
      BY <1>2, <3>1 DEF Args
    <3>3. b.calls[b.toolMap[x]].args \in Seq(STRING)
      BY <3>1, CallsTyped DEF Calls
    <3>4. \A args \in Seq(STRING) : args \o <<>> = args
      OBVIOUS
    <3> QED
      BY <2>2, <3>2, <3>3, <3>4
  <2> QED
    BY <2>1, <2>2
<1> QED
  BY <1>2, <1>7, <1>8, <1>9, <1>10, <1>11, <1>12 DEF AdapterInv
-----------------------------------------------------------------------------
\* The item of the call at n is announced with what was buffered, or filled.
FrameFor(old, c, d) ==
    LET frags == IF old.added THEN Piece(d.frag) ELSE c.args
        delta == IF frags = <<>> THEN <<>> ELSE <<Delta(c.out, frags)>>
    IN  IF old.added THEN delta
        ELSE IF Known(c) THEN <<Added(c.out, ToolKind[c.name], c.id)>> \o delta
        ELSE <<>>

\* The kind of a call's item.
LEMMA ToolKindTyped ==
    ASSUME NEW name \in DOMAIN ToolKind
    PROVE  ToolKind[name] \in Strings
<1>1. ToolKind[name] \in {"function", "custom"}
  BY ToolAssumption
<1> QED
  BY <1>1 DEF Strings

\* That event is allowed, and the client has the call as the adapter has it.
LEMMA FrameGood ==
    ASSUME NEW b, AdapterInv(b), Growing(b), NEW s, Matches(b, s), NEW d \in ToolDeltas,
           d.ix \in DOMAIN b.toolMap, Fits(b.calls[b.toolMap[d.ix]], d)
    PROVE  LET n == b.toolMap[d.ix]
           IN  Good(s, Ok(MergedInto(b, n, d), FrameFor(b.calls[n], Merged(b.calls[n], d), d)))
<1> DEFINE n == b.toolMap[d.ix]
           f == MergedInto(b, n, d)
           old == b.calls[n]
           c == Merged(old, d)
           ev == FrameFor(old, c, d)
<1>1. n \in DOMAIN b.calls /\ old \in Calls
  BY CallsTyped DEF AdapterInv, Mapped
<1>2. /\ f.text = b.text /\ f.textIndex = b.textIndex
      /\ DOMAIN f.calls = DOMAIN b.calls
      /\ f.calls[n] = c
      /\ \A j \in DOMAIN b.calls : j # n => f.calls[j] = b.calls[j]
  BY <1>1, MergedIntoFields
<1>3. /\ c \in Calls /\ c.out = old.out
      /\ c.id = (IF old.id = None THEN d.id ELSE old.id)
      /\ c.name = (IF old.name = None THEN d.name ELSE old.name)
      /\ c.args = old.args \o Piece(d.frag)
      /\ c.added <=> (old.added \/ Known(c))
  BY <1>1, MergedFields
<1>4. AdapterInv(f) /\ Growing(f)
  BY MergedGood
<1>5. /\ old = b.calls[n]
      /\ d.frag \in STRING /\ Piece(d.frag) \in Seq(STRING)
      /\ old.out \in Nat /\ old.args \in Seq(STRING) /\ c.args \in Seq(STRING) /\ c.id \in Strings
  BY <1>1, <1>3, PieceTyped DEF Calls, ToolDeltas
<1>6. /\ old.added <=> Known(old)
      /\ c.name = None \/ c.name \in DOMAIN ToolKind
  <2>1. c = f.calls[n] /\ n \in DOMAIN f.calls
    BY <1>1, <1>2
  <2> HIDE DEF f, old, c, n
  <2> QED
    BY <1>1, <1>4, <1>5, <2>1 DEF AdapterInv, Announced
<1>7. /\ s.outcome = "none" /\ s.opened /\ s.finished = {}
      /\ \A j \in DOMAIN b.calls : j # n => b.calls[j].out # old.out
      /\ old.out # b.textIndex
  <2> HIDE DEF old, n
  <2> QED
    BY <1>1, <1>5 DEF AdapterInv, Indexed, Matches, Growing
<1>8. c.added => ToolKind[c.name] \in Strings
  BY <1>3, <1>6, ToolKindTyped DEF Known
<1> SUFFICES Good(s, Ok(f, ev))
  OBVIOUS
<1>9. /\ ev = IF old.added THEN IF Piece(d.frag) = <<>> THEN <<>> ELSE <<Delta(old.out, Piece(d.frag))>>
               ELSE IF Known(c) THEN <<Added(old.out, ToolKind[c.name], c.id)>>
                                      \o (IF c.args = <<>> THEN <<>> ELSE <<Delta(old.out, c.args)>>)
               ELSE <<>>
  BY <1>3 DEF FrameFor
<1> HIDE DEF f, c, old, n, ev
\* What is left to show once the events have filled the item of the call.
<1>10. ASSUME NEW u, Changed(s, u, old.out, CallItem(c)), u.finished = s.finished, c.added
       PROVE  Matches(f, u)
  <2>1. Announces(f, s, old.out)
    <3>1. \A j \in DOMAIN b.calls : j # n => f.calls[j] = b.calls[j]
      BY <1>2
    <3>2. f.calls[n].out = old.out /\ b.calls[n].out = old.out /\ f.calls[n].added
      BY <1>2, <1>3, <1>5, <1>10
    <3> QED
      BY <1>1, <1>2, <3>1, <3>2 DEF Announces, Matches
  <2>2. Fills(b, f, old.out, CallItem(c))
    <3>1. TextItem(f) = TextItem(b)
      BY <1>2 DEF TextItem
    <3>2. f.textIndex # NoIndex => f.textIndex # old.out /\ f.textIndex = b.textIndex
      BY <1>2, <1>7
    <3>3. ASSUME NEW j \in DOMAIN f.calls
          PROVE  \/ f.calls[j].out = old.out /\ CallItem(c) = CallItem(f.calls[j])
                 \/ f.calls[j].out # old.out /\ j \in DOMAIN b.calls /\ f.calls[j] = b.calls[j]
      BY <1>2, <1>3, <1>7, <3>3
    <3> QED
      BY <3>1, <3>2, <3>3 DEF Fills
  <2> QED
    BY <1>4, <1>10, <2>1, <2>2, MatchesChanged
<1>11. ASSUME c.added <=> old.added, c.added => CallItem(c) = CallItem(old) PROVE Matches(f, s)
  <2>1. \A j \in DOMAIN b.calls : b.calls[j].added =>
              /\ j \in DOMAIN f.calls
              /\ f.calls[j].added
              /\ f.calls[j].out = b.calls[j].out
              /\ CallItem(f.calls[j]) = CallItem(b.calls[j])
    BY <1>2, <1>3, <1>5, <1>11
  <2>2. \A j \in DOMAIN f.calls : f.calls[j].added => j \in DOMAIN b.calls /\ b.calls[j].added
    BY <1>2, <1>5, <1>11
  <2> QED
    BY <1>2, <1>4, <2>1, <2>2, MatchesKept
<1>12. CASE old.added
  <2>1. c.added /\ c.id = old.id /\ c.name = old.name
    BY <1>3, <1>6, <1>12 DEF Known
  <2>2. CallItem(c) = Item(ToolKind[old.name], old.id, c.args)
    BY <2>1 DEF CallItem
  <2>3. CASE Piece(d.frag) = <<>>
    <3>1. c.args = old.args /\ ev = <<>>
      BY <1>3, <1>5, <1>9, <1>12, <2>3
    <3>2. Matches(f, s)
      BY <1>11, <1>12, <2>1, <2>2, <3>1 DEF CallItem
    <3> QED
      BY <1>4, <3>1, <3>2, GoodQuietly
  <2>4. CASE Piece(d.frag) # <<>>
    <3> DEFINE e == Delta(old.out, Piece(d.frag))
               u == Shown(s, e)
    <3>1. ev = <<e>>
      BY <1>9, <1>12, <2>4
    <3>2. OpenIn(s, old.out) /\ s.items[old.out] = Item(ToolKind[old.name], old.id, old.args)
      BY <1>1, <1>5, <1>7, <1>12 DEF Matches, CallItem, OpenIn
    <3>3. /\ Leads(TRUE, s, <<e>>, u)
          /\ Changed(s, u, old.out, Item(ToolKind[old.name], old.id, old.args \o Piece(d.frag)))
          /\ u.finished = s.finished
      <4> DEFINE i == old.out
                 kind == ToolKind[old.name]
                 id == old.id
                 body == old.args
                 bit == Piece(d.frag)
                 v == Shown(s, Delta(i, bit))
      <4>1. i \in Nat /\ bit \in Seq(STRING) /\ s.outcome = "none"
        BY <1>5, <1>7
      <4>2. Filling(s, i, kind, id, body)
        BY <3>2, <4>1 DEF Filling
      <4>3. /\ Leads(TRUE, s, <<Delta(i, bit)>>, v)
            /\ Changed(s, v, i, Item(kind, id, body \o bit))
            /\ v.finished = s.finished
        <5> HIDE DEF i, kind, id, body, bit
        <5> QED
          BY <4>1, <4>2, DeltaShown
      <4> QED
        BY <4>3
    <3> HIDE DEF e, u
    <3>4. Matches(f, u)
      BY <1>3, <1>10, <2>1, <2>2, <3>3
    <3> QED
      BY <1>4, <3>1, <3>3, <3>4, GoodBy
  <2> QED
    BY <2>3, <2>4
<1>13. CASE ~old.added /\ Known(c)
  <2> DEFINE e == Added(old.out, ToolKind[c.name], c.id)
             dl == Delta(old.out, c.args)
  <2>1. c.added /\ ev = <<e>> \o (IF c.args = <<>> THEN <<>> ELSE <<dl>>)
    BY <1>3, <1>9, <1>13
  <2>2. old.out \notin DOMAIN s.items
    <3>1. \A j \in DOMAIN b.calls : b.calls[j].added => b.calls[j].out # old.out
      BY <1>5, <1>7, <1>13
    <3> QED
      BY <1>7, <3>1 DEF Matches
  <2>3. PICK t : /\ Leads(TRUE, s, <<e>>, t)
                 /\ Changed(s, t, old.out, Item(ToolKind[c.name], c.id, <<>>))
                 /\ t.finished = s.finished
    BY <1>5, <1>7, <1>8, <2>1, <2>2, AddedShown
  <2>4. CallItem(c) = Item(ToolKind[c.name], c.id, c.args)
    BY DEF CallItem
  <2>5. CASE c.args = <<>>
    <3>1. ev = <<e>>
      BY <2>1, <2>5
    <3> HIDE DEF e
    <3>2. Matches(f, t)
      BY <1>10, <2>1, <2>3, <2>4, <2>5
    <3> QED
      BY <1>4, <2>3, <3>1, <3>2, GoodBy
  <2>6. CASE c.args # <<>>
    <3>1. ev = <<e>> \o <<dl>>
      BY <2>1, <2>6
    <3>2. Filling(t, old.out, ToolKind[c.name], c.id, <<>>)
      BY <1>7, <2>3 DEF Changed, OpenIn, Filling
    <3> DEFINE u == Shown(t, dl)
    <3>3. /\ Leads(TRUE, t, <<dl>>, u)
          /\ Changed(t, u, old.out, Item(ToolKind[c.name], c.id, <<>> \o c.args))
          /\ u.finished = t.finished
      <4>1. Leads(TRUE, t, <<dl>>, u) /\ u.finished = t.finished
        BY <1>5, <3>2, DeltaLeads DEF Filling
      <4>2. Changed(t, u, old.out, Item(ToolKind[c.name], c.id, <<>> \o c.args))
        BY <1>5, <3>2, DeltaShown
      <4> QED
        BY <4>1, <4>2
    <3> HIDE DEF e, dl, u
    <3>4. <<>> \o c.args = c.args
      BY <1>5
    <3>5. Changed(s, u, old.out, CallItem(c)) /\ u.finished = s.finished
      BY <2>3, <2>4, <3>3, <3>4 DEF Changed
    <3>6. Matches(f, u)
      BY <1>10, <2>1, <3>5
    <3>7. Leads(TRUE, s, ev, u)
      BY <2>3, <3>1, <3>3, LeadsOn
    <3> QED
      BY <1>4, <3>6, <3>7, GoodBy
  <2> QED
    BY <2>5, <2>6
<1>14. CASE ~old.added /\ ~Known(c)
  <2>1. ~c.added /\ ev = <<>>
    BY <1>3, <1>9, <1>14
  <2>2. Matches(f, s)
    BY <1>11, <1>14, <2>1
  <2> QED
    BY <1>4, <2>1, <2>2, GoodQuietly
<1> QED
  BY <1>12, <1>13, <1>14
-----------------------------------------------------------------------------
\* tool_delta: the stream fails over a contradiction, or the fragment is put in and told.
LEMMA ToolDeltaOutcome ==
    ASSUME NEW a, AdapterInv(a), Growing(a), NEW s, Matches(a, s), NEW d \in ToolDeltas,
           ToolDeltaEvents(a, d).ok
    PROVE  LET b == LocalToolIndex(a, d).a
               n == b.toolMap[d.ix]
           IN  /\ LocalToolIndex(a, d).ok
               /\ Fits(b.calls[n], d)
               /\ ToolDeltaEvents(a, d)
                    = Ok(MergedInto(b, n, d), FrameFor(b.calls[n], Merged(b.calls[n], d), d))
<1> DEFINE r == LocalToolIndex(a, d)
           b == r.a
           n == b.toolMap[d.ix]
           old == b.calls[n]
           call == ApplyToolDelta(old, d)
           ready == call.id # None /\ call.name # None
           frags == IF old.added THEN (IF d.frag = None THEN <<>> ELSE <<d.frag>>) ELSE call.args
           delta == IF frags = <<>> THEN <<>> ELSE <<Delta(call.out, frags)>>
           ev == IF old.added THEN delta
                 ELSE IF ready THEN <<Added(call.out, ToolKind[call.name], call.id)>> \o delta
                 ELSE <<>>
           done == Ok([b EXCEPT !.calls[n] = [call EXCEPT !.added = old.added \/ ready]], ev)
<1>1. ToolDeltaEvents(a, d) =
         IF d.name # None /\ d.name \notin DOMAIN ToolKind THEN Err(a)
         ELSE IF ~r.ok THEN r
         ELSE IF Conflicts(d.id, old.id) \/ Conflicts(d.name, old.name) THEN Err(a)
         ELSE done
  BY DEF ToolDeltaEvents
<1>2. ~Err(a).ok
  BY DEF Err
<1>3. r.ok /\ Fits(old, d) /\ ToolDeltaEvents(a, d) = done
  <2> HIDE DEF r, b, n, old, call, ready, frags, delta, ev, done
  <2> QED
    BY <1>1, <1>2 DEF Fits
<1>4. d.ix \in DOMAIN b.toolMap /\ AdapterInv(b)
  BY <1>3, LocalIndexGood
<1>5. n \in DOMAIN b.calls /\ old \in Calls
  <2> HIDE DEF r, b
  <2> QED
    BY <1>4, CallsTyped DEF AdapterInv, Mapped
<1>6. LET c == Merged(old, d)
      IN call.out = c.out /\ call.id = c.id /\ call.name = c.name /\ call.args = c.args
  <2> HIDE DEF r, b, n, old
  <2> DEFINE c == Merged(old, d)
  <2>1. old \in Calls
    BY <1>5
  <2>2. call.out = old.out /\ c.out = old.out /\ call.id = c.id /\ call.name = c.name /\ call.args = c.args
    BY <2>1, MergedFields
  <2> QED
    BY <2>2
<1>7. ev = FrameFor(old, Merged(old, d), d)
  <2> HIDE DEF r, b, n, old, call
  <2> QED
    BY <1>6 DEF FrameFor, Known, Piece
<1>8. [b EXCEPT !.calls[n] = [call EXCEPT !.added = old.added \/ ready]] = MergedInto(b, n, d)
  <2> HIDE DEF r, b, n
  <2> QED
    BY DEF MergedInto, Merged
<1> HIDE DEF ev, call, ready, old, n, b, r
<1> QED
  BY <1>3, <1>7, <1>8 DEF b, n, r, old

\* A fragment goes to the call of its index, and to no other.
LEMMA ToolGood ==
    ASSUME NEW a, AdapterInv(a), Growing(a), NEW s, Matches(a, s), NEW d \in ToolDeltas,
           ToolDeltaEvents(a, d).ok
    PROVE  LET r == ToolDeltaEvents(a, d)
           IN  /\ Good(s, r)
               /\ Growing(r.a)
               /\ r.a.text = a.text
               /\ DOMAIN r.a.toolMap = DOMAIN a.toolMap \union {d.ix}
               /\ \A x \in DOMAIN r.a.toolMap :
                     Args(r.a, x) = Args(a, x) \o (IF x = d.ix THEN Piece(d.frag) ELSE <<>>)
<1> DEFINE b == LocalToolIndex(a, d).a
           n == b.toolMap[d.ix]
           f == MergedInto(b, n, d)
           ev == FrameFor(b.calls[n], Merged(b.calls[n], d), d)
<1>1. /\ LocalToolIndex(a, d).ok
      /\ Fits(b.calls[n], d)
      /\ ToolDeltaEvents(a, d) = Ok(f, ev)
  BY ToolDeltaOutcome
<1>2. /\ AdapterInv(b) /\ Growing(b) /\ Matches(b, s) /\ b.text = a.text
      /\ DOMAIN b.toolMap = DOMAIN a.toolMap \union {d.ix}
      /\ \A x \in DOMAIN b.toolMap : Args(b, x) = Args(a, x)
  BY <1>1, LocalIndexGood
<1> HIDE DEF b
<1>3. d.ix \in DOMAIN b.toolMap
  BY <1>2
<1>4. /\ n \in DOMAIN b.calls /\ AdapterInv(f) /\ Growing(f)
      /\ \A x \in DOMAIN b.toolMap :
            Args(f, x) = Args(b, x) \o (IF x = d.ix THEN Piece(d.frag) ELSE <<>>)
  BY <1>1, <1>2, <1>3, MergedGood
<1>5. f.text = b.text /\ f.toolMap = b.toolMap
  BY <1>2, <1>4, MergedIntoFields
<1>6. Good(s, Ok(f, ev))
  BY <1>1, <1>2, <1>3, FrameGood
<1>7. ToolDeltaEvents(a, d).a = f
  BY <1>1 DEF Ok
<1> SUFFICES /\ Good(s, ToolDeltaEvents(a, d))
             /\ Growing(f)
             /\ f.text = a.text
             /\ DOMAIN f.toolMap = DOMAIN a.toolMap \union {d.ix}
             /\ \A x \in DOMAIN f.toolMap :
                   Args(f, x) = Args(a, x) \o (IF x = d.ix THEN Piece(d.frag) ELSE <<>>)
  BY <1>7
<1> HIDE DEF f, ev, n
<1> QED
  BY <1>1, <1>2, <1>4, <1>5, <1>6
-----------------------------------------------------------------------------
\* The loop over the fragments of a chunk: r after one more of them.
Onward(r, d) == Then(r, LAMBDA x : ToolDeltaEvents(x, d))

\* f[n] is r after the first n fragments.
Afters(r, ds, m, f) == f = [n \in 0..m |-> IF n = 0 THEN r ELSE Onward(f[n - 1], ds[n])]

\* The loop, one fragment longer.
LEMMA AftersGrow ==
    ASSUME NEW r, NEW ds, NEW n \in Nat, NEW f, Afters(r, ds, n, f)
    PROVE  \E g : Afters(r, ds, n + 1, g)
<1> DEFINE m == n + 1
           g == [i \in 0..m |-> IF i = m THEN Onward(f[n], ds[m]) ELSE f[i]]
<1>1. ASSUME NEW i \in 0..m PROVE g[i] = IF i = 0 THEN r ELSE Onward(g[i - 1], ds[i])
  <2>1. CASE i = m
    <3>1. g[m] = Onward(f[n], ds[m]) /\ g[n] = f[n] /\ m # 0 /\ m - 1 = n
      OBVIOUS
    <3> HIDE DEF g
    <3> QED
      BY <2>1, <3>1
  <2>2. CASE i # m
    <3>1. i \in 0..n /\ g[i] = f[i] /\ (i # 0 => g[i - 1] = f[i - 1])
      BY <2>2
    <3>2. f[i] = IF i = 0 THEN r ELSE Onward(f[i - 1], ds[i])
      BY <3>1 DEF Afters
    <3> HIDE DEF g
    <3> QED
      BY <3>1, <3>2
  <2> QED
    BY <2>1, <2>2
<1>2. g = [i \in 0..m |-> g[i]]
  OBVIOUS
<1> HIDE DEF g
<1>3. g = [i \in 0..m |-> IF i = 0 THEN r ELSE Onward(g[i - 1], ds[i])]
  BY <1>1, <1>2
<1> QED
  BY <1>3 DEF Afters

\* There are results for any number of fragments.
LEMMA AftersExist ==
    ASSUME NEW r, NEW ds, NEW n \in Nat
    PROVE  \E f : Afters(r, ds, n, f)
<1> DEFINE Bad == {m \in Nat : ~\E f : Afters(r, ds, m, f)}
<1>1. SUFFICES ASSUME n \in Bad PROVE FALSE
  OBVIOUS
<1>2. PICK m \in Bad : \A k \in Bad : m <= k
  BY <1>1, LeastNat
<1>3. m # 0
  <2> DEFINE f == [i \in {0} |-> r]
  <2>1. f = [i \in 0..0 |-> IF i = 0 THEN r ELSE Onward(f[i - 1], ds[i])]
    OBVIOUS
  <2> HIDE DEF f
  <2>2. Afters(r, ds, 0, f)
    BY <2>1 DEF Afters
  <2> QED
    BY <1>2, <2>2
<1>4. m - 1 \in Nat /\ m - 1 \notin Bad /\ (m - 1) + 1 = m
  BY <1>2, <1>3
<1> QED
  BY <1>2, <1>4, AftersGrow

\* The results of the loop, one for each number of fragments handled.
LEMMA AfterCallsUnfold ==
    ASSUME NEW r, NEW ds, Len(ds) \in Nat
    PROVE  \E f : /\ f[0] = r
                  /\ \A n \in 1..Len(ds) : f[n] = Onward(f[n - 1], ds[n])
                  /\ AfterCalls(r, ds) = f[Len(ds)]
<1> DEFINE f == CHOOSE f : Afters(r, ds, Len(ds), f)
<1>1. Afters(r, ds, Len(ds), f)
  BY AftersExist
<1>2. AfterCalls(r, ds) = f[Len(ds)]
  BY DEF AfterCalls, Afters, Onward
<1> HIDE DEF f
<1>3. f[0] = r /\ \A n \in 1..Len(ds) : f[n] = Onward(f[n - 1], ds[n])
  BY <1>1 DEF Afters
<1> QED
  BY <1>2, <1>3

\* A step of the loop keeps what is good, and a failure stays a failure.
LEMMA OnwardGood ==
    ASSUME NEW r, NEW s, NEW d \in ToolDeltas, Good(s, r), r.ok => Growing(r.a), Onward(r, d).ok
    PROVE  /\ r.ok
           /\ Good(s, Onward(r, d))
           /\ LET b == Onward(r, d).a
              IN  /\ Growing(b)
                  /\ b.text = r.a.text
                  /\ DOMAIN b.toolMap = DOMAIN r.a.toolMap \union {d.ix}
                  /\ \A x \in DOMAIN b.toolMap :
                        Args(b, x) = Args(r.a, x) \o (IF x = d.ix THEN Piece(d.frag) ELSE <<>>)
<1> DEFINE next == ToolDeltaEvents(r.a, d)
<1>1. Onward(r, d) = IF ~r.ok THEN r ELSE IF next.ok THEN Ok(next.a, r.ev \o next.ev) ELSE next
  BY DEF Onward, Then
<1> HIDE DEF next
<1>2. r.ok /\ next.ok /\ Onward(r, d).a = next.a
  BY <1>1 DEF Ok
<1>3. AdapterInv(r.a) /\ Growing(r.a) /\ \E t : Matches(r.a, t)
  BY <1>2 DEF Good
<1>4. PICK t : Matches(r.a, t)
  BY <1>3
<1>5. \A u : Matches(r.a, u) => Good(u, next)
  BY <1>2, <1>3, ToolGood DEF next
<1>6. Good(s, Onward(r, d))
  BY <1>1, <1>5, GoodThen
<1>7. /\ Growing(next.a)
      /\ next.a.text = r.a.text
      /\ DOMAIN next.a.toolMap = DOMAIN r.a.toolMap \union {d.ix}
      /\ \A x \in DOMAIN next.a.toolMap :
            Args(next.a, x) = Args(r.a, x) \o (IF x = d.ix THEN Piece(d.frag) ELSE <<>>)
  BY <1>2, <1>3, <1>4, ToolGood DEF next
<1> QED
  BY <1>2, <1>6, <1>7

\* What the first n fragments bring for the index x.
Bits(ds, n, x) == [i \in 1..n |-> IF ds[i].ix = x THEN Piece(ds[i].frag) ELSE <<>>]

\* The fragments of a chunk.
LEMMA DeltasTyped ==
    ASSUME NEW ds \in Seq(ToolDeltas), NEW i \in 1..Len(ds)
    PROVE  ds[i] \in ToolDeltas /\ ds[i].frag \in STRING /\ ds[i].ix \in STRING \ {"text"}
<1>1. ds[i] \in ToolDeltas
  OBVIOUS
<1> QED
  BY <1>1 DEF ToolDeltas

\* What they bring is argument text.
LEMMA BitsTyped ==
    ASSUME NEW ds \in Seq(ToolDeltas), NEW n \in 0..Len(ds), NEW x
    PROVE  /\ Bits(ds, n, x) \in Seq(Seq(STRING))
           /\ FlattenSeq(Bits(ds, n, x)) \in Seq(STRING)
<1>1. \A i \in 1..n : (IF ds[i].ix = x THEN Piece(ds[i].frag) ELSE <<>>) \in Seq(STRING)
  <2> TAKE i \in 1..n
  <2>1. i \in 1..Len(ds)
    OBVIOUS
  <2>2. Piece(ds[i].frag) \in Seq(STRING) /\ <<>> \in Seq(STRING)
    BY <2>1, DeltasTyped, PieceTyped
  <2> QED
    BY <2>2
<1>2. Bits(ds, n, x) \in Seq(Seq(STRING))
  BY <1>1 DEF Bits
<1> QED
  BY <1>2, FlattenType

\* One fragment more brings its own piece.
LEMMA BitsUnfold ==
    ASSUME NEW ds \in Seq(ToolDeltas), NEW x
    PROVE  /\ FlattenSeq(Bits(ds, 0, x)) = <<>>
           /\ \A n \in 1..Len(ds) :
                 FlattenSeq(Bits(ds, n, x))
                    = FlattenSeq(Bits(ds, n - 1, x)) \o (IF x = ds[n].ix THEN Piece(ds[n].frag) ELSE <<>>)
<1>1. Bits(ds, 0, x) = <<>>
  BY DEF Bits
<1>2. ASSUME NEW n \in 1..Len(ds)
      PROVE  FlattenSeq(Bits(ds, n, x))
                = FlattenSeq(Bits(ds, n - 1, x)) \o (IF x = ds[n].ix THEN Piece(ds[n].frag) ELSE <<>>)
  <2> DEFINE last == IF ds[n].ix = x THEN Piece(ds[n].frag) ELSE <<>>
  <2>1. last \in Seq(STRING)
    <3>2. Piece(ds[n].frag) \in Seq(STRING) /\ <<>> \in Seq(STRING)
      BY DeltasTyped, PieceTyped
    <3> QED
      BY <3>2
  <2>2. n - 1 \in 0..Len(ds)
    OBVIOUS
  <2>3. Bits(ds, n - 1, x) \in Seq(Seq(STRING))
    BY <2>2, BitsTyped
  <2>4. Bits(ds, n, x) = Append(Bits(ds, n - 1, x), last)
    BY DEF Bits
  <2> HIDE DEF last
  <2>5. FlattenSeq(Bits(ds, n, x)) = FlattenSeq(Bits(ds, n - 1, x)) \o last
    BY <2>1, <2>3, <2>4, FlattenAppend
  <2> QED
    BY <2>5 DEF last
<1> QED
  BY <1>1, <1>2, FlattenEmpty
-----------------------------------------------------------------------------
\* Arguments are sequences of strings.
LEMMA ArgsTyped ==
    ASSUME NEW a, AdapterInv(a), NEW x
    PROVE  Args(a, x) \in Seq(STRING)
<1>1. CASE x \in DOMAIN a.toolMap
  <2>1. a.calls[a.toolMap[x]] \in Calls
    BY <1>1, CallsTyped DEF AdapterInv, Mapped
  <2> QED
    BY <1>1, <2>1 DEF Args, Calls
<1>2. CASE x \notin DOMAIN a.toolMap
  BY <1>2 DEF Args
<1> QED
  BY <1>1, <1>2

\* The empty sequence adds nothing, on either side.
LEMMA JoinedNothing == \A S : \A one \in Seq(S) : one \o <<>> = one /\ <<>> \o one = one
  OBVIOUS

\* q is r, n of the fragments later.
Advanced(s, r, q, ds, n) ==
    /\ Good(s, q)
    /\ Growing(q.a)
    /\ q.a.text = r.a.text
    /\ DOMAIN q.a.toolMap = DOMAIN r.a.toolMap \union {ds[i].ix : i \in 1..n}
    /\ \A x \in DOMAIN q.a.toolMap : Args(q.a, x) = Args(r.a, x) \o FlattenSeq(Bits(ds, n, x))

\* No fragments change nothing.
LEMMA AdvancedNowhere ==
    ASSUME NEW s, NEW r, NEW ds \in Seq(ToolDeltas), r.ok, Good(s, r), Growing(r.a)
    PROVE  Advanced(s, r, r, ds, 0)
<1>1. {ds[i].ix : i \in 1..0} = {}
  OBVIOUS
<1>2. ASSUME NEW x PROVE Args(r.a, x) = Args(r.a, x) \o FlattenSeq(Bits(ds, 0, x))
  <2>1. Args(r.a, x) \in Seq(STRING)
    BY ArgsTyped DEF Good
  <2> QED
    BY <2>1, BitsUnfold, JoinedNothing
<1> QED
  BY <1>1, <1>2 DEF Advanced

\* Empty parts make nothing.
LEMMA FlattenNothing ==
    ASSUME NEW n \in Nat
    PROVE  FlattenSeq([i \in 1..n |-> <<>>]) = <<>>
<1> DEFINE nothings(m) == [i \in 1..m |-> <<>>]
           Bad == {m \in Nat : FlattenSeq(nothings(m)) # <<>>}
<1>1. SUFFICES ASSUME n \in Bad PROVE FALSE
  OBVIOUS
<1>2. PICK m \in Bad : \A k \in Bad : m <= k
  BY <1>1, LeastNat
<1>3. nothings(0) = <<>>
  OBVIOUS
<1>4. <<>> \in Seq(STRING) /\ <<>> \o <<>> = <<>>
  OBVIOUS
<1>5. \A k \in Nat : nothings(k) \in Seq(Seq(STRING))
  BY <1>4
<1>6. \A k \in Nat \ {0} : nothings(k) = Append(nothings(k - 1), <<>>)
  OBVIOUS
<1> HIDE DEF nothings
<1>7. m # 0
  BY <1>2, <1>3, FlattenEmpty
<1>8. m - 1 \in Nat /\ m - 1 \notin Bad /\ m \in Nat \ {0}
  BY <1>2, <1>7
<1>9. FlattenSeq(nothings(m)) = FlattenSeq(nothings(m - 1)) \o <<>>
  BY <1>4, <1>5, <1>6, <1>8, FlattenAppend
<1> QED
  BY <1>2, <1>4, <1>8, <1>9

\* A chunk without fragments for an index brings it nothing.
LEMMA NothingBrought ==
    ASSUME NEW ds \in Seq(ToolDeltas), NEW n \in 0..Len(ds), NEW x, \A i \in 1..n : ds[i].ix # x
    PROVE  FlattenSeq(Bits(ds, n, x)) = <<>>
<1>1. Bits(ds, n, x) = [i \in 1..n |-> <<>>] /\ n \in Nat
  BY DEF Bits
<1> QED
  BY <1>1, FlattenNothing

\* Joining sequences of text does not depend on the order of joining.
LEMMA Joined ==
    \A one, two, three \in Seq(STRING) : (one \o two) \o three = one \o (two \o three)
  BY ConcatAssociative

\* The loop advances by a fragment at a time.
LEMMA AdvancedByOne ==
    ASSUME NEW s, NEW r, NEW q, NEW ds \in Seq(ToolDeltas), NEW n \in 1..Len(ds), r.ok, AdapterInv(r.a),
           Advanced(s, r, q, ds, n - 1), Onward(q, ds[n]).ok
    PROVE  Advanced(s, r, Onward(q, ds[n]), ds, n)
<1> DEFINE o == Onward(q, ds[n])
           d == ds[n]
<1>1. d \in ToolDeltas /\ n - 1 \in 0..Len(ds)
  BY DeltasTyped
<1>2. /\ Good(s, o) /\ Growing(o.a) /\ o.a.text = q.a.text
      /\ DOMAIN o.a.toolMap = DOMAIN q.a.toolMap \union {d.ix}
      /\ \A x \in DOMAIN o.a.toolMap :
            Args(o.a, x) = Args(q.a, x) \o (IF x = d.ix THEN Piece(d.frag) ELSE <<>>)
  BY <1>1, OnwardGood DEF Advanced
<1>3. {ds[i].ix : i \in 1..n} = {ds[i].ix : i \in 1..(n - 1)} \union {d.ix}
  <2>1. \A i : i \in 1..n <=> i \in 1..(n - 1) \/ i = n
    OBVIOUS
  <2> QED
    BY <2>1
<1>4. ASSUME NEW x \in DOMAIN o.a.toolMap
      PROVE  Args(o.a, x) = Args(r.a, x) \o FlattenSeq(Bits(ds, n, x))
  <2> DEFINE bit == IF x = d.ix THEN Piece(d.frag) ELSE <<>>
  <2>1. bit \in Seq(STRING)
    <3>1. Piece(d.frag) \in Seq(STRING) /\ <<>> \in Seq(STRING)
      BY DeltasTyped, PieceTyped
    <3> QED
      BY <3>1
  <2>2. FlattenSeq(Bits(ds, n, x)) = FlattenSeq(Bits(ds, n - 1, x)) \o bit
    BY BitsUnfold
  <2>3. Args(o.a, x) = Args(q.a, x) \o bit
    BY <1>2
  <2>4. Args(r.a, x) \in Seq(STRING) /\ FlattenSeq(Bits(ds, n - 1, x)) \in Seq(STRING)
    BY <1>1, ArgsTyped, BitsTyped
  <2>5. Args(q.a, x) = Args(r.a, x) \o FlattenSeq(Bits(ds, n - 1, x))
    <3>1. CASE x \in DOMAIN q.a.toolMap
      BY <3>1 DEF Advanced
    <3>2. CASE x \notin DOMAIN q.a.toolMap
      <4>1. x \notin DOMAIN r.a.toolMap /\ \A i \in 1..(n - 1) : ds[i].ix # x
        BY <3>2 DEF Advanced
      <4>3. FlattenSeq(Bits(ds, n - 1, x)) = <<>>
        BY <1>1, <4>1, NothingBrought
      <4> QED
        BY <3>2, <4>1, <4>3, JoinedNothing DEF Args
    <3> QED
      BY <3>1, <3>2
  <2> DEFINE first == Args(r.a, x)
             then == FlattenSeq(Bits(ds, n - 1, x))
  <2>6. (first \o then) \o bit = first \o (then \o bit)
    <3>1. first \in Seq(STRING) /\ then \in Seq(STRING) /\ bit \in Seq(STRING)
      BY <2>1, <2>4
    <3> HIDE DEF first, then, bit
    <3> QED
      BY <3>1, Joined
  <2> HIDE DEF bit, d, o
  <2> QED
    BY <2>2, <2>3, <2>5, <2>6
<1> SUFFICES Advanced(s, r, o, ds, n)
  OBVIOUS
<1> HIDE DEF o, d
<1> QED
  BY <1>2, <1>3, <1>4 DEF Advanced
-----------------------------------------------------------------------------
\* All fragments of a chunk: each index has what they bring it, in their order.
LEMMA AfterCallsGood ==
    ASSUME NEW s, NEW r, NEW ds \in Seq(ToolDeltas), r.ok, Good(s, r), Growing(r.a), AfterCalls(r, ds).ok
    PROVE  Advanced(s, r, AfterCalls(r, ds), ds, Len(ds))
<1> DEFINE n == Len(ds)
<1>0. n \in Nat
  OBVIOUS
<1>1. PICK f : /\ f[0] = r
               /\ \A k \in 1..n : f[k] = Onward(f[k - 1], ds[k])
               /\ AfterCalls(r, ds) = f[n]
  BY <1>0, AfterCallsUnfold
<1> DEFINE Bad == {k \in 0..n : f[k].ok /\ ~Advanced(s, r, f[k], ds, k)}
<1>2. SUFFICES ASSUME n \in Bad PROVE FALSE
  BY <1>0, <1>1
<1>3. PICK k \in Bad : \A j \in Bad : k <= j
  <2>1. Bad \in SUBSET Nat
    BY <1>0
  <2> QED
    BY <1>2, <2>1, LeastNat
<1>4. k # 0
  BY <1>1, <1>3, AdvancedNowhere
<1>5. k \in 1..n /\ k - 1 \in 0..n /\ k - 1 \notin Bad
  BY <1>0, <1>3, <1>4
<1>6. f[k] = Onward(f[k - 1], ds[k]) /\ Onward(f[k - 1], ds[k]).ok
  BY <1>1, <1>3, <1>5
<1>7. f[k - 1].ok
  BY <1>6 DEF Onward, Then
<1>8. Advanced(s, r, f[k - 1], ds, k - 1)
  BY <1>5, <1>7
<1>9. AdapterInv(r.a)
  BY DEF Good
<1>10. Advanced(s, r, f[k], ds, k)
  BY <1>5, <1>6, <1>8, <1>9, AdvancedByOne
<1> QED
  BY <1>3, <1>10
-----------------------------------------------------------------------------
\* The client has closed the items of the first m calls.
Closed(s, t, a, m) ==
    /\ t.opened = s.opened
    /\ t.outcome = s.outcome
    /\ \A k : k \in DOMAIN t.items <=> k \in DOMAIN s.items
    /\ \A k \in DOMAIN s.items : t.items[k] = s.items[k]
    /\ t.finished = s.finished \union {a.calls[i].out : i \in 1..m}

\* The closing events, one for each call.
DoneFrames(a) == [i \in DOMAIN a.calls |-> <<CallDone(a.calls[i])>>]

\* Closing a call is one event.
LEMMA CallDoneTyped ==
    ASSUME NEW a, AdapterInv(a), NEW i \in DOMAIN a.calls, a.calls[i].added
    PROVE  /\ CallDone(a.calls[i]) \in Events
           /\ a.calls[i].out \in Nat /\ ToolKind[a.calls[i].name] \in Strings
           /\ a.calls[i].id \in Strings /\ a.calls[i].args \in Seq(STRING)
<1> DEFINE call == a.calls[i]
<1>1. call \in Calls
  BY CallsTyped
<1>2. call.name \in DOMAIN ToolKind
  BY DEF AdapterInv, Announced, Known
<1>3. ToolKind[call.name] \in Strings
  BY <1>2, ToolKindTyped
<1> HIDE DEF call
<1>4. call.out \in Nat /\ call.id \in Strings /\ call.args \in Seq(STRING)
  BY <1>1 DEF Calls
<1>5. CallDone(call) \in
         [type : {"added", "done"}, index : Nat, kind : Strings, id : Strings, body : Seq(STRING)]
  BY <1>3, <1>4 DEF CallDone, Done
<1> QED
  BY <1>3, <1>4, <1>5 DEF Events, call

\* The closing events are allowed, and close the items of all calls.
LEMMA CallsClose ==
    ASSUME NEW a, AdapterInv(a), NEW s, s.outcome = "none", s.opened,
           \A i \in DOMAIN a.calls :
              /\ a.calls[i].added
              /\ a.calls[i].out \in DOMAIN s.items /\ a.calls[i].out \notin s.finished
              /\ s.items[a.calls[i].out] = CallItem(a.calls[i])
    PROVE  \E t : Leads(TRUE, s, FlattenSeq(DoneFrames(a)), t) /\ Closed(s, t, a, Len(a.calls))
<1> DEFINE n == Len(a.calls)
           first(m) == [i \in 1..m |-> <<CallDone(a.calls[i])>>]
           Reached(m) == \E t : Leads(TRUE, s, FlattenSeq(first(m)), t) /\ Closed(s, t, a, m)
           Bad == {m \in 0..n : ~Reached(m)}
<1>0. /\ n \in Nat /\ DOMAIN a.calls = 1..n
      /\ \A i \in 1..n : a.calls[i].out \in Nat
      /\ \A i, j \in 1..n : i # j => a.calls[i].out # a.calls[j].out
  <2>1. a.calls \in Seq(Calls)
    BY CallsTyped
  <2>2. n \in Nat /\ DOMAIN a.calls = 1..n
    BY <2>1
  <2> QED
    BY <2>2, CallDoneTyped DEF AdapterInv, Indexed
<1>1. first(n) = DoneFrames(a)
  BY <1>0 DEF DoneFrames
<1>2. first(0) = <<>>
  OBVIOUS
<1>3. \A m \in 0..n : first(m) \in Seq(Seq(Events))
  <2> TAKE m \in 0..n
  <2>1. \A i \in 1..m : CallDone(a.calls[i]) \in Events
    BY <1>0, CallDoneTyped
  <2>2. \A i \in 1..m : <<CallDone(a.calls[i])>> \in Seq(Events)
    BY <2>1
  <2> QED
    BY <1>0, <2>2
<1>4. \A m \in 1..n : first(m) = Append(first(m - 1), <<CallDone(a.calls[m])>>)
  BY <1>0
<1> HIDE DEF first, n
<1>5. SUFFICES ASSUME n \in Bad PROVE FALSE
  <2>1. SUFFICES Reached(n)
    BY <1>1 DEF n
  <2> HIDE DEF Reached
  <2> QED
    BY <1>0
<1> HIDE DEF Reached
<1>6. PICK m \in Bad : \A k \in Bad : m <= k
  <2>1. Bad \in SUBSET Nat
    BY <1>0
  <2> QED
    BY <1>5, <2>1, LeastNat
<1>7. m # 0
  <2>1. Closed(s, s, a, 0)
    <3>1. {a.calls[i].out : i \in 1..0} = {}
      OBVIOUS
    <3> QED
      BY <3>1 DEF Closed
  <2> QED
    <3>1. Leads(TRUE, s, FlattenSeq(first(0)), s)
      <4>1. FlattenSeq(first(0)) = <<>>
        BY <1>2, FlattenEmpty
      <4>2. Leads(TRUE, s, <<>>, s)
        BY LeadsNowhere
      <4> QED
        BY <4>1, <4>2
    <3>2. Reached(0)
      BY <2>1, <3>1 DEF Reached
    <3> QED
      BY <1>6, <3>2
<1>8. m \in 1..n /\ m - 1 \in 0..n /\ m - 1 \notin Bad
  BY <1>0, <1>6, <1>7
<1>9. PICK t : Leads(TRUE, s, FlattenSeq(first(m - 1)), t) /\ Closed(s, t, a, m - 1)
  BY <1>8 DEF Reached
<1> DEFINE call == a.calls[m]
           kind == ToolKind[call.name]
           e == Done(call.out, kind, call.id, call.args)
<1>10. /\ CallDone(call) = e /\ call.out \in Nat /\ kind \in Strings /\ call.id \in Strings
       /\ call.args \in Seq(STRING) /\ e \in Events
  BY <1>0, <1>8, CallDoneTyped DEF CallDone
<1>11. /\ t.outcome = "none" /\ OpenIn(t, call.out)
       /\ t.items[call.out] = Item(kind, call.id, call.args)
  <2>1. call.out \in DOMAIN t.items /\ t.items[call.out] = CallItem(call)
    BY <1>0, <1>8, <1>9 DEF Closed
  <2>2. call.out \notin t.finished
    <3>1. \A i \in 1..(m - 1) : i \in 1..n /\ i # m
      BY <1>0, <1>8
    <3>2. \A i \in 1..(m - 1) : a.calls[i].out # call.out
      BY <1>0, <1>8, <3>1
    <3> QED
      BY <1>0, <1>8, <1>9, <3>2 DEF Closed
  <2> QED
    BY <1>9, <2>1, <2>2 DEF Closed, OpenIn, CallItem
<1>12. PICK u : /\ Leads(TRUE, t, <<e>>, u) /\ Changed(t, u, call.out, Item(kind, call.id, call.args))
                /\ Closes(t, u, call.out)
  <2> DEFINE out == call.out
             id == call.id
             args == call.args
  <2>1. /\ out \in Nat /\ kind \in Strings /\ id \in Strings /\ args \in Seq(STRING)
        /\ t.outcome = "none" /\ OpenIn(t, out) /\ t.items[out] = Item(kind, id, args)
        /\ e = Done(out, kind, id, args)
    BY <1>10, <1>11
  <2> DEFINE last == Done(out, kind, id, args)
  <2> HIDE DEF out, id, args, kind, e
  <2>2. /\ Leads(TRUE, t, <<last>>, Shown(t, last))
        /\ Changed(t, Shown(t, last), out, Item(kind, id, args))
        /\ Closes(t, Shown(t, last), out)
    BY <2>1, DoneShown
  <2> HIDE DEF last
  <2> QED
    BY <2>1, <2>2 DEF out, id, args, last
<1> HIDE DEF e
<1>13. Closed(s, u, a, m)
  <2>1. {a.calls[i].out : i \in 1..m} = {a.calls[i].out : i \in 1..(m - 1)} \union {call.out}
    <3>1. \A i : i \in 1..m <=> i \in 1..(m - 1) \/ i = m
      BY <1>0, <1>8
    <3> QED
      BY <3>1
  <2> HIDE DEF call
  <2> QED
    BY <1>9, <1>11, <1>12, <2>1 DEF Closed, Changed, Closes, OpenIn
<1>14. FlattenSeq(first(m)) = FlattenSeq(first(m - 1)) \o <<e>>
  <2>1. <<e>> \in Seq(Events)
    BY <1>10
  <2> QED
    BY <1>3, <1>4, <1>8, <1>10, <2>1, FlattenAppend
<1>15. Leads(TRUE, s, FlattenSeq(first(m)), u)
  <2> DEFINE before == FlattenSeq(first(m - 1))
  <2> HIDE DEF before
  <2>1. Leads(TRUE, s, before \o <<e>>, u)
    BY <1>9, <1>12, LeadsOn DEF before
  <2> QED
    BY <1>14, <2>1 DEF before
<1> QED
  BY <1>6, <1>13, <1>15 DEF Reached
-----------------------------------------------------------------------------
\* All calls done.
AllDone(calls) == [i \in DOMAIN calls |-> [calls[i] EXCEPT !.done = TRUE]]

\* Nothing else of them changes.
LEMMA AllDoneFields ==
    ASSUME NEW calls \in Seq(Calls)
    PROVE  /\ AllDone(calls) \in Seq(Calls)
           /\ DOMAIN AllDone(calls) = DOMAIN calls
           /\ \A i \in DOMAIN calls :
                 LET call == AllDone(calls)[i]
                 IN  /\ call.out = calls[i].out /\ call.id = calls[i].id /\ call.name = calls[i].name
                     /\ call.args = calls[i].args /\ call.added = calls[i].added /\ call.done
<1>1. \A i \in DOMAIN calls : calls[i] \in Calls
  OBVIOUS
<1>2. ASSUME NEW call \in Calls
      PROVE  LET new == [call EXCEPT !.done = TRUE]
             IN  /\ new \in Calls
                 /\ new.out = call.out /\ new.id = call.id /\ new.name = call.name
                 /\ new.args = call.args /\ new.added = call.added /\ new.done
  BY DEF Calls
<1>3. AllDone(calls) \in Seq(Calls)
  BY <1>1, <1>2 DEF AllDone
<1>4. DOMAIN AllDone(calls) = DOMAIN calls
  BY DEF AllDone
<1>5. \A i \in DOMAIN calls : AllDone(calls)[i] = [calls[i] EXCEPT !.done = TRUE]
  BY DEF AllDone
<1>6. ASSUME NEW i \in DOMAIN calls
      PROVE  LET call == AllDone(calls)[i]
             IN  /\ call.out = calls[i].out /\ call.id = calls[i].id /\ call.name = calls[i].name
                 /\ call.args = calls[i].args /\ call.added = calls[i].added /\ call.done
  <2>1. calls[i] \in Calls /\ AllDone(calls)[i] = [calls[i] EXCEPT !.done = TRUE]
    BY <1>1, <1>5
  <2> QED
    BY <1>2, <2>1
<1> QED
  BY <1>3, <1>4, <1>6

\* The adapter that has seen the finish reason,
Finishing(a, status) == [a EXCEPT !.finishSeen = TRUE, !.status = status]

\* and that has closed its items.
Finished(a) == [a EXCEPT !.textDone = a.textIndex # NoIndex, !.calls = AllDone(a.calls)]

\* What changes with the finish reason.
LEMMA FinishingFields ==
    ASSUME NEW a \in Adapters, NEW status \in {"completed", "incomplete"}
    PROVE  LET b == Finishing(a, status)
           IN  /\ b \in Adapters
               /\ b.started = a.started /\ b.finishSeen /\ b.terminal = a.terminal
               /\ b.status = status /\ b.textDone = a.textDone /\ b.text = a.text
               /\ b.textIndex = a.textIndex /\ b.nextIndex = a.nextIndex /\ b.toolMap = a.toolMap
               /\ b.calls = a.calls
  BY DEF Finishing, Adapters

\* What changes as the items are closed.
LEMMA FinishedFields ==
    ASSUME NEW a \in Adapters
    PROVE  LET b == Finished(a)
           IN  /\ b \in Adapters
               /\ b.started = a.started /\ b.finishSeen = a.finishSeen /\ b.terminal = a.terminal
               /\ b.status = a.status /\ b.text = a.text
               /\ b.textDone <=> a.textIndex # NoIndex
               /\ b.textIndex = a.textIndex /\ b.nextIndex = a.nextIndex /\ b.toolMap = a.toolMap
               /\ b.calls = AllDone(a.calls)
<1>1. AllDone(a.calls) \in Seq(Calls)
  <2>1. a.calls \in Seq(Calls)
    BY DEF Adapters
  <2> QED
    BY <2>1, AllDoneFields
<1> DEFINE done == a.textIndex # NoIndex
<1>2. done \in BOOLEAN
  OBVIOUS
<1>3. Finished(a) = [a EXCEPT !.textDone = done, !.calls = AllDone(a.calls)]
  BY DEF Finished
<1> HIDE DEF done
<1>4. LET b == Finished(a)
      IN  /\ b \in Adapters
          /\ b.started = a.started /\ b.finishSeen = a.finishSeen /\ b.terminal = a.terminal
          /\ b.status = a.status /\ b.text = a.text
          /\ b.textDone = done
          /\ b.textIndex = a.textIndex /\ b.nextIndex = a.nextIndex /\ b.toolMap = a.toolMap
          /\ b.calls = AllDone(a.calls)
  BY <1>1, <1>2, <1>3 DEF Adapters
<1> QED
  BY <1>4 DEF done

\* finish_events does both, or nothing if it was done.
LEMMA FinishEventsUnfold ==
    ASSUME NEW a \in Adapters, FinishEvents(a).ok
    PROVE  /\ ValidToolCalls(a)
           /\ FinishEvents(a).a = Finished(a)
           /\ FinishEvents(a).ev =
                (IF a.textIndex = NoIndex \/ a.textDone THEN <<>>
                 ELSE <<Done(a.textIndex, "message", None, a.text)>>)
                   \o FlattenSeq([i \in DOMAIN a.calls |->
                                    IF a.calls[i].done THEN <<>> ELSE <<CallDone(a.calls[i])>>])
  BY DEF FinishEvents, Ok, Err, Finished, AllDone

\* The call's item is done whoever finishes.
LEMMA FinishedInv ==
    ASSUME NEW a, AdapterInv(a), Growing(a), NEW status \in {"completed", "incomplete"},
           ValidToolCalls(Finishing(a, status))
    PROVE  LET f == Finished(Finishing(a, status))
           IN  /\ AdapterInv(f)
               /\ f.started /\ f.finishSeen /\ ~f.terminal
               /\ f.text = a.text /\ f.textIndex = a.textIndex /\ f.toolMap = a.toolMap
               /\ DOMAIN f.calls = DOMAIN a.calls
               /\ \A i \in DOMAIN a.calls :
                     /\ a.calls[i].added /\ f.calls[i].added
                     /\ f.calls[i].out = a.calls[i].out
                     /\ CallItem(f.calls[i]) = CallItem(a.calls[i])
                     /\ f.calls[i].args = a.calls[i].args
<1> DEFINE b == Finishing(a, status)
           f == Finished(b)
<1>1. a \in Adapters /\ a.calls \in Seq(Calls)
  BY DEF AdapterInv, Adapters
<1>2. /\ b \in Adapters
      /\ b.started = a.started /\ b.finishSeen /\ b.terminal = a.terminal
      /\ b.status = status /\ b.text = a.text
      /\ b.textIndex = a.textIndex /\ b.nextIndex = a.nextIndex /\ b.toolMap = a.toolMap
      /\ b.calls = a.calls
  BY <1>1, FinishingFields
<1>3. /\ f \in Adapters
      /\ f.started = b.started /\ f.finishSeen = b.finishSeen /\ f.terminal = b.terminal
      /\ f.status = b.status /\ f.text = b.text
      /\ f.textDone <=> b.textIndex # NoIndex
      /\ f.textIndex = b.textIndex /\ f.nextIndex = b.nextIndex /\ f.toolMap = b.toolMap
      /\ f.calls = AllDone(b.calls)
  BY <1>2, FinishedFields
<1>4. /\ \A i \in DOMAIN a.calls : a.calls[i].added
      /\ \A i, j \in DOMAIN a.calls : i # j => a.calls[i].id # a.calls[j].id
  <2>1. /\ \A i \in DOMAIN b.calls : b.calls[i].added
        /\ \A i, j \in DOMAIN b.calls : i < j => b.calls[i].id # b.calls[j].id
    BY DEF ValidToolCalls
  <2>2. \A i, j \in DOMAIN a.calls : i # j => i < j \/ j < i
    BY <1>1
  <2> HIDE DEF b, f
  <2> QED
    BY <1>2, <2>1, <2>2
<1> SUFFICES /\ AdapterInv(f)
             /\ f.started /\ f.finishSeen /\ ~f.terminal
             /\ f.text = a.text /\ f.textIndex = a.textIndex /\ f.toolMap = a.toolMap
             /\ DOMAIN f.calls = DOMAIN a.calls
             /\ \A i \in DOMAIN a.calls :
                   /\ a.calls[i].added /\ f.calls[i].added
                   /\ f.calls[i].out = a.calls[i].out
                   /\ CallItem(f.calls[i]) = CallItem(a.calls[i])
                   /\ f.calls[i].args = a.calls[i].args
  OBVIOUS
<1> HIDE DEF b, f
<1>5. /\ DOMAIN f.calls = DOMAIN a.calls
      /\ \A i \in DOMAIN a.calls :
            /\ f.calls[i].out = a.calls[i].out /\ f.calls[i].id = a.calls[i].id
            /\ f.calls[i].name = a.calls[i].name /\ f.calls[i].args = a.calls[i].args
            /\ f.calls[i].added = a.calls[i].added /\ f.calls[i].done
  BY <1>1, <1>2, <1>3, AllDoneFields
<1>6. \A i \in DOMAIN a.calls : CallItem(f.calls[i]) = CallItem(a.calls[i])
  BY <1>5 DEF CallItem
<1>7. Indexed(f)
  BY <1>2, <1>3, <1>5 DEF AdapterInv, Indexed
<1>8. Announced(f)
  BY <1>2, <1>3, <1>5 DEF AdapterInv, Announced, Known
<1>9. Staged(f)
  BY <1>2, <1>3, <1>4, <1>5 DEF Staged, Growing
<1>10. Mapped(f)
  BY <1>2, <1>3, <1>5 DEF AdapterInv, Mapped
<1>11. AdapterInv(f)
  BY <1>3, <1>7, <1>8, <1>9, <1>10 DEF AdapterInv
<1> QED
  BY <1>2, <1>3, <1>4, <1>5, <1>6, <1>11 DEF Growing
-----------------------------------------------------------------------------
\* The finish reason closes the text and every call, each with what it shows.
LEMMA FinishGood ==
    ASSUME NEW a, AdapterInv(a), Growing(a), NEW s, Matches(a, s),
           NEW status \in {"completed", "incomplete"}, FinishEvents(Finishing(a, status)).ok
    PROVE  Good(s, FinishEvents(Finishing(a, status)))
<1> DEFINE b == Finishing(a, status)
           f == Finished(b)
           r == FinishEvents(b)
<1>1. a \in Adapters /\ a.text \in Seq(STRING) /\ a.textIndex \in Nat \union {-1}
  BY DEF AdapterInv, Adapters, NoIndex
<1>2. /\ b \in Adapters
      /\ b.text = a.text /\ b.textIndex = a.textIndex /\ b.calls = a.calls /\ b.textDone = a.textDone
  BY <1>1, FinishingFields
<1>3. /\ ValidToolCalls(b)
      /\ r.a = f
      /\ r.ev = (IF b.textIndex = NoIndex \/ b.textDone THEN <<>>
                 ELSE <<Done(b.textIndex, "message", None, b.text)>>)
                   \o FlattenSeq([i \in DOMAIN b.calls |->
                                    IF b.calls[i].done THEN <<>> ELSE <<CallDone(b.calls[i])>>])
  BY <1>2, FinishEventsUnfold
<1>4. /\ AdapterInv(f)
      /\ f.started /\ f.finishSeen /\ ~f.terminal
      /\ f.text = a.text /\ f.textIndex = a.textIndex /\ f.toolMap = a.toolMap
      /\ DOMAIN f.calls = DOMAIN a.calls
      /\ \A i \in DOMAIN a.calls :
            /\ a.calls[i].added /\ f.calls[i].added
            /\ f.calls[i].out = a.calls[i].out
            /\ CallItem(f.calls[i]) = CallItem(a.calls[i])
  BY <1>3, FinishedInv
<1> SUFFICES ASSUME r.ok PROVE Good(s, r)
  OBVIOUS
<1> HIDE DEF b, f, r
<1>5. /\ ~a.textDone /\ \A i \in DOMAIN a.calls : ~a.calls[i].done
      /\ s.outcome = "none" /\ s.opened /\ s.finished = {}
      /\ \A i \in DOMAIN a.calls : a.calls[i].out # a.textIndex
  BY DEF AdapterInv, Staged, Growing, Matches, Indexed
<1>6. [i \in DOMAIN b.calls |-> IF b.calls[i].done THEN <<>> ELSE <<CallDone(b.calls[i])>>] = DoneFrames(a)
  BY <1>2, <1>5 DEF DoneFrames
<1> DEFINE text == IF a.textIndex = NoIndex THEN <<>>
                   ELSE <<Done(a.textIndex, "message", None, a.text)>>
<1>7. r.ev = text \o FlattenSeq(DoneFrames(a))
  BY <1>2, <1>3, <1>5, <1>6
\* The text is done first.
<1>8. PICK t : /\ Leads(TRUE, s, text, t)
               /\ t.opened /\ t.outcome = "none"
               /\ \A k : k \in DOMAIN t.items <=> k \in DOMAIN s.items
               /\ \A k \in DOMAIN s.items : t.items[k] = s.items[k]
               /\ t.finished = {a.textIndex} \ {NoIndex}
  <2>1. CASE a.textIndex = NoIndex
    <3>1. Leads(TRUE, s, text, s)
      BY <2>1, LeadsNowhere
    <3> HIDE DEF text
    <3> QED
      BY <1>5, <2>1, <3>1
  <2>2. CASE a.textIndex # NoIndex
    <3> DEFINE i == a.textIndex
               e == Done(i, "message", None, a.text)
               t == Shown(s, e)
    <3>1. text = <<e>> /\ i \in Nat /\ OpenIn(s, i) /\ s.items[i] = Item("message", None, a.text)
      BY <1>1, <1>5, <2>2 DEF Matches, TextItem, OpenIn, NoIndex
    <3> HIDE DEF text
    <3>2. /\ Leads(TRUE, s, <<e>>, t)
          /\ Changed(s, t, i, Item("message", None, a.text))
          /\ Closes(s, t, i)
      BY <1>1, <1>5, <3>1, NamesTyped, DoneShown
    <3> HIDE DEF e, t
    <3>3. i \in DOMAIN s.items
      BY <3>1 DEF OpenIn
    <3>4. t.opened /\ t.outcome = "none" /\ t.finished = {a.textIndex} \ {NoIndex}
      BY <1>5, <2>2, <3>2 DEF Changed, Closes
    <3>5. /\ \A k : k \in DOMAIN t.items <=> k \in DOMAIN s.items
          /\ \A k \in DOMAIN s.items : t.items[k] = s.items[k]
      BY <3>1, <3>2, <3>3 DEF Changed
    <3>6. Leads(TRUE, s, text, t)
      BY <3>1, <3>2
    <3> QED
      BY <3>4, <3>5, <3>6
  <2> QED
    BY <2>1, <2>2
<1> HIDE DEF text
<1>9. \A i \in DOMAIN a.calls :
         /\ a.calls[i].added
         /\ a.calls[i].out \in DOMAIN t.items /\ a.calls[i].out \notin t.finished
         /\ t.items[a.calls[i].out] = CallItem(a.calls[i])
  BY <1>4, <1>5, <1>8 DEF Matches
<1>10. PICK u : Leads(TRUE, t, FlattenSeq(DoneFrames(a)), u) /\ Closed(t, u, a, Len(a.calls))
  BY <1>8, <1>9, CallsClose
<1>11. Leads(TRUE, s, r.ev, u)
  <2> DEFINE rest == FlattenSeq(DoneFrames(a))
  <2> HIDE DEF rest
  <2>1. Leads(TRUE, s, text \o rest, u)
    BY <1>8, <1>10, LeadsOn DEF rest
  <2> QED
    BY <1>7, <2>1 DEF rest
<1>12. Matches(f, u)
  <2>1. \A k : k \in DOMAIN u.items <=>
           \/ k = f.textIndex /\ f.textIndex # NoIndex
           \/ \E i \in DOMAIN f.calls : f.calls[i].added /\ f.calls[i].out = k
    <3>1. \A k : k \in DOMAIN u.items <=>
             \/ k = a.textIndex /\ a.textIndex # NoIndex
             \/ \E i \in DOMAIN a.calls : a.calls[i].added /\ a.calls[i].out = k
      BY <1>8, <1>10 DEF Matches, Closed
    <3> QED
      BY <1>4, <3>1
  <2>2. u.opened /\ u.outcome = "none"
    BY <1>8, <1>10 DEF Closed
  <2>3. \A k \in DOMAIN s.items : u.items[k] = s.items[k]
    BY <1>8, <1>10 DEF Closed
  <2>4. f.textIndex # NoIndex => u.items[f.textIndex] = TextItem(f)
    BY <1>4, <2>3 DEF Matches, TextItem
  <2>5. ASSUME NEW i \in DOMAIN f.calls PROVE u.items[f.calls[i].out] = CallItem(f.calls[i])
    <3>1. /\ a.calls[i].out \in DOMAIN s.items /\ s.items[a.calls[i].out] = CallItem(a.calls[i])
          /\ f.calls[i].out = a.calls[i].out /\ CallItem(f.calls[i]) = CallItem(a.calls[i])
      BY <1>4 DEF Matches
    <3> QED
      BY <2>3, <3>1
  <2>6. u.finished = DOMAIN u.items
    <3>1. DOMAIN a.calls = 1..Len(a.calls)
      BY CallsTyped
    <3>2. ASSUME NEW k PROVE k \in u.finished <=> k \in DOMAIN u.items
      <4>1. k \in u.finished <=> (k = a.textIndex /\ a.textIndex # NoIndex)
                                  \/ k \in {a.calls[i].out : i \in 1..Len(a.calls)}
        BY <1>8, <1>10 DEF Closed
      <4>2. k \in {a.calls[i].out : i \in 1..Len(a.calls)}
               <=> \E i \in DOMAIN f.calls : f.calls[i].added /\ f.calls[i].out = k
        BY <1>4, <3>1
      <4> QED
        BY <1>4, <2>1, <4>1, <4>2
    <3> QED
      BY <3>2
  <2> QED
    BY <1>4, <2>1, <2>2, <2>4, <2>5, <2>6 DEF Matches
<1> QED
  BY <1>3, <1>4, <1>11, <1>12, GoodAfter

\* Finishing loses nothing of what was sent.
LEMMA FinishKept ==
    ASSUME NEW a, AdapterInv(a), Growing(a),
           NEW status \in {"completed", "incomplete"}, FinishEvents(Finishing(a, status)).ok
    PROVE  LET f == FinishEvents(Finishing(a, status)).a
           IN  /\ f.started /\ f.finishSeen /\ ~f.terminal
               /\ f.text = a.text /\ DOMAIN f.toolMap = DOMAIN a.toolMap
               /\ \A x \in DOMAIN f.toolMap : Args(f, x) = Args(a, x)
<1> DEFINE b == Finishing(a, status)
           f == FinishEvents(b).a
<1>1. a \in Adapters /\ b \in Adapters
  BY FinishingFields DEF AdapterInv
<1>2. ValidToolCalls(b) /\ f = Finished(b)
  BY <1>1, FinishEventsUnfold
<1>3. /\ f.started /\ f.finishSeen /\ ~f.terminal
      /\ f.text = a.text /\ f.toolMap = a.toolMap
      /\ DOMAIN f.calls = DOMAIN a.calls
      /\ \A i \in DOMAIN a.calls : f.calls[i].args = a.calls[i].args
  BY <1>2, FinishedInv
<1> SUFFICES /\ f.started /\ f.finishSeen /\ ~f.terminal
             /\ f.text = a.text /\ DOMAIN f.toolMap = DOMAIN a.toolMap
             /\ \A x \in DOMAIN f.toolMap : Args(f, x) = Args(a, x)
  OBVIOUS
<1> HIDE DEF b, f
<1>4. \A x \in DOMAIN a.toolMap : a.toolMap[x] \in DOMAIN a.calls
  BY DEF AdapterInv, Mapped
<1> QED
  BY <1>3, <1>4 DEF Args

\* After the finish reason nothing is left to close.
LEMMA FinishAgain ==
    ASSUME NEW a, AdapterInv(a), a.finishSeen, FinishEvents(a).ok
    PROVE  FinishEvents(a).a = a /\ FinishEvents(a).ev = <<>>
<1>1. a \in Adapters /\ a.calls \in Seq(Calls) /\ Len(a.calls) \in Nat /\ DOMAIN a.calls = 1..Len(a.calls)
  BY CallsTyped DEF AdapterInv
<1>2. (a.textDone <=> a.textIndex # NoIndex) /\ \A i \in DOMAIN a.calls : a.calls[i].done
  BY DEF AdapterInv, Staged
<1>3. AllDone(a.calls) = a.calls
  <2>1. \A call \in Calls : call.done => [call EXCEPT !.done = TRUE] = call
    BY DEF Calls
  <2>2. \A i \in DOMAIN a.calls : a.calls[i] \in Calls
    BY CallsTyped
  <2>3. AllDone(a.calls) = [i \in DOMAIN a.calls |-> a.calls[i]]
    BY <1>2, <2>1, <2>2 DEF AllDone
  <2> QED
    BY <1>1, <2>3
<1>4. Finished(a) = a
  <2> DEFINE done == a.textIndex # NoIndex
  <2>1. done = a.textDone
    BY <1>1, <1>2 DEF Adapters
  <2>2. Finished(a) = [a EXCEPT !.textDone = a.textDone, !.calls = a.calls]
    BY <1>3, <2>1 DEF Finished
  <2> QED
    BY <1>1, <2>2 DEF Adapters
<1>5. [i \in DOMAIN a.calls |-> IF a.calls[i].done THEN <<>> ELSE <<CallDone(a.calls[i])>>]
         = [i \in 1..Len(a.calls) |-> <<>>]
  BY <1>1, <1>2
<1>6. <<>> \o <<>> = <<>>
  OBVIOUS
<1> QED
  BY <1>1, <1>2, <1>4, <1>5, <1>6, FinishEventsUnfold, FlattenNothing
-----------------------------------------------------------------------------
\* A function on 1..n is a sequence.
LEMMA IsSequence ==
    ASSUME NEW S, NEW n \in Nat, NEW f, f = [k \in 1..n |-> f[k]], \A k \in 1..n : f[k] \in S
    PROVE  f \in Seq(S)
<1>1. f \in [1..n -> S]
  OBVIOUS
<1> QED
  BY <1>1

\* An interval of indices has as many members.
LEMMA Counted ==
    ASSUME NEW n \in Nat, NEW f, DOMAIN f = 1..n, f = [i \in 1..n |-> f[i]],
           \A i, j \in 1..n : f[i] = f[j] => i = j
    PROVE  Cardinality({f[i] : i \in 1..n}) = n
<1> DEFINE T == {f[i] : i \in 1..n}
<1>1. f \in [1..n -> T]
  OBVIOUS
<1>2. \A t \in T : \E i \in 1..n : f[i] = t
  OBVIOUS
<1> HIDE DEF T
<1>3. f \in Bijection(1..n, T)
  BY <1>1, <1>2 DEF Bijection, Injection, Surjection, IsInjective
<1>4. ExistsBijection(1..n, T)
  BY <1>3 DEF ExistsBijection
<1> QED
  BY <1>4, FS_CountingElements DEF T

\* The output indices with their items.
Pairs(m, its) == {<<k, its[k]>> : k \in 0..(m - 1)}

\* There are as many pairs as indices.
LEMMA PairsCounted ==
    ASSUME NEW m \in Nat, NEW its
    PROVE  Cardinality(Pairs(m, its)) = m
<1> DEFINE f == [i \in 1..m |-> <<i - 1, its[i - 1]>>]
<1>1. {f[i] : i \in 1..m} = Pairs(m, its)
  <2>1. \A i \in 1..m : f[i] \in Pairs(m, its)
    BY DEF Pairs
  <2>2. ASSUME NEW x \in Pairs(m, its) PROVE \E i \in 1..m : f[i] = x
    <3>1. PICK k \in 0..(m - 1) : x = <<k, its[k]>>
      BY DEF Pairs
    <3>2. k + 1 \in 1..m /\ f[k + 1] = <<k, its[k]>>
      OBVIOUS
    <3> HIDE DEF f
    <3> QED
      BY <3>1, <3>2
  <2> HIDE DEF f
  <2> QED
    BY <2>1, <2>2
<1>2. \A i, j \in 1..m : f[i] = f[j] => i = j
  OBVIOUS
<1>3. DOMAIN f = 1..m /\ f = [i \in 1..m |-> f[i]]
  OBVIOUS
<1> HIDE DEF f
<1> QED
  BY <1>1, <1>2, <1>3, Counted

\* Sorted by output index, the listed items are numbered without a gap.
LEMMA OutputListed ==
    ASSUME NEW a, NEW its, NEW n \in Nat, Listed(a) = Pairs(n, its)
    PROVE  /\ OutputItems(a) = [k \in 1..n |-> its[k - 1]]
<1> DEFINE L == Listed(a)
           Place(x) == Cardinality({y \in L : y[1] <= x[1]})
<1>1. Cardinality(L) = n
  BY PairsCounted
<1>2. ASSUME NEW k \in 0..(n - 1) PROVE Place(<<k, its[k]>>) = k + 1
  <2>1. {y \in L : y[1] <= <<k, its[k]>>[1]} = Pairs(k + 1, its)
    <3>1. ASSUME NEW y PROVE y \in L /\ y[1] <= k <=> y \in Pairs(k + 1, its)
      <4>1. ASSUME y \in L, y[1] <= k PROVE y \in Pairs(k + 1, its)
        <5>1. PICK j \in 0..(n - 1) : y = <<j, its[j]>>
          BY <4>1 DEF Pairs
        <5>2. j \in 0..((k + 1) - 1)
          BY <4>1, <5>1
        <5> QED
          BY <5>1, <5>2 DEF Pairs
      <4>2. ASSUME y \in Pairs(k + 1, its) PROVE y \in L /\ y[1] <= k
        <5>1. PICK j \in 0..((k + 1) - 1) : y = <<j, its[j]>>
          BY <4>2 DEF Pairs
        <5>2. j \in 0..(n - 1) /\ j <= k /\ y[1] = j
          BY <5>1
        <5> QED
          BY <5>1, <5>2 DEF Pairs
      <4> QED
        BY <4>1, <4>2
    <3>2. <<k, its[k]>>[1] = k
      OBVIOUS
    <3> HIDE DEF L
    <3> QED
      BY <3>1, <3>2
  <2>2. k + 1 \in Nat
    OBVIOUS
  <2> QED
    BY <2>1, <2>2, PairsCounted
<1>3. ASSUME NEW k \in 1..n
      PROVE  (CHOOSE x \in L : Place(x) = k)[2] = its[k - 1]
  <2> DEFINE x == CHOOSE x \in L : Place(x) = k
  <2> SUFFICES x[2] = its[k - 1]
    OBVIOUS
  <2>1. k - 1 \in 0..(n - 1) /\ (k - 1) + 1 = k
    OBVIOUS
  <2>2. <<k - 1, its[k - 1]>> \in L /\ Place(<<k - 1, its[k - 1]>>) = k
    BY <1>2, <2>1 DEF Pairs
  <2> HIDE DEF Place
  <2>3. x \in L /\ Place(x) = k
    BY <2>2
  <2> HIDE DEF x
  <2>4. PICK j \in 0..(n - 1) : x = <<j, its[j]>>
    BY <2>3 DEF Pairs
  <2>5. j + 1 = k
    BY <1>2, <2>3, <2>4
  <2>6. j = k - 1
    BY <2>5
  <2> QED
    BY <2>4, <2>6
<1>4. OutputItems(a) = [k \in 1..Cardinality(L) |-> (CHOOSE x \in L : Place(x) = k)[2]]
  BY DEF OutputItems
<1> HIDE DEF L, Place
<1> QED
  BY <1>1, <1>3, <1>4

\* The items that the output lists are all that were announced.
LEMMA AllListed ==
    ASSUME NEW a, AdapterInv(a), a.finishSeen, NEW s, Matches(a, s)
    PROVE  Listed(a) = Pairs(a.nextIndex, s.items)
<1> DEFINE known == {i \in DOMAIN a.calls : a.calls[i].id # None /\ a.calls[i].name # None}
<1>0. a.nextIndex \in Nat /\ a.textIndex \in Nat \union {-1}
  BY DEF AdapterInv, Adapters, NoIndex
<1>1. known = DOMAIN a.calls
  BY DEF AdapterInv, Staged, Announced, Known
<1>2. \A i \in DOMAIN a.calls :
         /\ a.calls[i].out \in 0..(a.nextIndex - 1)
         /\ s.items[a.calls[i].out] = CallItem(a.calls[i])
  <2>1. \A i \in DOMAIN a.calls : a.calls[i].out \in Nat
    BY CallsTyped DEF Calls
  <2> QED
    BY <1>0, <2>1 DEF AdapterInv, Indexed, Staged, Matches
<1>3. a.textIndex # NoIndex => a.textIndex \in 0..(a.nextIndex - 1) /\ s.items[a.textIndex] = TextItem(a)
  BY <1>0 DEF AdapterInv, Indexed, Matches, NoIndex
<1>4. \A k \in 0..(a.nextIndex - 1) :
         (k = a.textIndex /\ a.textIndex # NoIndex) \/ \E i \in DOMAIN a.calls : a.calls[i].out = k
  BY <1>0 DEF AdapterInv, Indexed, NoIndex
<1>5. Listed(a) = {<<i, TextItem(a)>> : i \in {a.textIndex} \ {NoIndex}}
                    \union {<<a.calls[i].out, CallItem(a.calls[i])>> : i \in DOMAIN a.calls}
  BY <1>1 DEF Listed
<1> HIDE DEF known
<1>6. ASSUME NEW x \in Listed(a) PROVE x \in Pairs(a.nextIndex, s.items)
  <2>1. CASE x \in {<<i, TextItem(a)>> : i \in {a.textIndex} \ {NoIndex}}
    BY <1>3, <2>1 DEF Pairs
  <2>2. CASE x \in {<<a.calls[i].out, CallItem(a.calls[i])>> : i \in DOMAIN a.calls}
    BY <1>2, <2>2 DEF Pairs
  <2> QED
    BY <1>5, <2>1, <2>2
<1>7. ASSUME NEW x \in Pairs(a.nextIndex, s.items) PROVE x \in Listed(a)
  <2>1. PICK k \in 0..(a.nextIndex - 1) : x = <<k, s.items[k]>>
    BY DEF Pairs
  <2>2. CASE k = a.textIndex /\ a.textIndex # NoIndex
    <3>1. x = <<a.textIndex, TextItem(a)>>
      BY <1>3, <2>1, <2>2
    <3> QED
      BY <1>5, <2>2, <3>1
  <2>3. CASE \E i \in DOMAIN a.calls : a.calls[i].out = k
    <3>1. PICK i \in DOMAIN a.calls : a.calls[i].out = k
      BY <2>3
    <3>2. x = <<a.calls[i].out, CallItem(a.calls[i])>>
      BY <1>2, <2>1, <3>1
    <3> QED
      BY <1>5, <3>2
  <2> QED
    BY <1>4, <2>2, <2>3
<1> QED
  BY <1>6, <1>7

\* The terminal event lists what the client has.
LEMMA OutputMatches ==
    ASSUME NEW a, AdapterInv(a), a.finishSeen, NEW s, Matches(a, s)
    PROVE  /\ IsListing(OutputItems(a), s.items)
           /\ OutputItems(a) = [k \in 1..a.nextIndex |-> s.items[k - 1]]
           /\ \A k : k \in DOMAIN s.items <=> k \in 0..(a.nextIndex - 1)
           /\ OutputItems(a) \in Seq(Items)
<1>0. a.nextIndex \in Nat /\ a.textIndex \in Nat \union {-1} /\ a.text \in Seq(STRING)
  BY DEF AdapterInv, Adapters, NoIndex
<1>1. OutputItems(a) = [k \in 1..a.nextIndex |-> s.items[k - 1]]
  BY <1>0, AllListed, OutputListed
<1>2. \A k : k \in DOMAIN s.items <=> k \in 0..(a.nextIndex - 1)
  <2> TAKE k
  <2>1. \A i \in DOMAIN a.calls : a.calls[i].added /\ a.calls[i].out \in 0..(a.nextIndex - 1)
    <3>1. \A i \in DOMAIN a.calls : a.calls[i].out \in Nat
      BY CallsTyped DEF Calls
    <3> QED
      BY <1>0, <3>1 DEF AdapterInv, Indexed, Staged
  <2>2. a.textIndex # NoIndex => a.textIndex \in 0..(a.nextIndex - 1)
    BY <1>0 DEF AdapterInv, Indexed, NoIndex
  <2>3. k \in 0..(a.nextIndex - 1) =>
           (k = a.textIndex /\ a.textIndex # NoIndex) \/ \E i \in DOMAIN a.calls : a.calls[i].out = k
    BY <1>0 DEF AdapterInv, Indexed, NoIndex
  <2> QED
    BY <2>1, <2>2, <2>3 DEF Matches
<1>3. \A k \in DOMAIN s.items : s.items[k] \in Items
  <2> TAKE k \in DOMAIN s.items
  <2>1. CASE k = a.textIndex /\ a.textIndex # NoIndex
    BY <1>0, <2>1, NamesTyped DEF Matches, TextItem, Item, Items
  <2>2. CASE \E i \in DOMAIN a.calls : a.calls[i].added /\ a.calls[i].out = k
    <3>1. PICK i \in DOMAIN a.calls : a.calls[i].added /\ a.calls[i].out = k
      BY <2>2
    <3>2. s.items[k] = CallItem(a.calls[i])
      BY <3>1 DEF Matches
    <3> QED
      BY <3>1, <3>2, CallDoneTyped DEF CallItem, Item, Items
  <2> QED
    BY <2>1, <2>2 DEF Matches
<1>4. OutputItems(a) \in Seq(Items)
  <2>1. \A k \in 1..a.nextIndex : s.items[k - 1] \in Items
    <3> TAKE k \in 1..a.nextIndex
    <3>1. k - 1 \in 0..(a.nextIndex - 1)
      BY <1>0
    <3> QED
      BY <1>2, <1>3, <3>1
  <2> DEFINE output == OutputItems(a)
  <2>2. output = [k \in 1..a.nextIndex |-> output[k]] /\ \A k \in 1..a.nextIndex : output[k] \in Items
    BY <1>1, <2>1
  <2> HIDE DEF output
  <2>3. output \in Seq(Items)
    BY <1>0, <2>2, IsSequence
  <2> QED
    BY <2>3 DEF output
<1>5. IsListing(OutputItems(a), s.items)
  <2>1. DOMAIN OutputItems(a) = 1..a.nextIndex
    BY <1>1
  <2>2. \A k \in 1..a.nextIndex : OutputItems(a)[k] = s.items[k - 1]
    BY <1>1
  <2>3. DOMAIN s.items = {k - 1 : k \in 1..a.nextIndex}
    <3>1. \A k : k \in 0..(a.nextIndex - 1) <=> k \in {j - 1 : j \in 1..a.nextIndex}
      <4> TAKE k
      <4>1. ASSUME k \in 0..(a.nextIndex - 1) PROVE k \in {j - 1 : j \in 1..a.nextIndex}
        <5>1. k + 1 \in 1..a.nextIndex /\ k = (k + 1) - 1
          BY <1>0, <4>1
        <5> QED
          BY <5>1
      <4>2. ASSUME k \in {j - 1 : j \in 1..a.nextIndex} PROVE k \in 0..(a.nextIndex - 1)
        BY <1>0, <4>2
      <4> QED
        BY <4>1, <4>2
    <3> QED
      BY <1>2, <3>1
  <2> QED
    BY <2>1, <2>2, <2>3 DEF IsListing
<1> QED
  BY <1>1, <1>2, <1>4, <1>5
-----------------------------------------------------------------------------
\* The output depends on the announced items only.
LEMMA OutputSame ==
    ASSUME NEW a, NEW b, b.calls = a.calls, b.text = a.text, b.textIndex = a.textIndex
    PROVE  OutputItems(b) = OutputItems(a)
<1>1. Listed(b) = Listed(a)
  BY DEF Listed, TextItem
<1> QED
  BY <1>1 DEF OutputItems

\* The adapter after its terminal event.
Ended(a, status) == [a EXCEPT !.terminal = TRUE, !.status = status]

\* What the terminal event changes.
LEMMA EndedFields ==
    ASSUME NEW a \in Adapters, NEW status \in {"completed", "incomplete", "failed"}
    PROVE  LET b == Ended(a, status)
           IN  /\ b \in Adapters
               /\ b.started = a.started /\ b.finishSeen = a.finishSeen /\ b.terminal
               /\ b.status = status /\ b.textDone = a.textDone /\ b.text = a.text
               /\ b.textIndex = a.textIndex /\ b.nextIndex = a.nextIndex /\ b.toolMap = a.toolMap
               /\ b.calls = a.calls
  BY DEF Ended, Adapters

\* The terminal event completes the response, or cuts it off, as the finish reason said.
LEMMA EndedGood ==
    ASSUME NEW a, AdapterInv(a), ~a.terminal, NEW s, Matches(a, s),
           NEW status \in {"completed", "incomplete", "failed"},
           NEW output \in Seq(Items), NEW told \in Strings,
           status = "failed" \/ (a.finishSeen /\ output = OutputItems(a))
    PROVE  Good(s, Ok(Ended(a, status), <<Terminal(status, told, output)>>))
<1> DEFINE b == Ended(a, status)
           e == Terminal(status, told, output)
           t == Shown(s, e)
<1>1. /\ b \in Adapters
      /\ b.started = a.started /\ b.finishSeen = a.finishSeen /\ b.terminal
      /\ b.status = status /\ b.textDone = a.textDone /\ b.text = a.text
      /\ b.textIndex = a.textIndex /\ b.nextIndex = a.nextIndex /\ b.toolMap = a.toolMap
      /\ b.calls = a.calls
  BY EndedFields DEF AdapterInv
<1>2. /\ e.type = "terminal" /\ e.outcome = status /\ e.status = told /\ e.output = output
      /\ e \in Events
  <2>1. e \in [type : {"terminal"}, outcome : {"completed", "incomplete", "failed"},
               status : Strings, output : Seq(Items)]
    BY DEF Terminal
  <2> QED
    BY <2>1 DEF Events, Terminal
<1> HIDE DEF b, e
<1>3. AdapterInv(b)
  <2>1. Indexed(b)
    BY <1>1 DEF AdapterInv, Indexed
  <2>2. Announced(b)
    BY <1>1 DEF AdapterInv, Announced
  <2>3. Staged(b)
    BY <1>1 DEF AdapterInv, Staged
  <2>4. Mapped(b)
    BY <1>1 DEF AdapterInv, Mapped
  <2> QED
    BY <1>1, <2>1, <2>2, <2>3, <2>4 DEF AdapterInv
<1>4. Accepts(TRUE, s, e)
  <2>1. s.outcome = "none"
    BY DEF Matches
  <2>2. ASSUME status # "failed"
        PROVE  s.opened /\ s.finished = DOMAIN s.items /\ IsListing(output, s.items)
    BY <2>2, OutputMatches DEF Matches, AdapterInv, Staged
  <2> QED
    BY <1>2, <2>1, <2>2 DEF Accepts
<1>5. t.opened = s.opened /\ t.items = s.items /\ t.finished = s.finished /\ t.outcome = status
      /\ t.result.output = output
  BY <1>2 DEF Shown
<1> HIDE DEF t
<1>6. Matches(b, t)
  <2>1. TextItem(b) = TextItem(a)
    BY <1>1 DEF TextItem
  <2>2. status # "failed" => t.result.output = OutputItems(b)
    BY <1>1, <1>5, OutputSame
  <2> QED
    BY <1>1, <1>5, <2>1, <2>2 DEF Matches
<1>7. Leads(TRUE, s, <<e>>, t)
  BY <1>2, <1>4, LeadsByOne DEF t
<1> QED
  BY <1>3, <1>6, <1>7, GoodBy DEF b, e

\* A failure ends the response at any time before its end.
LEMMA FailedGood ==
    ASSUME NEW a, AdapterInv(a), NEW s, Matches(a, s)
    PROVE  /\ Good(s, FailedEvent(a))
           /\ FailedEvent(a).ok
           /\ FailedEvent(a).a.terminal
           /\ ~a.terminal => FailedEvent(a).a.status = "failed"
           /\ a.terminal => FailedEvent(a).a = a
<1>1. CASE a.terminal
  BY <1>1, GoodQuietly DEF FailedEvent, Ok
<1>2. CASE ~a.terminal
  <2>1. FailedEvent(a) = Ok(Ended(a, "failed"), <<Terminal("failed", "failed", <<>>)>>)
    BY <1>2 DEF FailedEvent, Ended
  <2>2. <<>> \in Seq(Items) /\ "failed" \in Strings
    BY DEF Strings
  <2>3. Good(s, FailedEvent(a))
    BY <1>2, <2>1, <2>2, EndedGood
  <2>4. Ended(a, "failed").terminal /\ Ended(a, "failed").status = "failed"
    BY EndedFields DEF AdapterInv
  <2> QED
    BY <1>2, <2>1, <2>3, <2>4 DEF Ok
<1> QED
  BY <1>1, <1>2

\* What an adapter holds stays, whatever else changes.
Kept(a, b) ==
    /\ b.text = a.text
    /\ DOMAIN b.toolMap = DOMAIN a.toolMap
    /\ \A x \in DOMAIN a.toolMap : Args(b, x) = Args(a, x)

\* `complete' ends a finished stream and fails any other.
LEMMA CompleteGood ==
    ASSUME NEW a, AdapterInv(a), a.finishSeen, NEW s, Matches(a, s)
    PROVE  /\ Good(s, CompleteEvent(a))
           /\ CompleteEvent(a).ok
           /\ Kept(a, CompleteEvent(a).a)
<1>1. CASE a.terminal
  BY <1>1, GoodQuietly DEF CompleteEvent, Ok, Kept
<1>2. CASE ~a.terminal
  <2>1. a.status \in {"completed", "incomplete"} /\ a \in Adapters
    BY <1>2 DEF AdapterInv, Staged, Adapters
  <2>2. CompleteEvent(a) = Ok(Ended(a, a.status), <<Terminal(a.status, a.status, OutputItems(a))>>)
    BY <1>2, <2>1 DEF CompleteEvent, Ended
  <2>3. a.status \in Strings /\ OutputItems(a) \in Seq(Items)
    BY <2>1, OutputMatches DEF Strings
  <2>4. Good(s, CompleteEvent(a))
    BY <1>2, <2>1, <2>2, <2>3, EndedGood
  <2>5. Kept(a, Ended(a, a.status))
    BY <2>1, EndedFields DEF Kept, Args
  <2> QED
    BY <2>2, <2>4, <2>5 DEF Ok
<1> QED
  BY <1>1, <1>2

\* The usage chunk ends a stream whose finish reason is known.
LEMMA UsageGood ==
    ASSUME NEW a, AdapterInv(a), NEW s, Matches(a, s), NEW usage \in BOOLEAN
    PROVE  LET b == [a EXCEPT !.usage = usage]
           IN  /\ AdapterInv(b)
               /\ Matches(b, s)
               /\ Kept(a, b)
               /\ b.started = a.started /\ b.finishSeen = a.finishSeen /\ b.terminal = a.terminal
               /\ b.status = a.status
<1> DEFINE b == [a EXCEPT !.usage = usage]
<1>1. /\ b \in Adapters
      /\ b.started = a.started /\ b.finishSeen = a.finishSeen /\ b.terminal = a.terminal
      /\ b.status = a.status /\ b.textDone = a.textDone /\ b.text = a.text
      /\ b.textIndex = a.textIndex /\ b.nextIndex = a.nextIndex /\ b.toolMap = a.toolMap
      /\ b.calls = a.calls
  BY DEF AdapterInv, Adapters
<1> HIDE DEF b
<1>2. AdapterInv(b)
  <2>1. Indexed(b)
    BY <1>1 DEF AdapterInv, Indexed
  <2>2. Announced(b)
    BY <1>1 DEF AdapterInv, Announced
  <2>3. Staged(b)
    BY <1>1 DEF AdapterInv, Staged
  <2>4. Mapped(b)
    BY <1>1 DEF AdapterInv, Mapped
  <2> QED
    BY <1>1, <2>1, <2>2, <2>3, <2>4 DEF AdapterInv
<1>3. Matches(b, s)
  <2>1. TextItem(b) = TextItem(a) /\ OutputItems(b) = OutputItems(a)
    BY <1>1, OutputSame DEF TextItem
  <2> QED
    BY <1>1, <2>1 DEF Matches
<1>4. Kept(a, b)
  BY <1>1 DEF Kept, Args
<1> QED
  BY <1>1, <1>2, <1>3, <1>4 DEF b
-----------------------------------------------------------------------------
\* The lines of the upstream.
LEMMA LinesTyped ==
    ASSUME NEW c \in UpstreamLines
    PROVE  /\ c.calls \in Seq(ToolDeltas) /\ Len(c.calls) \in Nat
           /\ c.text \in STRING /\ Piece(c.text) \in Seq(STRING)
<1>1. c.calls \in Seq(ToolDeltas) /\ c.text \in STRING
  BY DEF UpstreamLines
<1> QED
  BY <1>1, PieceTyped

\* What the chunk brings is with what was there.
LEMMA HoldsMore ==
    ASSUME NEW a, AdapterInv(a), Holds(a, sent), NEW c \in UpstreamLines, NEW b,
           b.text = a.text \o Piece(c.text),
           DOMAIN b.toolMap = DOMAIN a.toolMap \union {c.calls[i].ix : i \in 1..Len(c.calls)},
           \A x \in DOMAIN b.toolMap : Args(b, x) = Args(a, x) \o FlattenSeq(Bits(c.calls, Len(c.calls), x))
    PROVE  Holds(b, Sent(c))
<1> DEFINE n == Len(c.calls)
           told == Sent(c)
           new == {c.calls[i].ix : i \in 1..n}
<1>1. /\ c.calls \in Seq(ToolDeltas) /\ n \in Nat /\ Piece(c.text) \in Seq(STRING)
      /\ a.text \in Seq(STRING)
  BY LinesTyped DEF AdapterInv, Adapters
<1>2. "text" \notin new /\ "text" \notin DOMAIN a.toolMap
  <2>1. "text" \notin new
    BY <1>1, DeltasTyped
  <2>2. PICK S \in SUBSET (STRING \ {"text"}) : a.toolMap \in [S -> Nat]
    BY DEF AdapterInv, Adapters, ToolMaps
  <2> QED
    BY <2>1, <2>2
<1>3. Piece(c.text) = <<>> <=> c.text = None
  BY DEF Piece
<1>4. /\ DOMAIN told = DOMAIN sent \union (IF c.text = None THEN {} ELSE {"text"}) \union new
      /\ \A x \in DOMAIN told :
            told[x] = (IF x \in DOMAIN sent THEN sent[x] ELSE <<>>) \o Brought(c, n, x)
  BY DEF Sent, SentBy
<1> HIDE DEF told, new
<1>5. b.text # <<>> <=> a.text # <<>> \/ c.text # None
  <2>1. \A one, two \in Seq(STRING) : one \o two = <<>> <=> one = <<>> /\ two = <<>>
    OBVIOUS
  <2> QED
    BY <1>1, <1>3, <2>1
<1>6. \A x : x \in DOMAIN told <=> x \in DOMAIN b.toolMap \/ (x = "text" /\ b.text # <<>>)
  BY <1>4, <1>5 DEF Holds, new
<1>7. ASSUME b.text # <<>> PROVE told["text"] = b.text
  <2>1. "text" \in DOMAIN told /\ Brought(c, n, "text") = Piece(c.text)
    BY <1>6, <1>7 DEF Brought
  <2>2. (IF "text" \in DOMAIN sent THEN sent["text"] ELSE <<>>) = a.text
    BY <1>2 DEF Holds
  <2> QED
    BY <1>4, <2>1, <2>2
<1>8. ASSUME NEW x \in DOMAIN b.toolMap PROVE told[x] = Args(b, x)
  <2>1. x # "text" /\ x \in DOMAIN told
    BY <1>2, <1>6, <1>8 DEF new
  <2>2. Brought(c, n, x) = FlattenSeq(Bits(c.calls, n, x))
    BY <2>1 DEF Brought, Bits
  <2>3. (IF x \in DOMAIN sent THEN sent[x] ELSE <<>>) = Args(a, x)
    BY <2>1 DEF Holds, Args
  <2> HIDE DEF n
  <2> QED
    BY <1>4, <2>1, <2>2, <2>3 DEF n
<1> QED
  BY <1>6, <1>7, <1>8 DEF Holds, Args, told

\* An adapter that keeps its content holds what it held.
LEMMA HoldsKept ==
    ASSUME NEW a, NEW b, NEW told, Holds(a, told), Kept(a, b)
    PROVE  Holds(b, told)
  BY DEF Holds, Kept, Args

\* A chunk that brings nothing leaves it so.
LEMMA HoldsNothingNew ==
    ASSUME NEW a, AdapterInv(a), Holds(a, sent), NEW c \in UpstreamLines,
           c.text = None, c.calls = <<>>
    PROVE  Holds(a, Sent(c))
<1>1. Len(c.calls) = 0 /\ c.calls \in Seq(ToolDeltas)
  BY LinesTyped
<1>2. a.text \in Seq(STRING) /\ a.text = a.text \o Piece(c.text)
  <2>1. a.text \in Seq(STRING) /\ Piece(c.text) = <<>>
    BY DEF AdapterInv, Adapters, Piece
  <2> QED
    BY <2>1, JoinedNothing
<1>3. {c.calls[i].ix : i \in 1..Len(c.calls)} = {}
  BY <1>1
<1>4. ASSUME NEW x PROVE Args(a, x) = Args(a, x) \o FlattenSeq(Bits(c.calls, Len(c.calls), x))
  <2>1. FlattenSeq(Bits(c.calls, Len(c.calls), x)) = <<>>
    BY <1>1, BitsUnfold
  <2> QED
    BY <2>1, ArgsTyped, JoinedNothing
<1> QED
  BY <1>2, <1>3, <1>4, HoldsMore

\* A method leads the client on, and the adapter still holds what it was sent.
Faithful(s, r, told) ==
    /\ Good(s, r)
    /\ r.ok /\ r.a.status # "failed" => Holds(r.a, told)

\* map_choice with a finish reason.
LEMMA FinishReasonGood ==
    ASSUME NEW a, AdapterInv(a), Growing(a), NEW s, Matches(a, s), NEW finish, MapFinishReason(a, finish).ok
    PROVE  LET r == MapFinishReason(a, finish)
           IN  /\ Good(s, r)
               /\ Kept(a, r.a)
               /\ r.a.started /\ ~r.a.terminal
<1>1. CASE finish = None
  <2>1. MapFinishReason(a, finish) = Ok(a, <<>>)
    BY <1>1 DEF MapFinishReason
  <2> QED
    BY <2>1, GoodQuietly DEF Ok, Kept, Growing
<1>2. CASE finish # None
  <2> DEFINE status == IF finish = "length" THEN "incomplete" ELSE "completed"
  <2>1. MapFinishReason(a, finish) = FinishEvents(Finishing(a, status))
    BY <1>2 DEF MapFinishReason, Err, Finishing
  <2>2. status \in {"completed", "incomplete"}
    OBVIOUS
  <2> HIDE DEF status
  <2>3. FinishEvents(Finishing(a, status)).ok
    BY <2>1
  <2>4. Good(s, FinishEvents(Finishing(a, status)))
    BY <2>2, <2>3, FinishGood
  <2>5. LET f == FinishEvents(Finishing(a, status)).a
        IN  /\ f.started /\ f.finishSeen /\ ~f.terminal
            /\ f.text = a.text /\ DOMAIN f.toolMap = DOMAIN a.toolMap
            /\ \A x \in DOMAIN f.toolMap : Args(f, x) = Args(a, x)
    BY <2>2, <2>3, FinishKept
  <2> QED
    BY <2>1, <2>4, <2>5 DEF Kept
<1> QED
  BY <1>1, <1>2

\* map_choice: the delta of a chunk, then its finish reason.
LEMMA ChoiceGood ==
    ASSUME NEW a, AdapterInv(a), Growing(a), NEW s, Matches(a, s), Holds(a, sent),
           NEW c \in UpstreamLines, MapChoice(a, c).ok
    PROVE  LET r == MapChoice(a, c)
           IN  /\ Good(s, r)
               /\ Holds(r.a, Sent(c))
               /\ r.a.started /\ ~r.a.terminal
<1> DEFINE texts == IF c.text = None THEN Ok(a, <<>>) ELSE TextDeltaEvents(a, c.text)
           ds == c.calls
           q == AfterCalls(texts, ds)
           next == MapFinishReason(q.a, c.finish)
           r == MapChoice(a, c)
<1>1. r = IF ~q.ok THEN q ELSE IF next.ok THEN Ok(next.a, q.ev \o next.ev) ELSE next
  BY DEF MapChoice, Then
<1>2. /\ texts.ok /\ Good(s, texts) /\ Growing(texts.a)
      /\ texts.a.text = a.text \o Piece(c.text)
      /\ texts.a.toolMap = a.toolMap /\ texts.a.calls = a.calls
  <2>0. a.text \in Seq(STRING) /\ c.text \in STRING
    BY LinesTyped DEF AdapterInv, Adapters
  <2>1. CASE c.text = None
    <3>1. texts = Ok(a, <<>>) /\ Piece(c.text) = <<>>
      BY <2>1 DEF Piece
    <3> HIDE DEF texts
    <3> QED
      BY <2>0, <3>1, GoodQuietly, JoinedNothing DEF Ok
  <2>2. CASE c.text # None
    <3>1. texts = TextDeltaEvents(a, c.text)
      BY <2>2
    <3> HIDE DEF texts
    <3>2. /\ texts.ok /\ Good(s, texts) /\ Growing(texts.a)
          /\ texts.a.text = Append(a.text, c.text)
          /\ texts.a.toolMap = a.toolMap /\ texts.a.calls = a.calls
      BY <2>0, <3>1, TextGood
    <3>3. Append(a.text, c.text) = a.text \o Piece(c.text)
      BY <2>0, <2>2, PieceTyped
    <3> QED
      BY <3>2, <3>3
  <2> QED
    BY <2>1, <2>2
<1>3. ds \in Seq(ToolDeltas)
  BY LinesTyped
<1> SUFFICES Good(s, r) /\ Holds(r.a, Sent(c)) /\ r.a.started /\ ~r.a.terminal
  OBVIOUS
<1> HIDE DEF texts, next, r, q
<1>4. q.ok /\ next.ok /\ r.a = next.a
  BY <1>1 DEF Ok, r
<1>5. Advanced(s, texts, q, ds, Len(ds))
  BY <1>2, <1>3, <1>4, AfterCallsGood DEF q
<1>6. Good(s, q) /\ Growing(q.a) /\ AdapterInv(q.a) /\ \E t : Matches(q.a, t)
  BY <1>4, <1>5 DEF Advanced, Good
<1>7. \A t : Matches(q.a, t) => Good(t, next)
  BY <1>4, <1>6, FinishReasonGood DEF next
<1>8. Kept(q.a, next.a) /\ next.a.started /\ ~next.a.terminal
  <2>1. PICK t : Matches(q.a, t)
    BY <1>6
  <2> QED
    BY <1>4, <1>6, <2>1, FinishReasonGood DEF next
<1>9. Good(s, r)
  BY <1>1, <1>6, <1>7, GoodThen
<1>10. Holds(q.a, Sent(c))
  <2>1. q.a.text = a.text \o Piece(c.text)
    BY <1>2, <1>5 DEF Advanced
  <2>2. \A x : Args(texts.a, x) = Args(a, x)
    BY <1>2 DEF Args
  <2>3. /\ DOMAIN q.a.toolMap = DOMAIN a.toolMap \union {c.calls[i].ix : i \in 1..Len(c.calls)}
        /\ \A x \in DOMAIN q.a.toolMap :
              Args(q.a, x) = Args(a, x) \o FlattenSeq(Bits(c.calls, Len(c.calls), x))
    BY <1>2, <1>5, <2>2 DEF Advanced
  <2> QED
    BY <2>1, <2>3, HoldsMore
<1>11. Holds(next.a, Sent(c))
  BY <1>8, <1>10, HoldsKept
<1> QED
  BY <1>4, <1>8, <1>9, <1>11
-----------------------------------------------------------------------------
\* Kept is transitive.
LEMMA KeptOn ==
    ASSUME NEW a, NEW b, NEW d, Kept(a, b), Kept(b, d)
    PROVE  Kept(a, d)
  BY DEF Kept

\* The choices of a chunk.
LEMMA ChunkChoicesGood ==
    ASSUME NEW a, AdapterInv(a), Growing(a), NEW s, Matches(a, s), Holds(a, sent),
           NEW c \in UpstreamLines, c.kind \notin {"[DONE]", "malformed"},
           c.kind # "choice" => c.text = None /\ c.calls = <<>>,
           MapChunkChoices(a, c).ok
    PROVE  LET r == MapChunkChoices(a, c)
           IN  Good(s, r) /\ Holds(r.a, Sent(c)) /\ r.a.started /\ ~r.a.terminal
<1>1. CASE c.kind = "choice"
  <2>1. MapChunkChoices(a, c) = MapChoice(a, c)
    BY <1>1 DEF MapChunkChoices
  <2> QED
    BY <2>1, ChoiceGood
<1>2. CASE c.kind # "choice"
  <2>1. c.kind \in {"bare", "empty"}
    BY <1>2 DEF UpstreamLines
  <2>2. MapChunkChoices(a, c) = Ok(a, <<>>)
    <3>1. CASE c.kind = "bare"
      <4>1. MapChunkChoices(a, c) = IF c.usage = "absent" THEN Err(a) ELSE Ok(a, <<>>)
        BY <3>1 DEF MapChunkChoices
      <4> QED
        BY <4>1 DEF Err
    <3>2. CASE c.kind = "empty"
      BY <3>2 DEF MapChunkChoices
    <3> QED
      BY <2>1, <3>1, <3>2
  <2>3. Holds(a, Sent(c))
    BY <1>2, HoldsNothingNew
  <2> QED
    BY <2>2, <2>3, GoodQuietly DEF Ok, Growing
<1> QED
  BY <1>1, <1>2

\* Starting loses nothing.
LEMMA StartKept ==
    ASSUME NEW a, AdapterInv(a)
    PROVE  LET b == [a EXCEPT !.started = TRUE]
           IN  /\ Kept(a, b) /\ b.started
               /\ b.finishSeen = a.finishSeen /\ b.terminal = a.terminal /\ b.status = a.status
<1> DEFINE b == [a EXCEPT !.started = TRUE]
<1>1. /\ b.started /\ b.finishSeen = a.finishSeen /\ b.terminal = a.terminal /\ b.status = a.status
      /\ b.text = a.text /\ b.toolMap = a.toolMap /\ b.calls = a.calls
  BY DEF AdapterInv, Adapters
<1> HIDE DEF b
<1>2. Kept(a, b)
  BY <1>1 DEF Kept, Args
<1> QED
  BY <1>1, <1>2 DEF b

\* A chunk of the upstream while the stream grows.
LEMMA ChunkGood ==
    ASSUME NEW a, AdapterInv(a), ~a.finishSeen, ~a.terminal, NEW s, Matches(a, s), Holds(a, sent),
           NEW c \in UpstreamLines, c.kind \notin {"[DONE]", "malformed"},
           c.kind # "choice" => c.text = None /\ c.calls = <<>>,
           MapChunkEvents(a, c).ok
    PROVE  LET r == MapChunkEvents(a, c)
           IN  Good(s, r) /\ Holds(r.a, Sent(c))
<1> DEFINE start == StartEvents(a)
           x == MapChunkUsage(start.a, c)
           next == MapChunkChoices(x, c)
           mapped == Then(start, LAMBDA y : MapChunkChoices(MapChunkUsage(y, c), c))
           last == IF mapped.a.finishSeen /\ mapped.a.usage THEN CompleteEvent(mapped.a)
                   ELSE Ok(mapped.a, <<>>)
           r == MapChunkEvents(a, c)
<1>1. mapped = IF ~start.ok THEN start
               ELSE IF next.ok THEN Ok(next.a, start.ev \o next.ev) ELSE next
  BY DEF Then
<1>2. r = IF ~mapped.ok THEN mapped
          ELSE IF last.ok THEN Ok(last.a, mapped.ev \o last.ev) ELSE last
  BY DEF MapChunkEvents, Then
<1>3. Good(s, start) /\ start.ok /\ start.a = [a EXCEPT !.started = TRUE]
  BY StartGood
<1>4. AdapterInv(start.a) /\ Growing(start.a) /\ Kept(a, start.a)
  <2>1. AdapterInv(start.a)
    BY <1>3 DEF Good
  <2> QED
    BY <1>3, <2>1, StartKept DEF Growing
<1> DEFINE usage == IF c.usage = "absent" THEN start.a.usage ELSE c.usage = "counts"
<1>5. x = [start.a EXCEPT !.usage = usage] /\ usage \in BOOLEAN
  BY <1>4 DEF MapChunkUsage, AdapterInv, Adapters
<1> SUFFICES Good(s, r) /\ Holds(r.a, Sent(c))
  OBVIOUS
<1> HIDE DEF start, x, next, mapped, last, r, usage
<1>6. mapped.ok /\ next.ok /\ mapped.a = next.a /\ last.ok /\ r.a = last.a
  BY <1>1, <1>2, <1>3 DEF Ok, r
<1>7. ASSUME NEW t, Matches(start.a, t)
      PROVE  AdapterInv(x) /\ Growing(x) /\ Matches(x, t) /\ Holds(x, sent)
  <2>1. LET b == [start.a EXCEPT !.usage = usage]
        IN  /\ AdapterInv(b) /\ Matches(b, t) /\ Kept(start.a, b)
            /\ b.started = start.a.started /\ b.finishSeen = start.a.finishSeen
            /\ b.terminal = start.a.terminal
    BY <1>4, <1>5, <1>7, UsageGood
  <2>2. AdapterInv(x) /\ Matches(x, t) /\ Kept(start.a, x) /\ Growing(x)
    BY <1>4, <1>5, <2>1 DEF Growing
  <2>3. Holds(x, sent)
    BY <1>4, <2>2, HoldsKept, KeptOn
  <2> QED
    BY <2>2, <2>3
<1>8. ASSUME NEW t, Matches(start.a, t)
      PROVE  Good(t, next) /\ Holds(next.a, Sent(c)) /\ next.a.started /\ ~next.a.terminal
  <2>1. AdapterInv(x) /\ Growing(x) /\ Matches(x, t) /\ Holds(x, sent)
    BY <1>7, <1>8
  <2> QED
    BY <1>6, <2>1, ChunkChoicesGood DEF next
<1>9. PICK t : Matches(start.a, t)
  BY <1>3 DEF Good
<1>10. Good(s, mapped)
  BY <1>1, <1>3, <1>8, GoodThen
<1>11. AdapterInv(next.a) /\ Holds(next.a, Sent(c))
  BY <1>6, <1>8, <1>9 DEF Good
<1>12. ASSUME NEW u, Matches(mapped.a, u) PROVE Good(u, last) /\ Kept(mapped.a, last.a)
  <2>1. CASE mapped.a.finishSeen /\ mapped.a.usage
    BY <1>6, <1>11, <1>12, <2>1, CompleteGood DEF last
  <2>2. CASE ~(mapped.a.finishSeen /\ mapped.a.usage)
    BY <1>6, <1>11, <1>12, <2>2, GoodQuietly DEF last, Ok, Kept
  <2> QED
    BY <2>1, <2>2
<1>13. Good(s, r)
  BY <1>2, <1>10, <1>12, GoodThen
<1>14. Kept(mapped.a, last.a)
  <2>1. PICK u : Matches(mapped.a, u)
    BY <1>6, <1>10 DEF Good
  <2> QED
    BY <1>12, <2>1
<1>15. Holds(r.a, Sent(c))
  BY <1>6, <1>11, <1>14, HoldsKept
<1> QED
  BY <1>13, <1>15

\* A failure that the adapter reports.
LEMMA FailedFaithful ==
    ASSUME NEW a, AdapterInv(a), ~a.terminal, NEW s, Matches(a, s), NEW told
    PROVE  Faithful(s, FailedEvent(a), told) /\ FailedEvent(a).ok
  BY FailedGood DEF Faithful

\* The end of the stream.
LEMMA CompleteFaithful ==
    ASSUME NEW a, AdapterInv(a), a.finishSeen, NEW s, Matches(a, s), NEW told, Holds(a, told)
    PROVE  Faithful(s, CompleteEvent(a), told) /\ CompleteEvent(a).ok
  BY CompleteGood, HoldsKept DEF Faithful

\* A chunk after the finish reason.
LEMMA PostFinishFaithful ==
    ASSUME NEW a, AdapterInv(a), ~a.terminal, a.finishSeen, NEW s, Matches(a, s), Holds(a, sent),
           NEW c \in UpstreamLines, c.kind # "choice" => c.text = None /\ c.calls = <<>>
    PROVE  Faithful(s, MapPostFinishChunk(a, c), Sent(c)) /\ MapPostFinishChunk(a, c).ok
<1>1. CASE c.kind = "choice" \/ c.usage = "absent"
  <2>1. MapPostFinishChunk(a, c) = FailedEvent(a)
    BY <1>1 DEF MapPostFinishChunk
  <2> QED
    BY <2>1, FailedFaithful
<1>2. CASE ~(c.kind = "choice" \/ c.usage = "absent")
  <2>1. Holds(a, Sent(c))
    BY <1>2, HoldsNothingNew
  <2>2. ASSUME NEW usage \in BOOLEAN
        PROVE  LET b == [a EXCEPT !.usage = usage]
               IN  AdapterInv(b) /\ Matches(b, s) /\ Holds(b, Sent(c)) /\ b.finishSeen
    BY <2>1, UsageGood, HoldsKept
  <2>3. CASE c.usage = "null"
    <3>1. MapPostFinishChunk(a, c) = Ok([a EXCEPT !.usage = FALSE], <<>>)
      BY <1>2, <2>3 DEF MapPostFinishChunk
    <3> DEFINE b == [a EXCEPT !.usage = FALSE]
    <3>2. AdapterInv(b) /\ Matches(b, s) /\ Holds(b, Sent(c))
      BY <2>2
    <3> HIDE DEF b
    <3>3. Faithful(s, Ok(b, <<>>), Sent(c)) /\ Ok(b, <<>>).ok
      BY <3>2, GoodQuietly DEF Faithful, Ok
    <3> QED
      BY <3>1, <3>3 DEF b
  <2>4. CASE c.usage # "null"
    <3>1. MapPostFinishChunk(a, c) = CompleteEvent([a EXCEPT !.usage = TRUE])
      BY <1>2, <2>4 DEF MapPostFinishChunk
    <3> DEFINE b == [a EXCEPT !.usage = TRUE]
    <3>2. AdapterInv(b) /\ Matches(b, s) /\ Holds(b, Sent(c)) /\ b.finishSeen
      BY <2>2
    <3> HIDE DEF b
    <3>3. Faithful(s, CompleteEvent(b), Sent(c)) /\ CompleteEvent(b).ok
      BY <3>2, CompleteFaithful
    <3> QED
      BY <3>1, <3>3 DEF b
  <2> QED
    BY <2>3, <2>4
<1> QED
  BY <1>1, <1>2

\* The line [DONE].
LEMMA DoneLineFaithful ==
    ASSUME NEW a, AdapterInv(a), ~a.terminal, NEW s, Matches(a, s), Holds(a, sent),
           NEW c \in UpstreamLines, c.text = None /\ c.calls = <<>>
    PROVE  Faithful(s, MapDoneLine(a), Sent(c)) /\ MapDoneLine(a).ok
<1>1. CASE ~a.finishSeen
  BY <1>1, FailedFaithful DEF MapDoneLine
<1>2. CASE a.finishSeen
  <2> DEFINE fin == FinishEvents(a)
             next == CompleteEvent(fin.a)
             r == IF ~fin.ok THEN fin
                  ELSE IF next.ok THEN Ok(next.a, fin.ev \o next.ev) ELSE next
  <2>1. MapDoneLine(a) = IF r.ok THEN r ELSE FailedEvent(a)
    BY <1>2 DEF MapDoneLine, OrFailed, Then
  <2> HIDE DEF r
  <2>2. CASE ~r.ok
    BY <2>1, <2>2, FailedFaithful
  <2>3. CASE r.ok
    <3>1. fin.ok
      BY <2>3 DEF r
    <3>2. fin.a = a /\ fin.ev = <<>>
      BY <1>2, <3>1, FinishAgain
    <3> HIDE DEF fin
    <3>a. Leads(TRUE, s, <<>>, s)
      BY LeadsNowhere
    <3>b. Leads(TRUE, s, fin.ev, s) /\ Matches(fin.a, s) /\ AdapterInv(fin.a)
      BY <3>2, <3>a
    <3>3. Good(s, fin)
      BY <3>b DEF Good
    <3>4. Holds(a, Sent(c))
      BY HoldsNothingNew
    <3>5. \A t : Matches(a, t) => Faithful(t, next, Sent(c)) /\ next.ok
      BY <1>2, <3>2, <3>4, CompleteFaithful
    <3>6. Faithful(s, next, Sent(c)) /\ next.ok
      BY <3>5
    <3> HIDE DEF next
    <3>7. Good(s, r)
      BY <3>2, <3>3, <3>5, GoodThen DEF r, Faithful
    <3>8. r.a = next.a
      BY <3>1, <3>6 DEF r, Ok
    <3> QED
      BY <2>1, <2>3, <3>6, <3>7, <3>8 DEF Faithful
  <2> QED
    BY <2>2, <2>3
<1> QED
  BY <1>1, <1>2

\* One line of the upstream, whatever it is.
LEMMA LineFaithful ==
    ASSUME NEW a, AdapterInv(a), ~a.terminal, NEW s, Matches(a, s), Holds(a, sent),
           NEW c \in UpstreamLines, c.kind # "choice" => c.text = None /\ c.calls = <<>>
    PROVE  Faithful(s, MapLine(a, c), Sent(c)) /\ MapLine(a, c).ok
<1>1. CASE c.kind = "[DONE]"
  <2>1. MapLine(a, c) = MapDoneLine(a)
    BY <1>1, Zenon DEF MapLine
  <2> QED
    BY <1>1, <2>1, DoneLineFaithful
<1>2. CASE c.kind = "malformed"
  <2>1. MapLine(a, c) = FailedEvent(a)
    BY <1>2, Zenon DEF MapLine
  <2> QED
    BY <2>1, FailedFaithful
<1>3. CASE c.kind \notin {"[DONE]", "malformed"}
  <2>1. MapLine(a, c) = IF a.finishSeen THEN MapPostFinishChunk(a, c)
                        ELSE OrFailed(a, MapChunkEvents(a, c))
    BY <1>3, Zenon DEF MapLine
  <2>2. CASE a.finishSeen
    BY <2>1, <2>2, PostFinishFaithful
  <2>3. CASE ~a.finishSeen
    <3> DEFINE r == MapChunkEvents(a, c)
    <3>1. MapLine(a, c) = IF r.ok THEN r ELSE FailedEvent(a)
      BY <2>1, <2>3 DEF OrFailed
    <3>2. CASE r.ok
      <4>1. Good(s, r) /\ Holds(r.a, Sent(c))
        BY <1>3, <2>3, <3>2, ChunkGood
      <4> QED
        BY <3>1, <3>2, <4>1 DEF Faithful
    <3>3. CASE ~r.ok
      BY <3>1, <3>3, FailedFaithful
    <3> QED
      BY <3>2, <3>3
  <2> QED
    BY <2>2, <2>3
<1> QED
  BY <1>1, <1>2, <1>3

-----------------------------------------------------------------------------
(* The stream, and the search within it.                                    *)

\* An item that is announced with its content.
Whole(i, kind, id, body) == [Added(i, kind, id) EXCEPT !.body = body]

\* An announcement that brings the item's content.
LEMMA AddedWhole ==
    ASSUME NEW s, NEW i \in Nat, NEW kind \in Strings, NEW id \in Strings, NEW body \in Seq(STRING),
           s.opened, s.outcome = "none", i \notin DOMAIN s.items
    PROVE  /\ Leads(FALSE, s, <<Whole(i, kind, id, body)>>, Shown(s, Whole(i, kind, id, body)))
           /\ Changed(s, Shown(s, Whole(i, kind, id, body)), i, Item(kind, id, body))
<1> DEFINE e == Whole(i, kind, id, body)
<1>1. e.type = "added" /\ e.index = i /\ e.kind = kind /\ e.id = id /\ e.body = body
  BY DEF Added, Whole
<1>2. e \in Events
  <2>1. e \in [type : {"added", "done"}, index : Nat, kind : Strings, id : Strings, body : Seq(STRING)]
    BY DEF Added, Whole
  <2> QED
    BY <2>1 DEF Events
<1> HIDE DEF e
<1>3. Accepts(FALSE, s, e)
  BY <1>1 DEF Accepts
<1>4. Changed(s, Shown(s, e), i, Item(kind, id, body))
  BY <1>1 DEF Shown, Changed, With
<1> QED
  BY <1>2, <1>3, <1>4, LeadsByOne DEF e

\* In a replay an item is done whatever its deltas made of it.
LEMMA DoneAnyway ==
    ASSUME NEW s, NEW i \in Nat, NEW kind \in Strings, NEW id \in Strings, NEW body \in Seq(STRING),
           s.outcome = "none", OpenIn(s, i), NEW e, e = Done(i, kind, id, body)
    PROVE  /\ e \in Events
           /\ Leads(FALSE, s, <<e>>, Shown(s, e))
           /\ Changed(s, Shown(s, e), i, Item(kind, id, body))
           /\ Closes(s, Shown(s, e), i)
<1>1. e.type = "done" /\ e.index = i /\ e.kind = kind /\ e.id = id /\ e.body = body
  BY DEF Done
<1>2. e \in Events
  <2>1. e \in [type : {"added", "done"}, index : Nat, kind : Strings, id : Strings, body : Seq(STRING)]
    BY DEF Done
  <2> QED
    BY <2>1 DEF Events
<1>3. Accepts(FALSE, s, e)
  BY <1>1 DEF Accepts
<1>4. Changed(s, Shown(s, e), i, Item(kind, id, body)) /\ Closes(s, Shown(s, e), i)
  BY <1>1, Zenon DEF Shown, Changed, Closes, With, OpenIn
<1> QED
  BY <1>2, <1>3, <1>4, LeadsByOne

\* Deltas that bring something.
LEMMA DeltaTyped ==
    ASSUME NEW i \in Nat, NEW frags \in Seq(STRING)
    PROVE  Delta(i, frags) \in Events
<1>1. Delta(i, frags) \in [type : {"delta"}, index : Nat, body : Seq(STRING)]
  BY DEF Delta
<1> QED
  BY <1>1 DEF Events

\* Of what the client has only the item at i differs.
Beside(s, u, i) ==
    /\ u.opened = s.opened /\ u.outcome = s.outcome /\ u.finished = s.finished
    /\ DOMAIN u.items = DOMAIN s.items
    /\ \A k \in DOMAIN s.items : k # i => u.items[k] = s.items[k]

\* A text that follows as a delta leaves the item open.
LEMMA DeltaOpen ==
    ASSUME NEW s, NEW i \in Nat, NEW frags \in Seq(STRING), s.outcome = "none", OpenIn(s, i),
           NEW u, u = Shown(s, Delta(i, frags))
    PROVE  /\ Leads(FALSE, s, <<Delta(i, frags)>>, u)
           /\ Beside(s, u, i)
<1>1. Leads(TRUE, s, <<Delta(i, frags)>>, u)
  BY DeltaLeads
<1>2. Leads(FALSE, s, <<Delta(i, frags)>>, u)
  BY <1>1, LeadsReplayed
<1>3. /\ u.opened = s.opened /\ u.outcome = s.outcome /\ u.finished = s.finished
      /\ u.items = [s.items EXCEPT ![i].body = @ \o frags]
  BY DEF Shown, Delta
<1> QED
  BY <1>2, <1>3 DEF Beside

\* The frames of one finished item.
LEMMA ItemReplayed ==
    ASSUME NEW s, s.opened, s.outcome = "none", NEW i \in Nat, i \notin DOMAIN s.items, i \notin s.finished,
           NEW item \in Items
    PROVE  \E u : /\ Leads(FALSE, s, ReplayItem(i, item), u)
                  /\ Changed(s, u, i, item)
                  /\ Closes(s, u, i)
<1> DEFINE kind == item.kind
           id == item.id
           body == item.body
           added == Whole(i, kind, id, body)
           one == <<added>>
           two == IF kind = "message" THEN <<Delta(i, body)>> ELSE <<>>
           three == <<Done(i, kind, id, body)>>
<1>1. kind \in Strings /\ id \in Strings /\ body \in Seq(STRING) /\ Item(kind, id, body) = item
  BY DEF Items, Item
<1>2. ReplayItem(i, item) = one \o two \o three
  BY DEF ReplayItem, Whole
<1> HIDE DEF kind, id, body
<1>3. PICK t : Leads(FALSE, s, one, t) /\ Changed(s, t, i, item) /\ t.finished = s.finished
  <2> DEFINE t == Shown(s, added)
  <2>1. Leads(FALSE, s, <<added>>, t) /\ Changed(s, t, i, Item(kind, id, body)) /\ t.finished = s.finished
    <3>1. t = Shown(s, added) /\ added = Whole(i, kind, id, body)
      OBVIOUS
    <3> HIDE DEF t, added
    <3>2. Leads(FALSE, s, <<added>>, t)
      BY <1>1, <3>1, AddedWhole
    <3>3. Changed(s, t, i, Item(kind, id, body))
      BY <1>1, <3>1, AddedWhole
    <3>4. t.finished = s.finished
      <4>1. added.type = "added"
        BY <3>1 DEF Whole, Added
      <4> QED
        BY <3>1, <4>1 DEF Shown
    <3> QED
      BY <3>2, <3>3, <3>4
  <2> HIDE DEF t, added
  <2> QED
    BY <1>1, <2>1
<1>4. OpenIn(t, i) /\ t.outcome = "none" /\ t.opened
  BY <1>3 DEF OpenIn, Changed
<1>5. PICK v : /\ Leads(FALSE, t, two, v) /\ OpenIn(v, i)
               /\ Beside(t, v, i)
  <2>1. CASE kind = "message"
    <3> DEFINE v == Shown(t, Delta(i, body))
    <3>1. /\ Leads(FALSE, t, <<Delta(i, body)>>, v)
          /\ Beside(t, v, i)
      <4>1. v = Shown(t, Delta(i, body))
        OBVIOUS
      <4> HIDE DEF v
      <4> QED
        BY <1>1, <1>4, <4>1, DeltaOpen
    <3>2. two = <<Delta(i, body)>>
      BY <2>1
    <3> HIDE DEF v, two
    <3>3. OpenIn(v, i)
      BY <1>4, <3>1 DEF OpenIn, Beside
    <3> QED
      BY <3>1, <3>2, <3>3
  <2>2. CASE kind # "message"
    <3>1. two = <<>>
      BY <2>2
    <3>2. Leads(FALSE, t, <<>>, t)
      BY LeadsNowhere
    <3> HIDE DEF two
    <3>3. Leads(FALSE, t, two, t)
      BY <3>1, <3>2
    <3>4. Beside(t, t, i)
      BY DEF Beside
    <3> QED
      BY <1>4, <3>3, <3>4
  <2> QED
    BY <2>1, <2>2
<1>6. PICK u : Leads(FALSE, v, three, u) /\ Changed(v, u, i, item) /\ Closes(v, u, i)
  <2> DEFINE last == Done(i, kind, id, body)
             u == Shown(v, last)
  <2>1. Leads(FALSE, v, <<last>>, u) /\ Changed(v, u, i, Item(kind, id, body)) /\ Closes(v, u, i)
    <3>1. u = Shown(v, last) /\ last = Done(i, kind, id, body) /\ v.outcome = "none"
      BY <1>4, <1>5 DEF Beside
    <3> HIDE DEF u, last
    <3> QED
      BY <1>1, <1>5, <3>1, DoneAnyway
  <2> HIDE DEF u, last
  <2>2. three = <<last>>
    BY DEF last
  <2> HIDE DEF three
  <2> QED
    BY <1>1, <2>1, <2>2
<1>7. Leads(FALSE, s, (one \o two) \o three, u)
  <2> HIDE DEF one, two, three
  <2>1. Leads(FALSE, s, one \o two, v)
    BY <1>3, <1>5, LeadsOn
  <2> QED
    BY <1>6, <2>1, LeadsOn
<1> HIDE DEF one, two, three
<1>8. Leads(FALSE, s, ReplayItem(i, item), u)
  BY <1>2, <1>7
<1>9. Changed(s, u, i, item)
  BY <1>3, <1>5, <1>6 DEF Changed, Beside
<1>10. Closes(s, u, i)
  BY <1>3, <1>5, <1>6 DEF Closes, Beside
<1> QED
  BY <1>8, <1>9, <1>10
-----------------------------------------------------------------------------
\* The frames of the first m items.
Frames(turn, m) == [i \in 1..m |-> ReplayItem(i - 1, turn.output[i])]

\* The client has the first m items of the turn, each of them done.
Replayed(turn, m, t) ==
    /\ t.opened /\ t.outcome = "none"
    /\ \A k : k \in DOMAIN t.items <=> k \in Nat /\ k < m
    /\ \A k : k \in t.finished <=> k \in Nat /\ k < m
    /\ \A k \in 1..m : t.items[k - 1] = turn.output[k]

\* What a finished turn has.
LEMMA TurnsTyped ==
    ASSUME NEW turn \in Turns
    PROVE  /\ Len(turn.output) \in Nat /\ DOMAIN turn.output = 1..Len(turn.output)
           /\ turn.output \in Seq(Items)
           /\ turn.status \in Strings
           /\ \A i \in 1..Len(turn.output) : turn.output[i] \in Items
<1> DEFINE plain == [kind : STRING, id : STRING, body : Seq(STRING)]
<1>1. turn.output \in Seq(plain) /\ turn.status \in STRING
  BY DEF Turns
<1>2. plain \subseteq Items
  BY DEF Items, Strings
<1> HIDE DEF plain
<1>3. turn.output \in Seq(Items)
  BY <1>1, <1>2
<1> QED
  BY <1>1, <1>3 DEF Strings

\* A replay is made of events.
LEMMA FramesTyped ==
    ASSUME NEW turn \in Turns
    PROVE  \A m \in 0..Len(turn.output) : Frames(turn, m) \in Seq(Seq(Events))
<1>1. ASSUME NEW i \in 1..Len(turn.output) PROVE ReplayItem(i - 1, turn.output[i]) \in Seq(Events)
  <2> DEFINE s == [opened |-> TRUE, items |-> <<>>, finished |-> {}, outcome |-> "none", result |-> NoResult]
  <2>1. s.opened /\ s.outcome = "none" /\ DOMAIN s.items = {} /\ s.finished = {}
    OBVIOUS
  <2> HIDE DEF s
  <2>2. i - 1 \in Nat /\ i - 1 \notin DOMAIN s.items /\ i - 1 \notin s.finished
    BY <2>1, TurnsTyped
  <2>3. turn.output[i] \in Items
    BY TurnsTyped
  <2>4. PICK u : Leads(FALSE, s, ReplayItem(i - 1, turn.output[i]), u)
    BY <2>1, <2>2, <2>3, ItemReplayed
  <2> QED
    BY <2>4 DEF Leads
<1> QED
  BY <1>1, TurnsTyped DEF Frames

\* One item more.
LEMMA ReplayedByOne ==
    ASSUME NEW turn \in Turns, NEW m \in 1..Len(turn.output), NEW t, Replayed(turn, m - 1, t)
    PROVE  \E u : Leads(FALSE, t, ReplayItem(m - 1, turn.output[m]), u) /\ Replayed(turn, m, u)
<1>1. m \in Nat /\ m - 1 \in Nat /\ turn.output[m] \in Items
  BY TurnsTyped
<1>2. t.opened /\ t.outcome = "none" /\ m - 1 \notin DOMAIN t.items /\ m - 1 \notin t.finished
  BY <1>1 DEF Replayed
<1>3. PICK u : /\ Leads(FALSE, t, ReplayItem(m - 1, turn.output[m]), u)
               /\ Changed(t, u, m - 1, turn.output[m])
               /\ Closes(t, u, m - 1)
  BY <1>1, <1>2, ItemReplayed
<1>4. \A k : k \in Nat /\ k < m <=> (k \in Nat /\ k < m - 1) \/ k = m - 1
  BY <1>1
<1>5. \A k : k \in DOMAIN u.items <=> k \in Nat /\ k < m
  BY <1>3, <1>4 DEF Replayed, Changed
<1>6. \A k : k \in u.finished <=> k \in Nat /\ k < m
  BY <1>3, <1>4 DEF Replayed, Closes
<1>7. ASSUME NEW k \in 1..m PROVE u.items[k - 1] = turn.output[k]
  <2>1. CASE k = m
    BY <1>3, <2>1 DEF Changed
  <2>2. CASE k # m
    <3>1. k \in 1..(m - 1) /\ k - 1 \in Nat /\ k - 1 < m - 1 /\ k - 1 # m - 1
      BY <1>1, <2>2
    <3>2. k - 1 \in DOMAIN t.items /\ t.items[k - 1] = turn.output[k]
      BY <3>1 DEF Replayed
    <3> QED
      BY <1>3, <3>1, <3>2 DEF Changed
  <2> QED
    BY <2>1, <2>2
<1>8. u.opened /\ u.outcome = "none"
  BY <1>2, <1>3 DEF Changed
<1>9. Replayed(turn, m, u)
  BY <1>5, <1>6, <1>7, <1>8 DEF Replayed
<1> QED
  BY <1>3, <1>9

\* Replaying the first m items.
LEMMA ItemsReplayed ==
    ASSUME NEW turn \in Turns, NEW s, Replayed(turn, 0, s)
    PROVE  \E t : /\ Leads(FALSE, s, FlattenSeq(Frames(turn, Len(turn.output))), t)
                  /\ Replayed(turn, Len(turn.output), t)
<1> DEFINE n == Len(turn.output)
           Reached(m) == \E t : Leads(FALSE, s, FlattenSeq(Frames(turn, m)), t) /\ Replayed(turn, m, t)
           Bad == {m \in 0..n : ~Reached(m)}
<1>0. n \in Nat
  BY TurnsTyped
<1>1. \A m \in 1..n : Frames(turn, m) = Append(Frames(turn, m - 1), ReplayItem(m - 1, turn.output[m]))
  BY <1>0 DEF Frames
<1>2. Frames(turn, 0) = <<>>
  BY DEF Frames
<1>3. \A m \in 0..n : Frames(turn, m) \in Seq(Seq(Events))
  BY FramesTyped
<1> SUFFICES ASSUME n \in Bad PROVE FALSE
  <2>1. SUFFICES Reached(n)
    OBVIOUS
  <2> HIDE DEF Reached, n
  <2> QED
    BY <1>0
<1> HIDE DEF Reached, n
<1>4. PICK m \in Bad : \A k \in Bad : m <= k
  <2>1. Bad \in SUBSET Nat
    BY <1>0
  <2> QED
    BY <2>1, LeastNat
<1>5. m # 0
  <2>1. FlattenSeq(Frames(turn, 0)) = <<>>
    BY <1>2, FlattenEmpty
  <2>2. Leads(FALSE, s, <<>>, s)
    BY LeadsNowhere
  <2>3. Reached(0)
    BY <2>1, <2>2 DEF Reached
  <2> QED
    BY <1>4, <2>3
<1>6. m \in 1..n /\ m - 1 \in 0..n /\ m - 1 \notin Bad
  BY <1>0, <1>4, <1>5
<1> DEFINE before == FlattenSeq(Frames(turn, m - 1))
           next == ReplayItem(m - 1, turn.output[m])
<1>7. PICK t : Leads(FALSE, s, before, t) /\ Replayed(turn, m - 1, t)
  BY <1>6 DEF Reached
<1>8. PICK u : Leads(FALSE, t, next, u) /\ Replayed(turn, m, u)
  BY <1>6, <1>7, ReplayedByOne DEF n
<1>9. FlattenSeq(Frames(turn, m)) = before \o next
  <2>1. next \in Seq(Events)
    BY <1>8 DEF Leads
  <2> HIDE DEF next
  <2>2. FlattenSeq(Append(Frames(turn, m - 1), next)) = before \o next
    BY <1>3, <1>6, <2>1, FlattenAppend
  <2> QED
    BY <1>1, <1>6, <2>2 DEF next
<1> HIDE DEF before, next
<1>10. Leads(FALSE, s, before \o next, u)
  BY <1>7, <1>8, LeadsOn
<1> QED
  BY <1>4, <1>8, <1>9, <1>10 DEF Reached

\* A finished turn is replayed to the end, as a completed response.
LEMMA TurnReplayed ==
    ASSUME NEW turn \in Turns, NEW s, s.opened, s.outcome = "none", s.finished = {}, DOMAIN s.items = {}
    PROVE  \E t : Leads(FALSE, s, CompletedResponseEvents(turn), t) /\ t.outcome = "completed"
<1> DEFINE n == Len(turn.output)
           shown == FlattenSeq(Frames(turn, n))
           e == Terminal("completed", turn.status, turn.output)
<1>1. CompletedResponseEvents(turn) = shown \o <<e>>
  BY TurnsTyped DEF CompletedResponseEvents, Frames
<1>2. Replayed(turn, 0, s)
  BY DEF Replayed
<1>3. PICK t : Leads(FALSE, s, shown, t) /\ Replayed(turn, n, t)
  BY <1>2, ItemsReplayed
<1>4. e \in Events /\ e.type = "terminal" /\ e.outcome = "completed" /\ e.output = turn.output
  <2>1. e \in [type : {"terminal"}, outcome : {"completed", "incomplete", "failed"},
                status : Strings, output : Seq(Items)]
    BY TurnsTyped DEF Terminal
  <2> QED
    BY <2>1 DEF Events, Terminal
<1> HIDE DEF e
<1>5. Accepts(FALSE, t, e)
  <2>1. t.finished = DOMAIN t.items /\ t.opened /\ t.outcome = "none"
    BY <1>3 DEF Replayed
  <2>2. IsListing(e.output, t.items)
    <3>1. DOMAIN turn.output = 1..n /\ n \in Nat
      BY TurnsTyped
    <3>2. DOMAIN t.items = {k - 1 : k \in 1..n}
      <4>1. \A k : k \in Nat /\ k < n <=> \E j \in 1..n : k = j - 1
        <5>1. ASSUME NEW k \in Nat, k < n PROVE k + 1 \in 1..n /\ k = (k + 1) - 1
          BY <3>1, <5>1
        <5>2. ASSUME NEW j \in 1..n PROVE j - 1 \in Nat /\ j - 1 < n
          BY <3>1
        <5> HIDE DEF n
        <5> QED
          BY <5>1, <5>2
      <4> HIDE DEF n
      <4> QED
        BY <1>3, <4>1 DEF Replayed
    <3> QED
      BY <1>3, <1>4, <3>1, <3>2 DEF IsListing, Replayed
  <2> QED
    BY <1>4, <2>1, <2>2 DEF Accepts
<1>6. Leads(FALSE, t, <<e>>, Shown(t, e))
  BY <1>4, <1>5, LeadsByOne
<1> HIDE DEF shown
<1>7. Leads(FALSE, s, shown \o <<e>>, Shown(t, e))
  BY <1>3, <1>6, LeadsOn
<1>8. Shown(t, e).outcome = "completed"
  BY <1>4 DEF Shown
<1> QED
  BY <1>1, <1>7, <1>8
-----------------------------------------------------------------------------
\* What the client has.
View == [opened |-> opened, items |-> items, finished |-> finished, outcome |-> outcome, result |-> result]

\* Nothing but what the adapter has made goes to the client.
Live == ~(path = "search" /\ lines = 0 /\ phase \notin {"begin", "searching", "streaming"})

\* Where the frames that wait lead the client.
Told(live, view, evs, a, at) ==
    \E t : /\ Leads(live, view, evs, t)
           /\ live /\ at # "dropped" => Matches(a, t)
           /\ at = "closing" => t.outcome # "none"

\* Where the body is, whatever the client has.
PhaseInv ==
    /\ path \in Paths
    /\ phase \in {"begin", "searching", "streaming", "closing", "ended", "dropped"}
    /\ phase \in {"begin", "searching"} => path = "search" /\ lines = 0
    /\ phase = "begin" => adapter = NewAdapter
    /\ phase = "searching" => adapter = StartEvents(NewAdapter).a
    /\ phase \in {"begin", "ended", "dropped"} => pending = <<>>
    /\ stage # "ready" => phase = "searching" /\ pending = <<>>
    /\ ended <=> phase = "ended"
    /\ lines \in Nat
    /\ answer \in Answers \union {NoAnswer}

\* The client with the frames on their way has what the adapter has told.
ToldInv == Told(Live, View, pending, adapter, phase)

\* The client has a result once, and it is the output it was streamed.
ClientInv ==
    /\ ~repeated
    /\ Live => ~garbled
    /\ items = [k \in DOMAIN items |-> items[k]]
    /\ finished \subseteq DOMAIN items
    /\ Succeeded => finished = DOMAIN items /\ IsListing(result.output, items)
    /\ outcome # "none" /\ Live => Matches(adapter, View)
    /\ phase = "closing" /\ Live /\ outcome = "none" => adapter.status = "failed"
    /\ phase = "ended" => outcome # "none"

\* The store of response states has the completed response.
CacheInv ==
    /\ cached \in {<<>>, <<OutputItems(adapter)>>}
    /\ cached # <<>> => IsCompleted(adapter) /\ path = "local"
    /\ path = "local" /\ outcome = "completed" => cached # <<>>

\* Unless the stream failed, the adapter holds what the upstream sent.
SentInv == adapter.status # "failed" => Holds(adapter, sent)

\* The inductive invariant.
StreamInv ==
    /\ PhaseInv
    /\ AdapterInv(adapter)
    /\ ToldInv
    /\ ClientInv
    /\ CacheInv
    /\ SentInv
-----------------------------------------------------------------------------
\* The same of the next state, by the names the steps of a proof have.
LEMMA ViewFields ==
    /\ View.opened = opened /\ View.items = items /\ View.finished = finished
    /\ View.outcome = outcome /\ View.result = result
  BY DEF View

\* A new adapter holds what nothing has brought.
LEMMA EmptyHolds == Holds(NewAdapter, <<>>)
  BY DEF Holds, NewAdapter

\* It holds initially.
LEMMA InitStream == Init => StreamInv
<1> SUFFICES ASSUME Init PROVE StreamInv
  OBVIOUS
<1>0. /\ path \in Paths /\ phase \in {"begin", "streaming"} /\ adapter = NewAdapter /\ pending = <<>> /\ lines = 0
      /\ phase = "begin" => path = "search"
      /\ cached = <<>> /\ opened = FALSE /\ items = <<>> /\ finished = {} /\ outcome = "none"
      /\ result = NoResult /\ ended = FALSE /\ garbled = FALSE /\ repeated = FALSE /\ sent = <<>>
      /\ answer = NoAnswer /\ stage = "ready"
  BY DEF Init, SearchInit
<1>1. View = EmptyView
  BY <1>0 DEF View, EmptyView
<1>2. Live
  BY <1>0 DEF Live
<1>3. AdapterInv(adapter) /\ Matches(adapter, View)
  BY <1>0, <1>1, NewAdapterGood
<1>4. PhaseInv
  BY <1>0 DEF PhaseInv
<1>5. ToldInv
  <2>1. Leads(Live, View, <<>>, View)
    BY LeadsNowhere
  <2>2. Leads(Live, View, pending, View)
    BY <1>0, <2>1
  <2> QED
    BY <1>0, <1>3, <2>2 DEF ToldInv, Told
<1>6. ClientInv
  BY <1>0 DEF ClientInv, Succeeded
<1>7. CacheInv
  BY <1>0 DEF CacheInv
<1>8. SentInv
  BY <1>0, EmptyHolds DEF SentInv
<1> QED
  BY <1>3, <1>4, <1>5, <1>6, <1>7, <1>8 DEF StreamInv

\* With nothing on its way the client is where the frames lead it.
LEMMA NothingWaits ==
    ASSUME StreamInv, pending = <<>>
    PROVE  /\ Live /\ phase # "dropped" => Matches(adapter, View)
           /\ phase = "closing" => outcome # "none"
<1>1. PICK t : /\ Leads(Live, View, pending, t)
               /\ Live /\ phase # "dropped" => Matches(adapter, t)
               /\ phase = "closing" => t.outcome # "none"
  BY DEF StreamInv, ToldInv, Told
<1>2. View = t
  BY <1>1, LeadsNowhere
<1> QED
  BY <1>1, <1>2, ViewFields

\* The client has seen the end only of a stream whose adapter has ended it.
LEMMA EndedIsTerminal ==
    ASSUME StreamInv, outcome # "none", Live
    PROVE  adapter.terminal /\ adapter.status = outcome
  BY ViewFields DEF StreamInv, ClientInv, Matches
-----------------------------------------------------------------------------
\* What the client has, and so whether it has all it should, stays.
LEMMA ClientStays ==
    ASSUME UNCHANGED clientVars
    PROVE  /\ View' = View /\ outcome' = outcome /\ items' = items /\ finished' = finished
           /\ result' = result /\ repeated' = repeated /\ garbled' = garbled /\ ended' = ended
           /\ Succeeded' = Succeeded
  BY DEF clientVars, View, Succeeded

\* The adapter has put frames behind a client that had nothing on its way.
LEMMA Emitted ==
    ASSUME StreamInv, UNCHANGED clientVars, Live' => Live,
           AdapterInv(adapter'), ToldInv', PhaseInv', CacheInv', SentInv',
           Live' /\ outcome # "none" => adapter' = adapter,
           phase' = "closing" /\ Live' /\ outcome = "none" => adapter'.status = "failed",
           phase' = "ended" => outcome # "none"
    PROVE  StreamInv'
<1>1. ClientInv
  BY DEF StreamInv
<1>2. ClientInv'
  BY <1>1, ClientStays DEF ClientInv
<1> QED
  BY <1>2 DEF StreamInv

\* The steps of the emulated web search before its outcome.
LEMMA SearchStream ==
    ASSUME StreamInv, Search
    PROVE  StreamInv'
<1>1. /\ pending = <<>> /\ phase = "searching" /\ SearchNext
      /\ UNCHANGED <<path, phase, adapter, pending, lines, cached>> /\ UNCHANGED clientVars /\ sent' = sent
  BY DEF Search, handlerVars
<1>2. View' = View /\ Live' = Live
  BY <1>1, ClientStays DEF Live
<1>3. answer' \in Answers \union {NoAnswer}
  BY <1>1 DEF SearchNext, SendProbe, SendFinal, ProbeAnswered, Delegate, StreamInv, PhaseInv
<1>4. PhaseInv'
  BY <1>1, <1>3, ClientStays DEF StreamInv, PhaseInv
<1>5. ToldInv'
  BY <1>1, <1>2 DEF StreamInv, ToldInv
<1>6. CacheInv'
  BY <1>1, ClientStays DEF StreamInv, CacheInv
<1>7. SentInv'
  BY <1>1 DEF StreamInv, SentInv
<1>8. AdapterInv(adapter')
  BY <1>1 DEF StreamInv
<1> QED
  BY <1>1, <1>2, <1>4, <1>5, <1>6, <1>7, <1>8, Emitted

\* A started adapter has announced nothing.
LEMMA StartedEmpty ==
    ASSUME NEW s, Matches(StartEvents(NewAdapter).a, s)
    PROVE  s.opened /\ s.outcome = "none" /\ s.finished = {} /\ DOMAIN s.items = {}
<1>1. LET a == StartEvents(NewAdapter).a
      IN  a.started /\ ~a.terminal /\ ~a.finishSeen /\ a.textIndex = NoIndex /\ a.calls = <<>>
  BY DEF StartEvents, NewAdapter, Ok
<1> QED
  BY <1>1 DEF Matches

\* The stream opens before the search.
LEMMA BeginSearchStream ==
    ASSUME StreamInv, BeginSearch
    PROVE  StreamInv'
<1>1. /\ phase = "begin" /\ phase' = "searching" /\ adapter' = StartEvents(adapter).a /\ pending' = StartEvents(adapter).ev
      /\ UNCHANGED <<path, lines, cached, sent, answer, stage>> /\ UNCHANGED clientVars
  BY DEF BeginSearch, Emit, searchVars
<1>2. /\ adapter = NewAdapter /\ pending = <<>> /\ path = "search" /\ AdapterInv(adapter) /\ ~adapter.terminal
      /\ Live /\ Live'
  BY <1>1 DEF StreamInv, PhaseInv, NewAdapter, Live
<1>3. Matches(adapter, View)
  BY <1>1, <1>2, NothingWaits
<1>4. Good(View, StartEvents(adapter)) /\ StartEvents(adapter).ok
  BY <1>2, <1>3, StartGood
<1>5. AdapterInv(adapter') /\ \E t : Leads(TRUE, View, pending', t) /\ Matches(adapter', t)
  BY <1>1, <1>4 DEF Good
<1>6. PhaseInv'
  BY <1>1, <1>2, ClientStays DEF StreamInv, PhaseInv
<1>7. ToldInv'
  <2>1. PICK t : Leads(TRUE, View, pending', t) /\ Matches(adapter', t)
    BY <1>5
  <2>2. Leads(Live', View', pending', t)
    BY <1>1, <2>1, ClientStays, LeadsReplayed
  <2> QED
    BY <1>1, <2>1, <2>2 DEF ToldInv, Told
<1>8. CacheInv'
  BY <1>1, <1>2, ClientStays DEF StreamInv, CacheInv, NewAdapter, IsCompleted
<1>9. SentInv'
  <2>1. adapter'.text = adapter.text /\ adapter'.toolMap = adapter.toolMap /\ adapter'.calls = adapter.calls
    BY <1>1, <1>2 DEF StartEvents, NewAdapter, Ok
  <2>2. Holds(adapter, sent)
    BY <1>2 DEF StreamInv, SentInv, NewAdapter
  <2> QED
    BY <1>1, <2>1, <2>2 DEF SentInv, Holds
<1>10. outcome = "none"
  BY <1>2, EndedIsTerminal
<1> QED
  BY <1>1, <1>2, <1>5, <1>6, <1>7, <1>8, <1>9, <1>10, Emitted

\* The status of an adapter after its end.
LEMMA TerminalStatus ==
    ASSUME NEW a, AdapterInv(a), a.terminal
    PROVE  a.status \in {"completed", "incomplete", "failed"}
<1>1. a.status \in {"in_progress", "completed", "incomplete", "failed"}
  BY DEF AdapterInv, Adapters
<1> QED
  BY <1>1 DEF AdapterInv, Staged

\* The adapter reports a failure, and the body is about to end.
LEMMA FailedStream ==
    ASSUME StreamInv, pending = <<>>, phase \in {"searching", "streaming"}, Emit(FailedEvent(adapter), "closing"),
           UNCHANGED <<path, lines, cached, sent>>, UNCHANGED clientVars,
           stage' = "ready", answer' \in Answers \union {NoAnswer}
    PROVE  StreamInv'
<1>1. phase' = "closing" /\ adapter' = FailedEvent(adapter).a /\ pending' = FailedEvent(adapter).ev
  BY DEF Emit
<1>2. Live /\ Matches(adapter, View)
  BY NothingWaits DEF Live
<1>3. /\ Good(View, FailedEvent(adapter)) /\ FailedEvent(adapter).ok
      /\ ~adapter.terminal => adapter'.status = "failed"
      /\ adapter.terminal => adapter' = adapter
      /\ adapter'.terminal
  BY <1>1, <1>2, FailedGood DEF StreamInv
<1>4. AdapterInv(adapter') /\ \E t : Leads(TRUE, View, pending', t) /\ Matches(adapter', t)
  BY <1>1, <1>3 DEF Good
<1>5. PhaseInv'
  BY <1>1, ClientStays DEF StreamInv, PhaseInv
<1>6. ToldInv'
  <2>1. PICK t : Leads(TRUE, View, pending', t) /\ Matches(adapter', t)
    BY <1>4
  <2>2. Leads(Live', View', pending', t)
    BY <2>1, ClientStays, LeadsReplayed
  <2>3. t.outcome # "none"
    <3>1. adapter'.status \in {"completed", "incomplete", "failed"}
      BY <1>3, <1>4, TerminalStatus
    <3> QED
      BY <1>3, <2>1, <3>1 DEF Matches
  <2> QED
    BY <1>1, <2>1, <2>2, <2>3 DEF ToldInv, Told
<1>7. CacheInv'
  BY <1>3, ClientStays DEF StreamInv, CacheInv, IsCompleted
<1>8. SentInv'
  BY <1>3 DEF StreamInv, SentInv
<1>9. outcome # "none" => adapter' = adapter
  BY <1>2, <1>3, EndedIsTerminal
<1>10. outcome = "none" => adapter'.status = "failed"
  <2>1. adapter.terminal => adapter.status \in {"completed", "incomplete", "failed"}
    BY TerminalStatus DEF StreamInv
  <2>2. adapter.terminal => outcome = adapter.status
    BY <1>2, ViewFields DEF Matches
  <2> QED
    BY <1>3, <2>1, <2>2
<1> QED
  BY <1>1, <1>2, <1>4, <1>5, <1>6, <1>7, <1>8, <1>9, <1>10, Emitted

\* A search that fails ends the stream as a failure.
LEMMA SearchFailedStream ==
    ASSUME StreamInv, SearchFailed
    PROVE  StreamInv'
<1>1. /\ phase = "searching" /\ stage # "ready" /\ Emit(FailedEvent(adapter), "closing")
      /\ UNCHANGED <<path, lines, cached, sent>> /\ UNCHANGED clientVars
      /\ stage' = "ready" /\ answer' = NoAnswer
  BY DEF SearchFailed, SearchDropped
<1>2. pending = <<>>
  BY <1>1 DEF StreamInv, PhaseInv
<1> QED
  BY <1>1, <1>2, FailedStream

\* The upstream ends or breaks.
LEMMA UpstreamEndStream ==
    ASSUME StreamInv, UpstreamEnd
    PROVE  StreamInv'
<1>1. /\ phase = "streaming" /\ pending = <<>> /\ Emit(FailedEvent(adapter), "closing")
      /\ UNCHANGED <<path, lines, cached, sent>> /\ UNCHANGED clientVars
      /\ stage' = stage /\ answer' = answer
  BY DEF UpstreamEnd, searchVars
<1>2. stage = "ready" /\ answer \in Answers \union {NoAnswer}
  BY <1>1 DEF StreamInv, PhaseInv
<1> QED
  BY <1>1, <1>2, FailedStream

\* An answer that asks for no search is replayed.
LEMMA SearchNotNeededStream ==
    ASSUME StreamInv, SearchNotNeeded
    PROVE  StreamInv'
<1>1. /\ phase = "searching" /\ stage # "ready"
      /\ UNCHANGED <<path, lines, cached, sent>> /\ UNCHANGED clientVars
      /\ stage' = "ready" /\ answer' = NoAnswer
  BY DEF SearchNotNeeded, SearchDropped
<1>2. pending = <<>> /\ path = "search" /\ lines = 0 /\ adapter = StartEvents(NewAdapter).a /\ Live
  BY <1>1 DEF StreamInv, PhaseInv, Live
<1>3. CASE ~(answer.kind = "message" /\ answer.turn # NoTurn)
  <2>1. Emit(FailedEvent(adapter), "closing")
    BY <1>3 DEF SearchNotNeeded
  <2> QED
    BY <1>1, <1>2, <2>1, FailedStream
<1>4. CASE answer.kind = "message" /\ answer.turn # NoTurn
  <2> DEFINE turn == answer.turn
  <2>1. phase' = "closing" /\ adapter' = adapter /\ pending' = CompletedResponseEvents(turn)
    BY <1>4 DEF SearchNotNeeded, Emit, Ok
  <2>2. turn \in Turns
    <3>1. answer \in Answers
      BY <1>4 DEF StreamInv, PhaseInv, NoAnswer
    <3> QED
      BY <1>4, <3>1, StreamAssumption
  <2> HIDE DEF turn
  <2>3. ~Live'
    BY <1>1, <1>2, <2>1 DEF Live
  <2>4. View.opened /\ View.outcome = "none" /\ View.finished = {} /\ DOMAIN View.items = {}
    <3>1. Matches(adapter, View)
      BY <1>1, <1>2, NothingWaits
    <3> QED
      BY <1>2, <3>1, StartedEmpty
  <2>5. PICK t : Leads(FALSE, View, CompletedResponseEvents(turn), t) /\ t.outcome = "completed"
    BY <2>2, <2>4, TurnReplayed
  <2>6. ToldInv'
    <3>1. Leads(Live', View', pending', t) /\ t.outcome # "none"
      <4>1. Live' = FALSE
        BY <1>1, <1>2, <2>1 DEF Live
      <4> HIDE DEF Live
      <4> QED
        BY <1>1, <2>1, <4>1, <2>5, ClientStays
    <3> QED
      BY <2>3, <3>1 DEF ToldInv, Told
  <2>7. PhaseInv'
    BY <1>1, <1>2, <2>1, ClientStays DEF StreamInv, PhaseInv
  <2>8. CacheInv' /\ SentInv' /\ AdapterInv(adapter')
    BY <1>1, <2>1, ClientStays DEF StreamInv, CacheInv, SentInv
  <2> QED
    BY <1>1, <2>1, <2>3, <2>6, <2>7, <2>8, Emitted
<1> QED
  BY <1>3, <1>4

\* The answer after the last search is replayed or streamed.
LEMMA SearchedStream ==
    ASSUME StreamInv, Searched
    PROVE  StreamInv'
<1>1. /\ phase = "searching" /\ stage # "ready" /\ phase' = "streaming" /\ adapter' = adapter /\ pending' = <<>>
      /\ UNCHANGED <<path, lines, cached, sent>> /\ UNCHANGED clientVars
      /\ stage' = "ready" /\ answer' = NoAnswer
  BY DEF Searched, SearchDropped, Emit, Ok
<1>2. pending = <<>> /\ Live /\ Live'
  BY <1>1 DEF StreamInv, PhaseInv, Live
<1>3. ToldInv'
  BY <1>1, <1>2, ClientStays DEF StreamInv, ToldInv, Told
<1>4. PhaseInv'
  BY <1>1, ClientStays DEF StreamInv, PhaseInv
<1>5. CacheInv' /\ SentInv' /\ AdapterInv(adapter')
  BY <1>1, ClientStays DEF StreamInv, CacheInv, SentInv
<1> QED
  BY <1>1, <1>2, <1>3, <1>4, <1>5, Emitted
-----------------------------------------------------------------------------
\* A line of the upstream goes through the adapter.
LEMMA UpstreamLineStream ==
    ASSUME StreamInv, NEW c \in Chunks[path], UpstreamLine(c)
    PROVE  StreamInv'
<1>1. /\ phase = "streaming" /\ pending = <<>> /\ phase' = "streaming" /\ lines' = lines + 1
      /\ adapter' = MapLine(adapter, c).a /\ pending' = MapLine(adapter, c).ev
      /\ sent' = IF adapter.terminal THEN sent ELSE Sent(c)
      /\ path' = path /\ cached' = cached /\ stage' = stage /\ answer' = answer
      /\ UNCHANGED clientVars
  BY DEF UpstreamLine, Emit, searchVars
<1>2. Live /\ Live' /\ AdapterInv(adapter) /\ Matches(adapter, View)
  BY <1>1, NothingWaits DEF Live, StreamInv
<1>3. PhaseInv'
  BY <1>1, ClientStays DEF StreamInv, PhaseInv
<1>4. CASE adapter.terminal
  <2>1. adapter' = adapter /\ pending' = pending /\ sent' = sent
    BY <1>1, <1>4 DEF MapLine, Ok
  <2>2. ToldInv'
    BY <1>1, <1>2, <2>1, ClientStays DEF StreamInv, ToldInv, Told
  <2>3. CacheInv' /\ SentInv'
    BY <1>1, <2>1, ClientStays DEF StreamInv, CacheInv, SentInv
  <2> QED
    BY <1>1, <1>2, <1>3, <2>1, <2>2, <2>3, Emitted
<1>5. CASE ~adapter.terminal
  <2>1. c \in UpstreamLines /\ (c.kind # "choice" => c.text = None /\ c.calls = <<>>)
    BY StreamAssumption, <1>1 DEF StreamInv, PhaseInv
  <2>2. Holds(adapter, sent)
    BY <1>2, <1>5 DEF StreamInv, SentInv, AdapterInv, Staged
  <2>3. Faithful(View, MapLine(adapter, c), Sent(c)) /\ MapLine(adapter, c).ok
    BY <1>2, <1>5, <2>1, <2>2, LineFaithful
  <2>4. AdapterInv(adapter') /\ \E t : Leads(TRUE, View, pending', t) /\ Matches(adapter', t)
    BY <1>1, <2>3 DEF Faithful, Good
  <2>5. ToldInv'
    <3>1. PICK t : Leads(TRUE, View, pending', t) /\ Matches(adapter', t)
      BY <2>4
    <3>2. Leads(Live', View', pending', t)
      BY <1>1, <3>1, ClientStays, LeadsReplayed
    <3> QED
      BY <1>1, <3>1, <3>2 DEF ToldInv, Told
  <2>6. outcome = "none"
    BY <1>2, <1>5, EndedIsTerminal
  <2>7. CacheInv'
    BY <1>1, <1>5, <2>6, ClientStays DEF StreamInv, CacheInv, IsCompleted
  <2>8. SentInv'
    BY <1>1, <1>5, <2>3 DEF SentInv, Faithful
  <2> QED
    BY <1>1, <1>2, <1>3, <2>4, <2>5, <2>6, <2>7, <2>8, Emitted
<1> QED
  BY <1>4, <1>5

\* The response's state is stored after its terminal event.
LEMMA CacheCompletedStream ==
    ASSUME StreamInv, CacheCompleted
    PROVE  StreamInv'
<1>1. /\ IsCompleted(adapter) /\ path = "local" /\ cached' = <<OutputItems(adapter)>>
      /\ UNCHANGED <<path, phase, adapter, pending, lines, sent, stage, answer>> /\ UNCHANGED clientVars
  BY DEF CacheCompleted, MustCache, AtLocalTerminal, searchVars
<1>2. Live' = Live
  BY <1>1 DEF Live
<1>3. PhaseInv'
  BY <1>1, ClientStays DEF StreamInv, PhaseInv
<1>4. ToldInv'
  BY <1>1, <1>2, ClientStays DEF StreamInv, ToldInv
<1>5. CacheInv'
  BY <1>1 DEF CacheInv
<1>6. SentInv' /\ AdapterInv(adapter')
  BY <1>1 DEF StreamInv, SentInv
<1>7. phase' = "ended" => outcome # "none"
  BY <1>1 DEF StreamInv, ClientInv
<1>8. phase' = "closing" /\ Live' /\ outcome = "none" => adapter'.status = "failed"
  BY <1>1, <1>2 DEF StreamInv, ClientInv
<1> QED
  BY <1>1, <1>2, <1>3, <1>4, <1>5, <1>6, <1>7, <1>8, Emitted

\* The client goes.
LEMMA DisconnectStream ==
    ASSUME StreamInv, Disconnect
    PROVE  StreamInv'
<1>1. /\ phase \notin {"ended", "dropped"} /\ phase' = "dropped" /\ pending' = <<>>
      /\ UNCHANGED <<path, adapter, lines, cached, sent>> /\ UNCHANGED clientVars
      /\ stage' = "ready" /\ answer' = NoAnswer
  BY DEF Disconnect, SearchDropped
<1>2. Live' => Live
  BY <1>1 DEF Live
<1>3. PhaseInv'
  BY <1>1, ClientStays DEF StreamInv, PhaseInv
<1>4. ToldInv'
  <2>1. Leads(Live', View', <<>>, View')
    BY LeadsNowhere
  <2> QED
    BY <1>1, <2>1 DEF ToldInv, Told
<1>5. CacheInv' /\ SentInv' /\ AdapterInv(adapter')
  BY <1>1, ClientStays DEF StreamInv, CacheInv, SentInv
<1> QED
  BY <1>1, <1>2, <1>3, <1>4, <1>5, Emitted

\* The last line of the body.
LEMMA SendDoneStream ==
    ASSUME StreamInv, SendDone
    PROVE  StreamInv'
<1>1. /\ phase = "closing" /\ pending = <<>> /\ phase' = "ended" /\ ended' = TRUE
      /\ UNCHANGED <<path, adapter, pending, lines, cached, opened, items, finished, outcome, result, garbled,
                     repeated, sent, stage, answer>>
  BY DEF SendDone, searchVars
<1>2. Live' = Live /\ View' = View /\ Succeeded' = Succeeded
  BY <1>1 DEF Live, View, Succeeded
<1>3. PhaseInv'
  BY <1>1 DEF StreamInv, PhaseInv
<1>4. ToldInv'
  BY <1>1, <1>2 DEF StreamInv, ToldInv, Told
<1>5. outcome # "none"
  BY <1>1, NothingWaits
<1>6. ClientInv'
  BY <1>1, <1>2, <1>5 DEF StreamInv, ClientInv
<1>7. CacheInv' /\ SentInv' /\ AdapterInv(adapter')
  BY <1>1 DEF StreamInv, CacheInv, SentInv
<1> QED
  BY <1>3, <1>4, <1>6, <1>7 DEF StreamInv
-----------------------------------------------------------------------------
\* A client that receives nothing keeps what it has.
LEMMA SameView ==
    ASSUME NEW o, NEW i, NEW f, NEW c, NEW r, NEW oo, NEW ii, NEW ff, NEW cc, NEW rr,
           o = oo, i = ii, f = ff, c = cc, r = rr
    PROVE  [opened |-> o, items |-> i, finished |-> f, outcome |-> c, result |-> r]
              = [opened |-> oo, items |-> ii, finished |-> ff, outcome |-> cc, result |-> rr]
  OBVIOUS

\* Receiving a frame that is accepted makes of the client what is shown, and
\* nothing that happens once happens again.
LEMMA ReceivedShown ==
    ASSUME NEW e, Receive(e), Accepts(Live, View, e)
    PROVE  /\ View' = Shown(View, e)
           /\ repeated' <=> repeated
<1>1. Receive(e) => e.type \in {"created", "added", "delta", "done", "terminal"}
  BY DEF Receive, ReceiveCreated, ReceiveAdded, ReceiveDelta, ReceiveDone, ReceiveTerminal
<1>2. /\ opened' = IF e.type = "created" THEN TRUE ELSE View.opened
      /\ items' = IF e.type \in {"added", "done"} THEN
                      With(View.items, e.index, Item(e.kind, e.id, e.body))
                  ELSE IF e.type = "delta" THEN
                      [View.items EXCEPT ![e.index].body = @ \o e.body]
                  ELSE View.items
      /\ finished' = IF e.type = "done" THEN View.finished \union {e.index} ELSE View.finished
      /\ outcome' = IF e.type = "terminal" THEN e.outcome ELSE View.outcome
      /\ result' = IF e.type = "terminal" THEN [status |-> e.status, output |-> e.output] ELSE View.result
      /\ repeated' <=> repeated
  <2>1. CASE e.type = "created"
    BY <2>1, ViewFields DEF Receive, ReceiveCreated, ReceiveAdded, ReceiveDelta, ReceiveDone, ReceiveTerminal, Accepts
  <2>2. CASE e.type = "added"
    BY <2>2, ViewFields DEF Receive, ReceiveCreated, ReceiveAdded, ReceiveDelta, ReceiveDone, ReceiveTerminal, Accepts
  <2>3. CASE e.type = "delta"
    <3>1. IsOpen(e.index)
      BY <2>3, ViewFields DEF Accepts, OpenIn, IsOpen
    <3> QED
      BY <2>3, <3>1, ViewFields DEF Receive, ReceiveCreated, ReceiveAdded, ReceiveDelta, ReceiveDone, ReceiveTerminal
  <2>4. CASE e.type = "done"
    <3>1. e.index \notin finished
      BY <2>4, ViewFields DEF Accepts, OpenIn
    <3> QED
      BY <2>4, <3>1, ViewFields DEF Receive, ReceiveCreated, ReceiveAdded, ReceiveDelta, ReceiveDone, ReceiveTerminal
  <2>5. CASE e.type = "terminal"
    BY <2>5, ViewFields DEF Receive, ReceiveCreated, ReceiveAdded, ReceiveDelta, ReceiveDone, ReceiveTerminal, Accepts
  <2> QED
    BY <1>1, <2>1, <2>2, <2>3, <2>4, <2>5
<1> QED
  BY <1>2, SameView DEF View, Shown

\* No delta of a live stream is without an open item, and no item ends with
\* another content than its deltas gave it.
LEMMA ReceivedWhole ==
    ASSUME NEW e, Receive(e), Accepts(Live, View, e), Live, items = [k \in DOMAIN items |-> items[k]]
    PROVE  garbled' <=> garbled
<1>1. CASE e.type = "delta"
  <2>1. IsOpen(e.index)
    BY <1>1, ViewFields DEF Accepts, OpenIn, IsOpen
  <2> QED
    BY <1>1, <2>1 DEF Receive, ReceiveCreated, ReceiveAdded, ReceiveDelta, ReceiveDone, ReceiveTerminal
<1>2. CASE e.type = "done"
  <2>1. IsOpen(e.index) /\ items[e.index] = Item(e.kind, e.id, e.body) /\ e.index \in DOMAIN items
    BY <1>2, ViewFields DEF Accepts, OpenIn, IsOpen
  <2>2. /\ items' = With(items, e.index, Item(e.kind, e.id, e.body))
        /\ garbled' = (garbled \/ ~IsOpen(e.index) \/ items' # items)
    BY <1>2 DEF Receive, ReceiveCreated, ReceiveAdded, ReceiveDelta, ReceiveDone, ReceiveTerminal
  <2>3. items' = items
    <3>1. \A k \in DOMAIN items : (IF k = e.index THEN Item(e.kind, e.id, e.body) ELSE items[k]) = items[k]
      BY <2>1
    <3>2. DOMAIN items \union {e.index} = DOMAIN items
      BY <2>1
    <3> QED
      BY <2>2, <3>1, <3>2 DEF With
  <2> QED
    BY <2>1, <2>2, <2>3
<1>3. CASE e.type \notin {"delta", "done"}
  BY <1>3 DEF Receive, ReceiveCreated, ReceiveAdded, ReceiveDelta, ReceiveDone, ReceiveTerminal
<1> QED
  BY <1>1, <1>2, <1>3

\* Items stay, and are finished only once they are there.
LEMMA ShownItems ==
    ASSUME NEW live, NEW s, NEW e, Accepts(live, s, e),
           s.items = [k \in DOMAIN s.items |-> s.items[k]], s.finished \subseteq DOMAIN s.items
    PROVE  LET u == Shown(s, e)
           IN  u.items = [k \in DOMAIN u.items |-> u.items[k]] /\ u.finished \subseteq DOMAIN u.items
<1> DEFINE u == Shown(s, e)
<1> SUFFICES u.items = [k \in DOMAIN u.items |-> u.items[k]] /\ u.finished \subseteq DOMAIN u.items
  OBVIOUS
<1>1. CASE e.type \in {"added", "done"}
  <2>1. /\ u.items = With(s.items, e.index, Item(e.kind, e.id, e.body))
        /\ u.finished \subseteq s.finished \union {e.index}
    BY <1>1 DEF Shown
  <2> HIDE DEF u
  <2> QED
    BY <2>1 DEF With
<1>2. CASE e.type = "delta"
  <2>1. u.items = [s.items EXCEPT ![e.index].body = @ \o e.body] /\ u.finished = s.finished
    BY <1>2 DEF Shown
  <2> HIDE DEF u
  <2> QED
    BY <2>1
<1>3. CASE e.type \notin {"added", "done", "delta"}
  <2>1. u.items = s.items /\ u.finished = s.finished
    BY <1>3 DEF Shown
  <2> HIDE DEF u
  <2> QED
    BY <2>1
<1> QED
  BY <1>1, <1>2, <1>3

\* The next frame is received.
LEMMA DeliverFrame ==
    ASSUME StreamInv, Deliver
    PROVE  LET e == Head(pending)
           IN  /\ e \in Events /\ Accepts(Live, View, e) /\ Receive(e)
               /\ View' = Shown(View, e)
               /\ \E t : /\ Leads(Live, View', pending', t)
                         /\ Live /\ phase # "dropped" => Matches(adapter, t)
                         /\ phase = "closing" => t.outcome # "none"
<1> DEFINE e == Head(pending)
<1>1. pending # <<>> /\ Receive(e) /\ pending' = IF AtLocalTerminal THEN <<>> ELSE Tail(pending)
  BY DEF Deliver
<1>2. PICK t : /\ Leads(Live, View, pending, t)
               /\ Live /\ phase # "dropped" => Matches(adapter, t)
               /\ phase = "closing" => t.outcome # "none"
  BY DEF StreamInv, ToldInv, Told
<1>3. e \in Events /\ Accepts(Live, View, e) /\ Leads(Live, Shown(View, e), Tail(pending), t)
  BY <1>1, <1>2, LeadsFirst
<1>4. AtLocalTerminal => e.type = "terminal"
  BY DEF AtLocalTerminal
<1> SUFFICES /\ e \in Events /\ Accepts(Live, View, e) /\ Receive(e)
             /\ View' = Shown(View, e) /\ Leads(Live, View', pending', t)
  BY <1>2
<1> HIDE DEF e
<1>5. View' = Shown(View, e)
  BY <1>1, <1>3, ReceivedShown
<1>6. CASE e.type = "terminal"
  <2>1. Shown(View, e).outcome # "none"
    BY <1>3, <1>6 DEF Shown, Events
  <2>2. Tail(pending) = <<>>
    BY <1>3, <2>1, LeadsNoFurther
  <2> QED
    BY <1>1, <1>3, <1>5, <2>2
<1>7. CASE e.type # "terminal"
  BY <1>1, <1>3, <1>4, <1>5, <1>7
<1> QED
  BY <1>6, <1>7
-----------------------------------------------------------------------------
\* The client receives a frame.
LEMMA DeliverStream ==
    ASSUME StreamInv, Deliver
    PROVE  StreamInv'
<1> DEFINE e == Head(pending)
<1>1. /\ pending # <<>>
      /\ MustCache => cached # <<>>
      /\ phase' = IF AtLocalTerminal THEN "closing" ELSE phase
      /\ UNCHANGED <<path, adapter, lines, cached, ended, sent, stage, answer>>
  BY DEF Deliver, searchVars
<1>2. PICK t : /\ Leads(Live, View', pending', t)
               /\ Live /\ phase # "dropped" => Matches(adapter, t)
               /\ phase = "closing" => t.outcome # "none"
  BY DeliverFrame
<1>3. e \in Events /\ Accepts(Live, View, e) /\ Receive(e) /\ View' = Shown(View, e)
  BY DeliverFrame
<1> HIDE DEF e
<1>4. phase \in {"searching", "streaming", "closing"} /\ stage = "ready" /\ ~ended
  BY <1>1 DEF StreamInv, PhaseInv
<1>5. AtLocalTerminal => path = "local" /\ phase = "streaming" /\ e.type = "terminal"
  BY DEF AtLocalTerminal, e
<1>6. Live' = Live
  BY <1>1, <1>5 DEF Live
<1>7. /\ View'.opened = opened' /\ View'.items = items' /\ View'.finished = finished'
      /\ View'.outcome = outcome' /\ View'.result = result'
  BY DEF View
<1>8. e.type = "terminal" => outcome' # "none"
  BY <1>3, <1>7 DEF Shown, Events
<1>9. outcome' # "none" => t = View' /\ e.type = "terminal"
  <2>1. outcome' # "none" => t = View'
    BY <1>2, <1>7, LeadsNoFurther
  <2>2. e.type # "terminal" => outcome' = outcome /\ outcome = "none"
    BY <1>3, <1>7, ViewFields DEF Shown, Accepts
  <2> QED
    BY <2>1, <2>2
<1>10. PhaseInv'
  BY <1>1, <1>4, <1>5 DEF StreamInv, PhaseInv
<1>11. ToldInv'
  <2>1. phase' = "closing" => t.outcome # "none"
    BY <1>1, <1>2, <1>5, <1>7, <1>8, <1>9
  <2>2. Leads(Live', View', pending', t)
    BY <1>2, <1>6
  <2>3. Live' => Matches(adapter', t)
    BY <1>1, <1>2, <1>4, <1>6
  <2> QED
    BY <2>1, <2>2, <2>3 DEF ToldInv, Told
<1>12. ClientInv'
  <2>1. ~repeated'
    BY <1>3, ReceivedShown DEF StreamInv, ClientInv
  <2>2. Live' => ~garbled'
    BY <1>3, <1>6, ReceivedWhole DEF StreamInv, ClientInv
  <2>3. items' = [k \in DOMAIN items' |-> items'[k]] /\ finished' \subseteq DOMAIN items'
    <3>1. View.items = [k \in DOMAIN View.items |-> View.items[k]] /\ View.finished \subseteq DOMAIN View.items
      BY ViewFields DEF StreamInv, ClientInv
    <3>2. /\ View'.items = [k \in DOMAIN View'.items |-> View'.items[k]]
          /\ View'.finished \subseteq DOMAIN View'.items
      BY <1>3, <3>1, ShownItems
    <3> QED
      BY <1>7, <3>2
  <2>4. Succeeded' => finished' = DOMAIN items' /\ IsListing(result'.output, items')
    <3> SUFFICES ASSUME Succeeded' PROVE finished' = DOMAIN items' /\ IsListing(result'.output, items')
      OBVIOUS
    <3>1. outcome' \in {"completed", "incomplete"} /\ e.type = "terminal"
      BY <1>9 DEF Succeeded
    <3>2. /\ outcome' = e.outcome /\ items' = items /\ finished' = finished
          /\ result' = [status |-> e.status, output |-> e.output]
      BY <1>3, <1>7, <3>1, ViewFields DEF Shown
    <3>3. finished = DOMAIN items /\ IsListing(e.output, items)
      BY <1>3, <3>1, <3>2, ViewFields DEF Accepts
    <3> QED
      BY <3>2, <3>3
  <2>5. outcome' # "none" /\ Live' => Matches(adapter', View')
    BY <1>1, <1>2, <1>4, <1>6, <1>9
  <2>6. phase' = "closing" /\ Live' /\ outcome' = "none" => adapter'.status = "failed"
    <3>1. outcome' = "none" => outcome = "none"
      BY <1>3, ViewFields DEF Accepts
    <3> QED
      BY <1>1, <1>5, <1>6, <1>8, <3>1 DEF StreamInv, ClientInv
  <2>7. phase' # "ended"
    BY <1>1, <1>4
  <2> QED
    BY <2>1, <2>2, <2>3, <2>4, <2>5, <2>6, <2>7 DEF ClientInv
<1>13. CacheInv'
  <2>1. path = "local" /\ outcome' = "completed" => cached # <<>>
    <3> SUFFICES ASSUME path = "local", outcome' = "completed" PROVE cached # <<>>
      OBVIOUS
    <3>1. Live /\ t = View' /\ e.type = "terminal" /\ outcome = "none"
      BY <1>3, <1>9, ViewFields DEF Live, Accepts
    <3>2. adapter.terminal /\ adapter.status = "completed"
      BY <1>2, <1>4, <1>7, <3>1 DEF Matches
    <3>3. phase = "streaming"
      BY <1>4, <3>1, <3>2 DEF StreamInv, PhaseInv, ClientInv
    <3>4. e.outcome = "completed"
      BY <1>3, <1>7, <3>1 DEF Shown
    <3> QED
      BY <1>1, <3>1, <3>2, <3>3, <3>4 DEF MustCache, AtLocalTerminal, IsCompleted, e
  <2> QED
    BY <1>1, <2>1 DEF StreamInv, CacheInv
<1>14. SentInv' /\ AdapterInv(adapter')
  BY <1>1 DEF StreamInv, SentInv
<1> QED
  BY <1>10, <1>11, <1>12, <1>13, <1>14 DEF StreamInv

\* Nothing happens.
LEMMA StutterStream ==
    ASSUME StreamInv, UNCHANGED vars
    PROVE  StreamInv'
  BY DEF StreamInv, PhaseInv, ToldInv, ClientInv, CacheInv, SentInv, vars, handlerVars, clientVars, searchVars,
         Live, View, Succeeded

\* Every step keeps the invariant.
LEMMA StepStream ==
    ASSUME StreamInv, [Next]_vars
    PROVE  StreamInv'
<1>1. CASE BeginSearch
  BY <1>1, BeginSearchStream
<1>2. CASE Search
  BY <1>2, SearchStream
<1>3. CASE SearchNotNeeded
  BY <1>3, SearchNotNeededStream
<1>4. CASE SearchFailed
  BY <1>4, SearchFailedStream
<1>5. CASE Searched
  BY <1>5, SearchedStream
<1>6. CASE UpstreamEnd
  BY <1>6, UpstreamEndStream
<1>7. CASE CacheCompleted
  BY <1>7, CacheCompletedStream
<1>8. CASE Deliver
  BY <1>8, DeliverStream
<1>9. CASE SendDone
  BY <1>9, SendDoneStream
<1>10. ASSUME NEW c \in Chunks[path], UpstreamLine(c) PROVE StreamInv'
  BY <1>10, UpstreamLineStream
<1>11. CASE Disconnect
  BY <1>11, DisconnectStream
<1>12. CASE UNCHANGED vars
  BY <1>12, StutterStream
<1> QED
  BY <1>1, <1>2, <1>3, <1>4, <1>5, <1>6, <1>7, <1>8, <1>9, <1>10, <1>11, <1>12 DEF Next, Proceed

\* The invariant holds throughout, on both paths, whatever the upstream sends.
THEOREM StreamInvariant == Spec => []StreamInv
<1>1. Init => StreamInv
  BY InitStream
<1>2. StreamInv /\ [Next]_vars => StreamInv'
  BY StepStream
<1> QED
  BY <1>1, <1>2, PTL DEF Spec

\* A client of a streamed turn gets every delta for an item that is open, and every
\* item is closed with what its deltas made of it, for any lines of the upstream
\* (streaming_tool_delta_events, finish_events of local/responses.rs).
THEOREM ContentPreserved == Spec => []LiveContentPreserved
<1>1. StreamInv => LiveContentPreserved
  BY DEF StreamInv, ClientInv, LiveContentPreserved, Live
<1> QED
  BY <1>1, StreamInvariant, PTL

\* The final list of a response is what was streamed of it, item by item, for any
\* lines of the upstream and for a replayed turn (output_items, complete).
THEOREM OutputStreamed == Spec => []OutputIsWhatWasStreamed
<1>1. StreamInv => OutputIsWhatWasStreamed
  BY DEF StreamInv, ClientInv, OutputIsWhatWasStreamed, IsListing
<1> QED
  BY <1>1, StreamInvariant, PTL

\* A stream cut off before its finish reason is never told to the client as a
\* success (complete, map_sse_lines_many_checked).
THEOREM TruncationFails == Spec => []TruncatedNeverSucceeds
<1>1. StreamInv => TruncatedNeverSucceeds
  <2> SUFFICES ASSUME StreamInv, Succeeded, lines > 0 PROVE adapter.finishSeen
    BY DEF TruncatedNeverSucceeds
  <2>1. outcome # "none" /\ outcome # "failed" /\ Live
    BY DEF Succeeded, Live, StreamInv, PhaseInv
  <2>2. adapter.terminal /\ adapter.status = outcome
    BY <2>1, EndedIsTerminal
  <2> QED
    BY <2>1, <2>2 DEF StreamInv, AdapterInv, Staged
<1> QED
  BY <1>1, StreamInvariant, PTL

\* What a local model's stream leaves in the store is the output the client was
\* told, and nothing if the response did not complete.
THEOREM CompletedCached == Spec => []CompletedIsCached
<1>1. StreamInv => CompletedIsCached
  <2> SUFFICES ASSUME StreamInv, path = "local", outcome \in {"completed", "incomplete", "failed"}
               PROVE  /\ outcome = "completed" => cached = <<result.output>>
                      /\ outcome \in {"incomplete", "failed"} => cached = <<>>
    BY DEF CompletedIsCached
  <2>1. Live /\ outcome # "none"
    BY DEF Live
  <2>2. adapter.terminal /\ adapter.status = outcome
    BY <2>1, EndedIsTerminal
  <2>3. outcome # "failed" => result.output = OutputItems(adapter)
    BY <2>1, <2>2, ViewFields DEF StreamInv, ClientInv, Matches
  <2> QED
    BY <2>2, <2>3 DEF StreamInv, CacheInv, IsCompleted
<1> QED
  BY <1>1, StreamInvariant, PTL
-----------------------------------------------------------------------------
\* A step that delivers nothing is none of the protocol.
LEMMA QuietClient ==
    ASSUME [Next]_vars, ~Deliver, ~SendDone
    PROVE  UNCHANGED clientVars
<1>1. CASE Search
  BY <1>1 DEF Search
<1>2. CASE ~Search
  BY <1>2 DEF Next, Proceed, BeginSearch, SearchNotNeeded, SearchFailed, Searched, UpstreamEnd, CacheCompleted,
              UpstreamLine, Disconnect, vars
<1> QED
  BY <1>1, <1>2

\* A delivery is a step of the protocol.
LEMMA DeliverClient ==
    ASSUME StreamInv, StreamInv', Deliver
    PROVE  [Client!Next]_(Client!vars)
<1> DEFINE e == Head(pending)
           open == DOMAIN items \ finished
<1>1. /\ e \in Events /\ Accepts(Live, View, e) /\ Receive(e) /\ View' = Shown(View, e)
  BY DeliverFrame
<1>2. ended' = ended
  BY DEF Deliver
<1>3. ~repeated /\ ~repeated' /\ finished \subseteq DOMAIN items
  BY DEF StreamInv, ClientInv
<1> HIDE DEF e
<1>4. /\ opened' = IF e.type = "created" THEN TRUE ELSE opened
      /\ items' = IF e.type \in {"added", "done"} THEN With(items, e.index, Item(e.kind, e.id, e.body))
                  ELSE IF e.type = "delta" THEN [items EXCEPT ![e.index].body = @ \o e.body]
                  ELSE items
      /\ finished' = IF e.type = "done" THEN finished \union {e.index} ELSE finished
      /\ outcome' = IF e.type = "terminal" THEN e.outcome ELSE outcome
  <2>1. /\ View'.opened = opened' /\ View'.items = items' /\ View'.finished = finished' /\ View'.outcome = outcome'
    BY DEF View
  <2> QED
    BY <1>1, <2>1, ViewFields DEF Shown
<1>5. outcome = "none"
  BY <1>1, ViewFields DEF Accepts
<1>6. CASE e.type = "created"
  <2>1. ~opened
    BY <1>1, <1>6, ViewFields DEF Accepts
  <2>2. Client!Open
    BY <1>2, <1>3, <1>4, <1>5, <1>6, <2>1 DEF Client!Open
  <2> QED
    BY <2>2 DEF Client!Next
<1>7. CASE e.type = "added"
  <2>1. opened /\ e.index \notin DOMAIN items /\ e.index \in Nat
    <3>1. e.index \in Nat
      BY <1>1, <1>7 DEF Events
    <3> QED
      BY <1>1, <1>7, <3>1, ViewFields DEF Accepts
  <2>2. items' = With(items, e.index, Item(e.kind, e.id, e.body)) /\ finished' = finished
    BY <1>4, <1>7
  <2>3. DOMAIN items' = DOMAIN items \union {e.index}
    BY <2>2 DEF With
  <2>4. open' = open \union {e.index} /\ e.index \in open' \ (open \union finished)
    BY <1>3, <2>1, <2>2, <2>3
  <2>5. Client!Announce
    BY <1>2, <1>3, <1>4, <1>5, <1>7, <2>1, <2>2, <2>4 DEF Client!Announce
  <2> QED
    BY <2>5 DEF Client!Next
<1>8. CASE e.type = "delta"
  <2>1. opened' = opened /\ DOMAIN items' = DOMAIN items /\ finished' = finished /\ outcome' = outcome
    BY <1>4, <1>8
  <2> QED
    BY <1>2, <1>3, <2>1 DEF Client!vars
<1>9. CASE e.type = "done"
  <2>1. e.index \in open
    BY <1>1, <1>9, ViewFields DEF Accepts, OpenIn
  <2>2. items' = With(items, e.index, Item(e.kind, e.id, e.body)) /\ finished' = finished \union {e.index}
    BY <1>4, <1>9
  <2>3. DOMAIN items' = DOMAIN items
    BY <2>1, <2>2 DEF With
  <2>4. open' = open \ {e.index}
    BY <2>2, <2>3
  <2>5. Client!Finish(e.index)
    BY <1>2, <1>3, <1>4, <1>5, <1>9, <2>1, <2>2, <2>4 DEF Client!Finish
  <2> QED
    BY <2>1, <2>5 DEF Client!Next
<1>10. CASE e.type = "terminal"
  <2>1. outcome' = e.outcome /\ opened' = opened /\ items' = items /\ finished' = finished
    BY <1>4, <1>10
  <2>2. e.outcome \in {"completed", "incomplete", "failed"}
    BY <1>1, <1>10 DEF Events
  <2>3. CASE e.outcome = "failed"
    <3>1. Client!Fail
      BY <1>2, <1>3, <1>5, <2>1, <2>3 DEF Client!Fail
    <3> QED
      BY <3>1 DEF Client!Next
  <2>4. CASE e.outcome # "failed"
    <3>1. opened /\ finished = DOMAIN items /\ IsListing(e.output, items)
      BY <1>1, <1>10, <2>4, ViewFields DEF Accepts
    <3>2. Client!Dense(finished)
      <4>1. e.output \in Seq(Items)
        BY <1>1, <1>10 DEF Events
      <4>2. finished = {k - 1 : k \in 1..Len(e.output)} /\ Len(e.output) \in Nat
        BY <3>1, <4>1 DEF IsListing
      <4> SUFFICES ASSUME NEW i \in finished, NEW j \in 0..i PROVE j \in finished
        BY DEF Client!Dense
      <4>3. i + 1 \in 1..Len(e.output) /\ i \in Nat
        BY <4>2
      <4>4. j + 1 \in 1..Len(e.output) /\ j = (j + 1) - 1
        BY <4>2, <4>3
      <4> QED
        BY <4>2, <4>4
    <3>3. Client!Succeed(e.outcome)
      BY <1>2, <1>3, <1>5, <2>1, <2>2, <2>4, <3>1, <3>2 DEF Client!Succeed
    <3> QED
      BY <2>1, <2>2, <2>4, <3>3 DEF Client!Next
  <2> QED
    BY <2>3, <2>4
<1>11. e.type \in {"created", "added", "delta", "done", "terminal"}
  BY <1>1 DEF Events
<1> QED
  BY <1>6, <1>7, <1>8, <1>9, <1>10, <1>11

\* Every step of the stream is one of ResponsesProtocol as its client sees it, or
\* none: whatever the upstream does, the client is sent well-formed responses.
THEOREM StreamRefinesProtocol == Spec => RefinesProtocol
<1>1. Init => Client!Init
  BY DEF Init, Client!Init
<1>2. StreamInv /\ StreamInv' /\ [Next]_vars => [Client!Next]_(Client!vars)
  <2> SUFFICES ASSUME StreamInv, StreamInv', [Next]_vars PROVE [Client!Next]_(Client!vars)
    OBVIOUS
  <2>1. CASE Deliver
    BY <2>1, DeliverClient
  <2>2. CASE SendDone
    <3>1. outcome # "none" /\ ~ended /\ ~repeated
      BY <2>2, NothingWaits DEF SendDone, StreamInv, PhaseInv, ClientInv
    <3>2. Client!End
      BY <2>2, <3>1 DEF SendDone, Client!End
    <3> QED
      BY <3>2 DEF Client!Next
  <2>3. CASE ~Deliver /\ ~SendDone
    BY <2>3, QuietClient DEF clientVars, Client!vars
  <2> QED
    BY <2>1, <2>2, <2>3
<1> QED
  BY <1>1, <1>2, StreamInvariant, PTL DEF Spec, RefinesProtocol, Client!Spec
-----------------------------------------------------------------------------
\* What the calls of a finished adapter are in its output.
LEMMA CallPlaces ==
    ASSUME NEW a, AdapterInv(a), a.finishSeen, NEW s, Matches(a, s)
    PROVE  LET out == OutputItems(a)
           IN  /\ Len(a.calls) \in Nat /\ DOMAIN a.calls = 1..Len(a.calls)
               /\ \A i \in 1..Len(a.calls) :
                     /\ a.calls[i].out \in Nat
                     /\ a.calls[i].out + 1 \in DOMAIN out
                     /\ out[a.calls[i].out + 1] = CallItem(a.calls[i])
                     /\ CallItem(a.calls[i]).kind # "message"
               /\ a.textIndex # NoIndex =>
                     /\ a.textIndex \in Nat
                     /\ a.textIndex + 1 \in DOMAIN out
                     /\ out[a.textIndex + 1] = TextItem(a)
               /\ \A k \in DOMAIN out :
                     \/ a.textIndex # NoIndex /\ k = a.textIndex + 1
                     \/ \E i \in 1..Len(a.calls) : k = a.calls[i].out + 1
<1> DEFINE out == OutputItems(a)
           n == a.nextIndex
<1>1. out = [k \in 1..n |-> s.items[k - 1]]
  BY OutputMatches
<1>2. /\ n \in Nat /\ a.textIndex \in Nat \union {-1} /\ Len(a.calls) \in Nat
      /\ DOMAIN a.calls = 1..Len(a.calls)
      /\ \A i \in 1..Len(a.calls) : a.calls[i] \in Calls /\ a.calls[i].out \in Nat
  <2>1. a.calls \in Seq(Calls) /\ \A i \in DOMAIN a.calls : a.calls[i] \in Calls
    BY CallsTyped
  <2>2. Len(a.calls) \in Nat /\ DOMAIN a.calls = 1..Len(a.calls)
    BY <2>1
  <2> QED
    BY <2>1, <2>2 DEF AdapterInv, Adapters, NoIndex, Calls
<1> SUFFICES /\ \A i \in 1..Len(a.calls) :
                   /\ a.calls[i].out + 1 \in DOMAIN out
                   /\ out[a.calls[i].out + 1] = CallItem(a.calls[i])
                   /\ CallItem(a.calls[i]).kind # "message"
             /\ a.textIndex # NoIndex =>
                   a.textIndex + 1 \in DOMAIN out /\ out[a.textIndex + 1] = TextItem(a)
             /\ \A k \in DOMAIN out :
                   \/ a.textIndex # NoIndex /\ k = a.textIndex + 1
                   \/ \E i \in 1..Len(a.calls) : k = a.calls[i].out + 1
  BY <1>2 DEF NoIndex
<1> HIDE DEF out, n
<1>3. ASSUME NEW i \in 1..Len(a.calls)
      PROVE  /\ a.calls[i].out + 1 \in DOMAIN out
             /\ out[a.calls[i].out + 1] = CallItem(a.calls[i])
             /\ CallItem(a.calls[i]).kind # "message"
  <2>1. a.calls[i].added /\ a.calls[i].out < n
    BY <1>2 DEF AdapterInv, Staged, Indexed, n
  <2>2. a.calls[i].out + 1 \in 1..n /\ (a.calls[i].out + 1) - 1 = a.calls[i].out
    BY <1>2, <2>1
  <2>3. s.items[a.calls[i].out] = CallItem(a.calls[i])
    BY <1>2, <2>1 DEF Matches
  <2>4. out[a.calls[i].out + 1] = s.items[a.calls[i].out] /\ a.calls[i].out + 1 \in DOMAIN out
    BY <1>1, <2>2
  <2>5. ToolKind[a.calls[i].name] \in {"function", "custom"}
    <3>1. a.calls[i].name \in DOMAIN ToolKind
      BY <1>2, <2>1 DEF AdapterInv, Announced, Known
    <3> QED
      BY <3>1, ToolAssumption
  <2>6. CallItem(a.calls[i]).kind = ToolKind[a.calls[i].name]
    BY DEF CallItem, Item
  <2> QED
    BY <2>3, <2>4, <2>5, <2>6
<1>4. ASSUME a.textIndex # NoIndex
      PROVE  a.textIndex + 1 \in DOMAIN out /\ out[a.textIndex + 1] = TextItem(a)
  <2>1. a.textIndex < n /\ s.items[a.textIndex] = TextItem(a)
    BY <1>4 DEF AdapterInv, Indexed, Matches, n
  <2>2. a.textIndex + 1 \in 1..n /\ (a.textIndex + 1) - 1 = a.textIndex
    BY <1>2, <1>4, <2>1 DEF NoIndex
  <2> QED
    BY <1>1, <2>1, <2>2
<1>5. ASSUME NEW k \in DOMAIN out
      PROVE  \/ a.textIndex # NoIndex /\ k = a.textIndex + 1
             \/ \E i \in 1..Len(a.calls) : k = a.calls[i].out + 1
  <2>1. k - 1 \in Nat /\ k - 1 < n /\ k = (k - 1) + 1
    BY <1>1, <1>2
  <2>2. k - 1 = a.textIndex \/ \E i \in DOMAIN a.calls : a.calls[i].out = k - 1
    BY <2>1 DEF AdapterInv, Indexed, n
  <2>3. CASE k - 1 = a.textIndex
    BY <2>1, <2>3 DEF NoIndex
  <2>4. CASE \E i \in DOMAIN a.calls : a.calls[i].out = k - 1
    BY <1>2, <2>1, <2>4
  <2> QED
    BY <2>2, <2>3, <2>4
<1> QED
  BY <1>3, <1>4, <1>5

\* The places of the calls, and of the texts, in an output.
CallPlacesOf(out) == {k \in DOMAIN out : out[k].kind # "message"}
TextPlacesOf(out) == {k \in DOMAIN out : out[k].kind = "message"}

\* Each call of the output is one of the adapter's, with an id of its own.
LEMMA CallsCounted ==
    ASSUME NEW a, AdapterInv(a), a.finishSeen, NEW s, Matches(a, s)
    PROVE  LET out == OutputItems(a)
               calls == CallPlacesOf(out)
           IN  /\ calls = {a.calls[i].out + 1 : i \in 1..Len(a.calls)}
               /\ Cardinality(calls) = Len(a.calls)
               /\ Cardinality({out[k].id : k \in calls}) = Len(a.calls)
<1> DEFINE out == OutputItems(a)
           n == Len(a.calls)
           at == [i \in 1..n |-> a.calls[i].out + 1]
           ids == [i \in 1..n |-> a.calls[i].id]
           calls == CallPlacesOf(out)
<1>1. /\ n \in Nat /\ DOMAIN a.calls = 1..n
      /\ \A i \in 1..n :
            /\ a.calls[i].out \in Nat
            /\ at[i] \in DOMAIN out
            /\ out[at[i]] = CallItem(a.calls[i])
            /\ out[at[i]].kind # "message"
      /\ a.textIndex # NoIndex => out[a.textIndex + 1] = TextItem(a)
      /\ \A k \in DOMAIN out :
            \/ a.textIndex # NoIndex /\ k = a.textIndex + 1
            \/ \E i \in 1..n : k = at[i]
  BY CallPlaces
<1>2. TextItem(a).kind = "message"
  BY DEF TextItem, Item
<1>3. calls = {at[i] : i \in 1..n}
  <2> HIDE DEF out, at, n
  <2> QED
    BY <1>1, <1>2 DEF CallPlacesOf
<1>4. \A i, j \in 1..n : at[i] = at[j] => i = j
  <2>1. \A i, j \in 1..n : i # j => a.calls[i].out # a.calls[j].out
    BY <1>1 DEF AdapterInv, Indexed
  <2> HIDE DEF out
  <2>2. \A i \in 1..n : a.calls[i].out \in Nat /\ at[i] = a.calls[i].out + 1
    BY <1>1
  <2> HIDE DEF at, n
  <2> QED
    BY <2>1, <2>2
<1>5. \A i, j \in 1..n : ids[i] = ids[j] => i = j
  BY <1>1 DEF AdapterInv, Staged
<1>6. {out[k].id : k \in calls} = {ids[i] : i \in 1..n}
  <2>1. \A i \in 1..n : out[at[i]].id = ids[i]
    <3>1. \A i \in 1..n : CallItem(a.calls[i]).id = a.calls[i].id
      BY DEF CallItem, Item
    <3> QED
      BY <1>1, <3>1
  <2> HIDE DEF out, at, ids, n, calls
  <2> QED
    BY <1>3, <2>1
<1>7. Cardinality({at[i] : i \in 1..n}) = n
  <2>1. DOMAIN at = 1..n /\ at = [i \in 1..n |-> at[i]]
    OBVIOUS
  <2> HIDE DEF at, n
  <2> QED
    BY <1>1, <1>4, <2>1, Counted
<1>8. Cardinality({ids[i] : i \in 1..n}) = n
  <2>1. DOMAIN ids = 1..n /\ ids = [i \in 1..n |-> ids[i]]
    OBVIOUS
  <2> HIDE DEF ids, n
  <2> QED
    BY <1>1, <1>5, <2>1, Counted
<1>9. {at[i] : i \in 1..n} = {a.calls[i].out + 1 : i \in 1..n}
  OBVIOUS
<1> QED
  BY <1>3, <1>6, <1>7, <1>8, <1>9

\* There is one index of the upstream for each call.
LEMMA ToolsCounted ==
    ASSUME NEW a, AdapterInv(a)
    PROVE  Cardinality(DOMAIN a.toolMap) = Len(a.calls)
<1> DEFINE n == Len(a.calls)
           f == [i \in 1..n |-> CHOOSE x \in DOMAIN a.toolMap : a.toolMap[x] = i]
<1>1. n \in Nat /\ DOMAIN a.calls = 1..n
  <2>1. a.calls \in Seq(Calls)
    BY CallsTyped
  <2> QED
    BY <2>1
<1>2. \A i \in 1..n : f[i] \in DOMAIN a.toolMap /\ a.toolMap[f[i]] = i
  <2> TAKE i \in 1..n
  <2>1. \E x \in DOMAIN a.toolMap : a.toolMap[x] = i
    BY <1>1 DEF AdapterInv, Mapped
  <2> QED
    BY <2>1
<1>3. DOMAIN f = 1..n /\ f = [i \in 1..n |-> f[i]]
  OBVIOUS
<1> HIDE DEF f, n
<1>4. {f[i] : i \in 1..n} = DOMAIN a.toolMap
  <2>1. ASSUME NEW x \in DOMAIN a.toolMap PROVE \E i \in 1..n : f[i] = x
    <3>1. a.toolMap[x] \in 1..n
      BY <1>1 DEF AdapterInv, Mapped
    <3>2. f[a.toolMap[x]] = x
      BY <1>2, <3>1 DEF AdapterInv, Mapped
    <3> QED
      BY <3>1, <3>2
  <2> QED
    BY <1>2, <2>1
<1>5. \A i, j \in 1..n : f[i] = f[j] => i = j
  BY <1>2
<1>6. Cardinality({f[i] : i \in 1..n}) = n
  BY <1>1, <1>3, <1>5, Counted
<1> QED
  BY <1>4, <1>6 DEF n

\* A response that succeeds has the text of the upstream and one call for each of
\* its tool indices, whole and under an id of its own, however the fragments were
\* interleaved (local_tool_index, validate_tool_calls).
THEOREM NothingLost == Spec => []NothingLostOrMixed
<1>1. StreamInv => NothingLostOrMixed
  <2> DEFINE out == result.output
             calls == CallPlacesOf(out)
             text == TextPlacesOf(out)
             tools == DOMAIN sent \ {"text"}
  <2> SUFFICES ASSUME StreamInv, Succeeded, lines > 0
               PROVE  /\ {out[k].body : k \in text} = {sent[t] : t \in DOMAIN sent \ tools}
                      /\ Cardinality(calls) = Cardinality(tools)
                      /\ Cardinality({out[k].id : k \in calls}) = Cardinality(calls)
                      /\ \A t \in tools : \E k \in calls : out[k].body = sent[t]
    BY DEF NothingLostOrMixed, CallPlacesOf, TextPlacesOf
  <2>1. outcome # "none" /\ outcome # "failed" /\ Live /\ AdapterInv(adapter)
    BY DEF Succeeded, Live, StreamInv, PhaseInv
  <2>2. adapter.terminal /\ adapter.status = outcome
    BY <2>1, EndedIsTerminal
  <2>3. adapter.finishSeen
    BY <2>1, <2>2 DEF AdapterInv, Staged
  <2>4. Matches(adapter, View) /\ out = OutputItems(adapter)
    BY <2>1, <2>2, ViewFields DEF StreamInv, ClientInv, Matches
  <2>5. Holds(adapter, sent)
    BY <2>1, <2>2 DEF StreamInv, SentInv
  <2>6. "text" \notin DOMAIN adapter.toolMap
    <3>1. PICK S \in SUBSET (STRING \ {"text"}) : adapter.toolMap \in [S -> Nat]
      BY <2>1 DEF AdapterInv, Adapters, ToolMaps
    <3> QED
      BY <3>1
  <2>7. tools = DOMAIN adapter.toolMap
    BY <2>5, <2>6 DEF Holds
  <2>8. /\ calls = {adapter.calls[i].out + 1 : i \in 1..Len(adapter.calls)}
        /\ Cardinality(calls) = Len(adapter.calls)
        /\ Cardinality({out[k].id : k \in calls}) = Len(adapter.calls)
    BY <2>1, <2>3, <2>4, CallsCounted
  <2>9. Cardinality(tools) = Len(adapter.calls)
    BY <2>1, <2>7, ToolsCounted
  <2>10. /\ DOMAIN adapter.calls = 1..Len(adapter.calls)
         /\ \A i \in 1..Len(adapter.calls) :
               /\ out[adapter.calls[i].out + 1] = CallItem(adapter.calls[i])
               /\ CallItem(adapter.calls[i]).kind # "message"
         /\ adapter.textIndex # NoIndex =>
               /\ adapter.textIndex + 1 \in DOMAIN out
               /\ out[adapter.textIndex + 1] = TextItem(adapter)
         /\ \A k \in DOMAIN out :
               \/ adapter.textIndex # NoIndex /\ k = adapter.textIndex + 1
               \/ \E i \in 1..Len(adapter.calls) : k = adapter.calls[i].out + 1
    BY <2>1, <2>3, <2>4, CallPlaces
  <2> HIDE DEF out, tools, calls
  <2>11. ASSUME NEW t \in tools PROVE \E k \in calls : out[k].body = sent[t]
    <3> DEFINE i == adapter.toolMap[t]
    <3>1. i \in 1..Len(adapter.calls)
      BY <2>1, <2>7, <2>10 DEF AdapterInv, Mapped
    <3>2. sent[t] = adapter.calls[i].args
      BY <2>5, <2>7 DEF Holds
    <3> HIDE DEF i
    <3>3. CallItem(adapter.calls[i]).body = adapter.calls[i].args
      BY DEF CallItem, Item
    <3>4. adapter.calls[i].out + 1 \in calls
      BY <2>8, <3>1
    <3> QED
      BY <2>10, <3>1, <3>2, <3>3, <3>4
  <2>12. {out[k].body : k \in text} = {sent[t] : t \in DOMAIN sent \ tools}
    <3>1. TextItem(adapter).kind = "message" /\ TextItem(adapter).body = adapter.text
      BY DEF TextItem, Item
    <3>2. adapter.text = <<>> <=> adapter.textIndex = NoIndex
      BY <2>1 DEF AdapterInv, Announced
    <3>3. CASE adapter.textIndex = NoIndex
      <4>1. text = {}
        BY <2>10, <3>3 DEF TextPlacesOf
      <4>2. DOMAIN sent \ tools = {}
        BY <2>5, <2>7, <3>2, <3>3 DEF Holds
      <4> HIDE DEF text
      <4> QED
        BY <4>1, <4>2
    <3>4. CASE adapter.textIndex # NoIndex
      <4>1. text = {adapter.textIndex + 1}
        BY <2>10, <3>1, <3>4 DEF TextPlacesOf
      <4>2. DOMAIN sent \ tools = {"text"} /\ sent["text"] = adapter.text
        BY <2>5, <2>6, <2>7, <3>2, <3>4 DEF Holds
      <4>3. out[adapter.textIndex + 1].body = adapter.text
        BY <2>10, <3>1, <3>4
      <4> HIDE DEF text
      <4> QED
        BY <4>1, <4>2, <4>3
    <3> QED
      BY <3>3, <3>4
  <2> QED
    BY <2>8, <2>9, <2>11, <2>12
<1> QED
  BY <1>1, StreamInvariant, PTL
-----------------------------------------------------------------------------
\* Searches, what they find, and the messages of the conversation.
Queries  == [id : STRING, name : STRING, query : STRING]
Texts    == STRING \union {Unavailable}
Messages == [role : {"assistant"}, calls : Seq(Queries)] \union [role : {"tool"}, id : STRING, text : Texts]

\* The searches that an answer asks for.
LEMMA AskedTyped ==
    ASSUME NEW calls \in Seq(Queries)
    PROVE  Asked(calls) \in Seq(Queries)
<1> DEFINE each == [i \in DOMAIN calls |-> IF calls[i].name = SearchTool THEN <<calls[i]>> ELSE <<>>]
<1>1. \A i \in DOMAIN calls : each[i] \in Seq(Queries)
  OBVIOUS
<1>2. each \in Seq(Seq(Queries))
  <2>1. DOMAIN calls = 1..Len(calls) /\ Len(calls) \in Nat
    OBVIOUS
  <2> QED
    BY <1>1, <2>1
<1> HIDE DEF each
<1>3. FlattenSeq(each) \in Seq(Queries)
  BY <1>2, FlattenType
<1> QED
  BY <1>3 DEF Asked, each

\* The texts of results.
TextOf(m) == IF m.role = "tool" THEN <<m.text>> ELSE <<>>

\* They are texts.
LEMMA TextsTyped ==
    ASSUME NEW conversation \in Seq(Messages)
    PROVE  /\ \A x \in Messages : TextOf(x) \in Seq(Texts)
           /\ [k \in DOMAIN conversation |-> TextOf(conversation[k])] \in Seq(Seq(Texts))
<1>1. \A x \in Messages : TextOf(x) \in Seq(Texts)
  <2> TAKE x \in Messages
  <2>1. CASE x.role = "tool"
    <3>1. x.text \in Texts
      BY <2>1 DEF Messages
    <3> QED
      BY <2>1, <3>1 DEF TextOf
  <2>2. CASE x.role # "tool"
    BY <2>2 DEF TextOf
  <2> QED
    BY <2>1, <2>2
<1>2. DOMAIN conversation = 1..Len(conversation) /\ Len(conversation) \in Nat
  OBVIOUS
<1>3. \A k \in 1..Len(conversation) : TextOf(conversation[k]) \in Seq(Texts)
  BY <1>1
<1> QED
  BY <1>1, <1>2, <1>3

\* So are those of a conversation.
LEMMA ResultTextsTyped ==
    ASSUME NEW conversation \in Seq(Messages)
    PROVE  ResultTexts(conversation) \in Seq(Texts)
<1> DEFINE each == [k \in DOMAIN conversation |-> TextOf(conversation[k])]
<1>1. each \in Seq(Seq(Texts))
  BY TextsTyped
<1>2. ResultTexts(conversation) = FlattenSeq(each)
  BY DEF ResultTexts, TextOf
<1> HIDE DEF each
<1> QED
  BY <1>1, <1>2, FlattenType

\* A message more in the conversation, a text more if it is a result.
LEMMA ResultTextsAppend ==
    ASSUME NEW conversation \in Seq(Messages), NEW m \in Messages
    PROVE  ResultTexts(Append(conversation, m)) = ResultTexts(conversation) \o TextOf(m)
<1> DEFINE each(c) == [k \in DOMAIN c |-> TextOf(c[k])]
<1>1. \A x \in Messages : TextOf(x) \in Seq(Texts)
  BY TextsTyped
<1>2. each(conversation) \in Seq(Seq(Texts))
  BY TextsTyped
<1>3. each(Append(conversation, m)) = Append(each(conversation), TextOf(m))
  <2>1. /\ DOMAIN conversation = 1..Len(conversation) /\ Len(conversation) \in Nat
        /\ DOMAIN Append(conversation, m) = 1..(Len(conversation) + 1)
    OBVIOUS
  <2> QED
    BY <2>1
<1>4. TextOf(m) \in Seq(Texts)
  BY <1>1
<1>5. \A c : ResultTexts(c) = FlattenSeq(each(c))
  BY DEF ResultTexts, TextOf
<1> HIDE DEF each
<1>6. FlattenSeq(Append(each(conversation), TextOf(m))) = FlattenSeq(each(conversation)) \o TextOf(m)
  BY <1>2, <1>4, FlattenAppend
<1> QED
  BY <1>3, <1>5, <1>6

\* The message of a round, and a result for each of the first n of its searches.
Answered(cs, n, seq) ==
    /\ n \in Nat /\ Len(seq) = n + 1
    /\ seq[1] = Assistant(cs)
    /\ \A j \in 1..n :
          /\ seq[j + 1].role = "tool"
          /\ seq[j + 1].id = Asked(cs)[j].id
          /\ seq[j + 1].text \in Findings(Asked(cs)[j])

\* The conversation goes on with the round k.
Follows(conversation, k) ==
    LET asked == Asked(conversation[k].calls)
        next  == k + Len(asked) + 1
    IN  /\ next <= Len(conversation) + 1
        /\ \A j \in DOMAIN asked :
              /\ conversation[k + j].role = "tool"
              /\ conversation[k + j].id = asked[j].id
              /\ conversation[k + j].text \in Findings(asked[j])
        /\ next <= Len(conversation) => conversation[next].role = "assistant"

\* The rounds of a conversation are answered, each search by its result.
Rounds(conversation) ==
    /\ \A k \in DOMAIN conversation : conversation[k].role = "assistant" => Follows(conversation, k)
    /\ conversation # <<>> => conversation[1].role = "assistant"

\* A round that has all its results joins the conversation.
LEMMA RoundJoins ==
    ASSUME NEW conversation \in Seq(Messages), Rounds(conversation),
           NEW cs \in Seq(Queries), NEW seq \in Seq(Messages), Answered(cs, Len(Asked(cs)), seq)
    PROVE  Rounds(conversation \o seq)
<1> DEFINE asked == Asked(cs)
           n == Len(asked)
           m == Len(conversation)
           all == conversation \o seq
<1>1. asked \in Seq(Queries) /\ n \in Nat /\ DOMAIN asked = 1..n /\ m \in Nat /\ DOMAIN conversation = 1..m
  BY AskedTyped
<1>2. /\ Len(seq) = n + 1 /\ seq[1] = Assistant(cs)
      /\ \A j \in 1..n :
            /\ seq[j + 1].role = "tool"
            /\ seq[j + 1].id = asked[j].id
            /\ seq[j + 1].text \in Findings(asked[j])
  BY DEF Answered
<1>3. /\ Len(all) = m + n + 1 /\ DOMAIN all = 1..(m + n + 1)
      /\ \A k \in 1..m : all[k] = conversation[k]
      /\ \A k \in 1..(n + 1) : all[m + k] = seq[k]
  <2>1. /\ Len(all) = m + Len(seq) /\ DOMAIN all = 1..(m + Len(seq))
        /\ \A k \in 1..m : all[k] = conversation[k]
        /\ \A k \in 1..Len(seq) : all[m + k] = seq[k]
    OBVIOUS
  <2> HIDE DEF all, m, n, asked
  <2>2. m + Len(seq) = m + n + 1
    BY <1>1, <1>2
  <2> QED
    BY <1>2, <2>1, <2>2
<1>4. seq[1].role = "assistant" /\ seq[1].calls = cs
  BY <1>2 DEF Assistant
<1> HIDE DEF all, n, m, asked
<1>5. all[m + 1].role = "assistant" /\ all[m + 1].calls = cs
  <2>1. 1 \in 1..(n + 1)
    BY <1>1
  <2>2. all[m + 1] = seq[1]
    BY <1>3, <2>1
  <2> QED
    BY <1>4, <2>2
<1>6. ASSUME NEW j \in 1..n
      PROVE  /\ all[m + 1 + j].role = "tool"
             /\ all[m + 1 + j].id = asked[j].id
             /\ all[m + 1 + j].text \in Findings(asked[j])
  <2>1. all[m + 1 + j] = seq[j + 1]
    <3>1. j + 1 \in 1..(n + 1) /\ m + 1 + j = m + (j + 1)
      BY <1>1
    <3> QED
      BY <1>3, <3>1
  <2> QED
    BY <1>2, <2>1
<1>7. ASSUME NEW k \in 1..m, all[k].role = "assistant" PROVE Follows(all, k)
  <2> DEFINE own == Asked(conversation[k].calls)
             next == k + Len(own) + 1
  <2>1. conversation[k].calls \in Seq(Queries)
    <3>1. conversation[k] \in Messages /\ conversation[k].role = "assistant"
      BY <1>1, <1>3, <1>7
    <3> QED
      BY <3>1 DEF Messages
  <2>2. Len(own) \in Nat /\ DOMAIN own = 1..Len(own)
    BY <2>1, AskedTyped
  <2>3. /\ next <= m + 1
        /\ \A j \in 1..Len(own) :
              /\ conversation[k + j].role = "tool"
              /\ conversation[k + j].id = own[j].id
              /\ conversation[k + j].text \in Findings(own[j])
        /\ next <= m => conversation[next].role = "assistant"
    <3>1. Follows(conversation, k)
      BY <1>1, <1>3, <1>7 DEF Rounds
    <3> QED
      BY <2>2, <3>1 DEF Follows, m
  <2>4. Asked(all[k].calls) = own
    BY <1>3
  <2> HIDE DEF own
  <2>5. \A j \in 1..Len(own) : k + j \in 1..m /\ all[k + j] = conversation[k + j]
    BY <1>1, <1>3, <2>2, <2>3
  <2>6. next \in Nat /\ next >= 1
    BY <1>1, <2>2
  <2> HIDE DEF next
  <2>7. all[next].role = "assistant"
    <3>1. CASE next <= m
      BY <1>1, <1>3, <2>6, <2>3, <3>1
    <3>2. CASE next = m + 1
      BY <1>5, <3>2
    <3> QED
      BY <1>1, <2>6, <2>3, <3>1, <3>2
  <2>8. next <= Len(all) + 1
    BY <1>1, <1>3, <2>6, <2>3
  <2>9. next = k + Len(own) + 1
    BY DEF next
  <2>10. /\ k + Len(own) + 1 <= Len(all) + 1
         /\ k + Len(own) + 1 <= Len(all) => all[k + Len(own) + 1].role = "assistant"
         /\ \A j \in 1..Len(own) :
               /\ all[k + j].role = "tool"
               /\ all[k + j].id = own[j].id
               /\ all[k + j].text \in Findings(own[j])
    BY <2>3, <2>5, <2>7, <2>8, <2>9
  <2> QED
    BY <2>2, <2>4, <2>10 DEF Follows
<1>8. Follows(all, m + 1)
  <2>1. Asked(all[m + 1].calls) = asked
    BY <1>5 DEF asked
  <2>2. m + 1 + Len(asked) + 1 = Len(all) + 1 /\ Len(asked) = n /\ Len(all) \in Nat
    BY <1>1, <1>3 DEF n
  <2>3. DOMAIN asked = 1..Len(asked)
    BY <1>1, <2>2
  <2>4. \A j \in DOMAIN asked :
           /\ all[m + 1 + j].role = "tool"
           /\ all[m + 1 + j].id = asked[j].id
           /\ all[m + 1 + j].text \in Findings(asked[j])
    BY <1>6, <2>2, <2>3
  <2>5. /\ m + 1 + Len(asked) + 1 <= Len(all) + 1
        /\ ~(m + 1 + Len(asked) + 1 <= Len(all))
    BY <2>2
  <2> QED
    BY <2>1, <2>4, <2>5 DEF Follows
<1>9. ASSUME NEW k \in DOMAIN all, all[k].role = "assistant" PROVE Follows(all, k)
  <2>1. CASE k \in 1..m
    BY <1>7, <1>9, <2>1
  <2>2. CASE k = m + 1
    BY <1>8, <2>2
  <2>3. CASE k \notin 1..(m + 1)
    <3>1. k - (m + 1) \in 1..n /\ k = m + 1 + (k - (m + 1))
      BY <1>1, <1>3, <2>3
    <3>2. all[m + 1 + (k - (m + 1))].role = "tool"
      BY <1>6, <3>1
    <3>3. all[k].role = "tool"
      BY <3>1, <3>2
    <3> QED
      BY <1>9, <3>3
  <2> QED
    BY <1>1, <2>1, <2>2, <2>3
<1>10. all[1].role = "assistant"
  <2>1. CASE m = 0
    BY <1>5, <2>1
  <2>2. CASE m # 0
    <3>1. conversation[1].role = "assistant" /\ 1 \in 1..m
      BY <1>1, <2>2 DEF Rounds, m
    <3> QED
      BY <1>3, <3>1
  <2> QED
    BY <2>1, <2>2
<1> QED
  BY <1>9, <1>10 DEF Rounds, all
-----------------------------------------------------------------------------
\* The round under way has the results of the searches made so far.
RoundInv ==
    IF stage = "delegating"
    THEN \E cs \in Seq(Queries) : \E n \in Nat :
            /\ Answered(cs, n, appended)
            /\ toSearch # <<>>
            /\ Len(Asked(cs)) = n + Len(toSearch)
            /\ \A j \in 1..Len(toSearch) : toSearch[j] = Asked(cs)[n + j]
    ELSE appended = <<>> /\ toSearch = <<>>

\* The inductive invariant of the search.
SearchInv ==
    /\ messages \in Seq(Messages) /\ appended \in Seq(Messages) /\ toSearch \in Seq(Queries)
    /\ Rounds(messages)
    /\ ResultTexts(messages \o appended) = searchResults
    /\ RoundInv

\* An empty conversation has no results.
LEMMA NoResultTexts == ResultTexts(<<>>) = <<>>
<1>1. [k \in DOMAIN <<>> |-> IF <<>>[k].role = "tool" THEN <<<<>>[k].text>> ELSE <<>>] = <<>>
  OBVIOUS
<1> QED
  BY <1>1, FlattenEmpty DEF ResultTexts

\* The empty sequence adds nothing.
LEMMA JoinNothing ==
    ASSUME NEW S, NEW s \in Seq(S)
    PROVE  s \o <<>> = s /\ <<>> \o s = s
  OBVIOUS

\* It holds initially.
LEMMA SearchStarts ==
    ASSUME messages = <<>>, appended = <<>>, toSearch = <<>>, searchResults = <<>>, stage = "ready"
    PROVE  SearchInv
<1>1. <<>> \o <<>> = <<>> /\ <<>> \in Seq(Messages) /\ <<>> \in Seq(Queries)
  OBVIOUS
<1>2. Rounds(<<>>)
  BY DEF Rounds
<1> QED
  BY <1>1, <1>2, NoResultTexts DEF SearchInv, RoundInv

\* A message that asks for searches opens a round.
LEMMA AsksSearches ==
    ASSUME SearchInv, NEW a \in Answers, ProbeAnswered(a), ProbeAsks(a)
    PROVE  SearchInv'
<1> DEFINE cs == a.calls
           asked == Asked(cs)
           m == Assistant(cs)
<1>1. /\ stage = "probing" /\ stage' = "delegating" /\ a.kind = "message" /\ asked # <<>>
      /\ appended' = <<m>> /\ toSearch' = asked
      /\ UNCHANGED <<messages, searchResults>>
  BY DEF ProbeAnswered, ProbeAsks
<1>2. cs \in Seq(Queries)
  BY <1>1, AnswersAssumption DEF Queries
<1>3. asked \in Seq(Queries)
  BY <1>2, AskedTyped
<1>4. m \in Messages /\ TextOf(m) = <<>> /\ m.role = "assistant"
  BY <1>2 DEF Assistant, Messages, TextOf
<1>5. appended = <<>>
  BY <1>1 DEF SearchInv, RoundInv
<1> HIDE DEF m, asked, cs
<1>6. ResultTexts(messages' \o appended') = searchResults'
  <2>1. messages \o <<m>> = Append(messages, m) /\ messages \o <<>> = messages
    BY <1>4 DEF SearchInv
  <2>2. ResultTexts(Append(messages, m)) = ResultTexts(messages) \o <<>>
    BY <1>4, ResultTextsAppend DEF SearchInv
  <2>3. ResultTexts(messages) \o <<>> = ResultTexts(messages)
    <3>1. ASSUME NEW c \in Seq(Messages) PROVE ResultTexts(c) \in Seq(Texts)
      BY <3>1, ResultTextsTyped
    <3> QED
      BY <3>1, JoinNothing DEF SearchInv
  <2> QED
    BY <1>1, <1>5, <2>1, <2>2, <2>3 DEF SearchInv
<1>7. RoundInv'
  <2>1. Answered(cs, 0, <<m>>)
    BY DEF Answered, m
  <2>2. Len(asked) = 0 + Len(asked) /\ \A j \in 1..Len(asked) : asked[j] = asked[0 + j]
    BY <1>3
  <2> QED
    BY <1>1, <1>2, <2>1, <2>2 DEF RoundInv, asked
<1>8. <<m>> \in Seq(Messages)
  BY <1>4
<1> QED
  BY <1>1, <1>3, <1>6, <1>7, <1>8 DEF SearchInv

\* A search brings its result, and the round's last ends the round.
LEMMA DelegateSearches ==
    ASSUME SearchInv, Delegate
    PROVE  SearchInv'
<1>1. PICK text \in Findings(Head(toSearch)) :
          LET answered == Append(appended, Result(Head(toSearch).id, text))
              last     == Len(toSearch) = 1
          IN  /\ toSearch' = Tail(toSearch)
              /\ appended' = IF last THEN <<>> ELSE answered
              /\ messages' = IF last THEN messages \o answered ELSE messages
              /\ stage' = IF last THEN "ready" ELSE "delegating"
              /\ searchResults' = Append(searchResults, text)
  BY DEF Delegate
<1> DEFINE r == Result(Head(toSearch).id, text)
           answered == Append(appended, r)
           last == Len(toSearch) = 1
<1>2. PICK cs \in Seq(Queries), n \in Nat :
            /\ Answered(cs, n, appended)
            /\ toSearch # <<>>
            /\ Len(Asked(cs)) = n + Len(toSearch)
            /\ \A j \in 1..Len(toSearch) : toSearch[j] = Asked(cs)[n + j]
  <2>1. stage = "delegating"
    BY DEF Delegate
  <2> QED
    BY <2>1 DEF SearchInv, RoundInv
<1> DEFINE asked == Asked(cs)
<1>3. asked \in Seq(Queries)
  BY AskedTyped
<1> HIDE DEF asked
<1>4. /\ toSearch \in Seq(Queries) /\ Len(toSearch) \in Nat /\ Len(toSearch) >= 1
      /\ Head(toSearch) = asked[n + 1] /\ Head(toSearch) \in Queries
      /\ Tail(toSearch) \in Seq(Queries) /\ Len(Tail(toSearch)) = Len(toSearch) - 1
      /\ \A j \in 1..(Len(toSearch) - 1) : Tail(toSearch)[j] = asked[n + 1 + j]
  <2>1. toSearch \in Seq(Queries) /\ toSearch # <<>>
    BY <1>2 DEF SearchInv
  <2>2. /\ Len(toSearch) \in Nat /\ Len(toSearch) >= 1 /\ Head(toSearch) = toSearch[1] /\ Head(toSearch) \in Queries
        /\ Tail(toSearch) \in Seq(Queries) /\ Len(Tail(toSearch)) = Len(toSearch) - 1
        /\ \A j \in 1..(Len(toSearch) - 1) : Tail(toSearch)[j] = toSearch[j + 1]
    BY <2>1
  <2>3. \A j \in 1..(Len(toSearch) - 1) : j + 1 \in 1..Len(toSearch) /\ n + (j + 1) = n + 1 + j
    BY <2>2
  <2>4. 1 \in 1..Len(toSearch)
    BY <2>2
  <2> QED
    BY <1>2, <2>1, <2>2, <2>3, <2>4 DEF asked
<1>5. text \in Texts /\ r \in Messages /\ TextOf(r) = <<text>>
  <2>1. text \in Texts
    BY <1>4 DEF Findings, Texts, Queries
  <2>2. Head(toSearch).id \in STRING
    BY <1>4 DEF Queries
  <2> QED
    BY <2>1, <2>2 DEF Result, Messages, TextOf
<1>6. Answered(cs, n + 1, answered)
  <2>1. /\ appended \in Seq(Messages) /\ Len(appended) = n + 1 /\ appended[1] = Assistant(cs)
        /\ \A j \in 1..n :
              /\ appended[j + 1].role = "tool"
              /\ appended[j + 1].id = asked[j].id
              /\ appended[j + 1].text \in Findings(asked[j])
    BY <1>2 DEF SearchInv, Answered, asked
  <2>2. /\ Len(answered) = n + 2 /\ answered[n + 2] = r
        /\ \A k \in 1..(n + 1) : answered[k] = appended[k]
    BY <2>1, <1>5
  <2>3. r.role = "tool" /\ r.id = asked[n + 1].id /\ r.text \in Findings(asked[n + 1])
    BY <1>1, <1>4 DEF Result
  <2> HIDE DEF answered, r
  <2>4. ASSUME NEW j \in 1..(n + 1)
        PROVE  /\ answered[j + 1].role = "tool"
               /\ answered[j + 1].id = asked[j].id
               /\ answered[j + 1].text \in Findings(asked[j])
    <3>1. CASE j = n + 1
      BY <2>2, <2>3, <3>1
    <3>2. CASE j # n + 1
      <4>1. j \in 1..n /\ j + 1 \in 1..(n + 1)
        BY <3>2
      <4> QED
        BY <2>1, <2>2, <4>1
    <3> QED
      BY <3>1, <3>2
  <2>5. 1 \in 1..(n + 1)
    OBVIOUS
  <2> QED
    BY <2>1, <2>2, <2>4, <2>5 DEF Answered, asked
<1>7. answered \in Seq(Messages)
  BY <1>5 DEF SearchInv
<1>8. ResultTexts(messages \o answered) = Append(searchResults, text)
  <2>1. messages \o answered = Append(messages \o appended, r) /\ messages \o appended \in Seq(Messages)
    BY <1>5 DEF SearchInv
  <2>2. ResultTexts(Append(messages \o appended, r)) = ResultTexts(messages \o appended) \o <<text>>
    BY <1>5, <2>1, ResultTextsAppend
  <2>3. searchResults \in Seq(Texts) /\ searchResults \o <<text>> = Append(searchResults, text)
    <3>1. searchResults \in Seq(Texts)
      BY <2>1, ResultTextsTyped DEF SearchInv
    <3> QED
      BY <1>5, <3>1
  <2> QED
    BY <2>1, <2>2, <2>3 DEF SearchInv
<1> HIDE DEF answered, r
<1>9. /\ toSearch' = Tail(toSearch)
      /\ appended' = IF last THEN <<>> ELSE answered
      /\ messages' = IF last THEN messages \o answered ELSE messages
      /\ stage' = IF last THEN "ready" ELSE "delegating"
      /\ searchResults' = Append(searchResults, text)
  BY <1>1 DEF answered, r
<1>10. CASE last
  <2>1. messages' = messages \o answered /\ appended' = <<>> /\ stage' = "ready"
    BY <1>9, <1>10
  <2>2. messages' \in Seq(Messages) /\ appended' \in Seq(Messages) /\ messages' \o <<>> = messages'
    <3>1. messages \o answered \in Seq(Messages)
      BY <1>7 DEF SearchInv
    <3> QED
      BY <2>1, <3>1, JoinNothing
  <2>3. toSearch' = <<>>
    BY <1>4, <1>9, <1>10
  <2>4. Rounds(messages \o answered)
    <3>1. n + 1 = Len(Asked(cs))
      BY <1>2, <1>10
    <3>2. Answered(cs, Len(Asked(cs)), answered)
      BY <1>6, <3>1
    <3> QED
      BY <1>7, <3>2, RoundJoins DEF SearchInv
  <2>5. RoundInv'
    BY <2>1, <2>3 DEF RoundInv
  <2> QED
    BY <1>4, <1>8, <1>9, <2>1, <2>2, <2>4, <2>5 DEF SearchInv
<1>11. CASE ~last
  <2>1. messages' = messages /\ appended' = answered /\ stage' = "delegating"
    BY <1>9, <1>11
  <2>2. RoundInv'
    <3>1. Len(asked) = n + Len(toSearch) /\ Len(toSearch) # 1
      BY <1>2, <1>11 DEF asked
    <3> HIDE DEF last
    <3> DEFINE rest == Tail(toSearch)
    <3>2. /\ Len(rest) = Len(toSearch) - 1 /\ rest \in Seq(Queries)
          /\ \A j \in 1..(Len(toSearch) - 1) : rest[j] = asked[n + 1 + j]
      BY <1>4
    <3> HIDE DEF rest
    <3>3. rest # <<>> /\ Len(asked) = (n + 1) + Len(rest) /\ \A j \in 1..Len(rest) : rest[j] = asked[(n + 1) + j]
      <4>1. Len(toSearch) - 1 = Len(rest) /\ Len(rest) # 0
        BY <1>4, <3>1, <3>2
      <4>2. rest # <<>>
        BY <4>1
      <4>3. Len(asked) = (n + 1) + Len(rest)
        <5> DEFINE x == Len(asked)
                   y == Len(toSearch)
                   z == Len(rest)
        <5>1. y \in Nat /\ x = n + y /\ z = y - 1
          BY <1>4, <3>1, <3>2
        <5> HIDE DEF x, y, z
        <5>2. x = (n + 1) + z
          BY <5>1
        <5> QED
          BY <5>2 DEF x, z
      <4>4. \A j \in 1..Len(rest) : rest[j] = asked[(n + 1) + j]
        <5> TAKE j \in 1..Len(rest)
        <5>1. j \in 1..(Len(toSearch) - 1)
          BY <4>1
        <5> QED
          BY <3>2, <5>1
      <4> QED
        BY <4>2, <4>3, <4>4
    <3>4. n + 1 \in Nat /\ toSearch' = rest
      BY <1>9 DEF rest
    <3>5. /\ Answered(cs, n + 1, appended')
          /\ toSearch' # <<>>
          /\ Len(Asked(cs)) = (n + 1) + Len(toSearch')
          /\ \A j \in 1..Len(toSearch') : toSearch'[j] = Asked(cs)[(n + 1) + j]
      BY <1>6, <2>1, <3>3, <3>4 DEF asked
    <3> DEFINE k == n + 1
    <3> HIDE DEF k
    <3>6. k \in Nat /\ k = n + 1
      BY <3>4 DEF k
    <3>7. /\ Answered(cs, k, appended')
          /\ toSearch' # <<>>
          /\ Len(Asked(cs)) = k + Len(toSearch')
          /\ \A j \in 1..Len(toSearch') : toSearch'[j] = Asked(cs)[k + j]
      BY <3>5, <3>6
    <3> QED
      BY <2>1, <3>6, <3>7 DEF RoundInv
  <2> QED
    BY <1>4, <1>7, <1>8, <1>9, <2>1, <2>2 DEF SearchInv
<1> QED
  BY <1>10, <1>11

\* Every step of the search keeps it.
LEMMA SearchKept ==
    ASSUME SearchInv, SearchNext
    PROVE  SearchInv'
<1>1. CASE SendProbe
  BY <1>1 DEF SendProbe, SearchInv, RoundInv
<1>2. CASE SendFinal
  BY <1>2 DEF SendFinal, SearchInv, RoundInv
<1>3. ASSUME NEW a \in Answers, ProbeAnswered(a) PROVE SearchInv'
  <2>1. CASE ProbeAsks(a)
    BY <1>3, <2>1, AsksSearches
  <2>2. CASE ~ProbeAsks(a)
    <3>1. /\ stage = "probing" /\ stage' # "delegating"
          /\ UNCHANGED <<messages, appended, toSearch, searchResults>>
      BY <1>3, <2>2 DEF ProbeAnswered, ProbeFailed, ProbeNarrated, ProbeCompleted
    <3> QED
      BY <3>1 DEF SearchInv, RoundInv
  <2> QED
    BY <2>1, <2>2
<1>4. CASE Delegate
  BY <1>4, DelegateSearches
<1> QED
  BY <1>1, <1>2, <1>3, <1>4 DEF SearchNext

\* So do the steps of the stream that the search has no part in.
LEMMA SearchOver ==
    ASSUME SearchDropped
    PROVE  SearchInv'
<1>1. messages' = <<>> /\ appended' = <<>> /\ toSearch' = <<>> /\ searchResults' = <<>> /\ stage' = "ready"
  BY DEF SearchDropped
<1>2. <<>> \o <<>> = <<>> /\ <<>> \in Seq(Messages) /\ <<>> \in Seq(Queries)
  OBVIOUS
<1>3. Rounds(<<>>)
  BY DEF Rounds
<1> QED
  BY <1>1, <1>2, <1>3, NoResultTexts DEF SearchInv, RoundInv

\* The invariant of the search holds throughout, for any answers of the model.
THEOREM SearchInvariant == Spec => []SearchInv
<1>1. Init => SearchInv
  BY SearchStarts DEF Init, SearchInit
<1>2. SearchInv /\ [Next]_vars => SearchInv'
  <2> SUFFICES ASSUME SearchInv, [Next]_vars PROVE SearchInv'
    OBVIOUS
  <2>1. CASE Search
    BY <2>1, SearchKept DEF Search
  <2>2. CASE SearchDropped
    BY <2>2, SearchOver
  <2>3. CASE ~Search /\ ~SearchDropped
    <3>1. UNCHANGED <<stage, messages, appended, toSearch, searchResults>>
      BY <2>3 DEF Next, Proceed, BeginSearch, SearchNotNeeded, SearchFailed, Searched, UpstreamEnd,
                  CacheCompleted, UpstreamLine, Deliver, SendDone, Disconnect, vars, searchVars
    <3> QED
      BY <3>1 DEF SearchInv, RoundInv
  <2> QED
    BY <2>1, <2>2, <2>3
<1> QED
  BY <1>1, <1>2, PTL DEF Spec

\* What the searches found has reached the upstream, each in its place behind the
\* call that asked for it, whatever rounds there were (resolve_web_search_calls).
THEOREM SearchFindingsReachUpstream == Spec => []FindingsReachUpstream
<1>1. SearchInv => FindingsReachUpstream
  BY DEF SearchInv, FindingsReachUpstream, Rounds, Follows, ResultsFollow
<1> QED
  BY <1>1, SearchInvariant, PTL
=============================================================================
