----------------------- MODULE ConversationTurnsProofs ------------------------
(***************************************************************************)
(* What TranslatedConversationProofs leaves: one turn, and all of them, for*)
(* any routes, tools, turns and streams, and for any number of requests.   *)
(*                                                                         *)
(* A turn is what its items say (Said).  A client of a stream is followed  *)
(* burst by burst: after so many items it has what they say (ShownSaid,    *)
(* RelaySaid), so one that is told that the turn has ended has it all      *)
(* (DeliveryInv).                                                          *)
(*                                                                         *)
(* Whether a history is taken is a question of its lines (Accepts,         *)
(* TakenIfAccepted).  A turn and its answers keep to the rules, and so     *)
(* does all of a conversation (FollowUpInv), unless the model has spoken   *)
(* right behind a call.                                                    *)
(***************************************************************************)
EXTENDS TranslatedConversationProofs

-----------------------------------------------------------------------------
(* What the items of a turn say.                                            *)

\* What the output items of a turn say: of each its part, but of reasoning nothing.
SaidOf(item) == IF item.type = "reasoning" THEN <<>> ELSE <<PartOf(item)>>
SaidOut      == [x \in Outs |-> SaidOf(x)]
Said(output) == Joint(SaidOut, output)

\* Items of which an Anthropic or a chat client hears everything.
Functions == {x \in Outs : x.type = "call" => x.tool.kind = "function"}

\* The part of an item that is not reasoning.
LEMMA OutPart ==
    ASSUME NEW x \in Outs, x.type # "reasoning"
    PROVE  /\ PartOf(x) \in Spoke
           /\ x.type = "message" => PartOf(x) \in Texts
           /\ x.type = "call" => PartOf(x) \in Calls /\ PartOf(x) = Call(x.id, x.tool)
<1>1. CASE x.type = "message"
  <2>1. PartOf(x) \in Texts
    BY <1>1, PartOfTyped
  <2> QED
    BY <1>1, <2>1 DEF Spoke
<1>2. CASE x.type = "call"
  <2>1. PartOf(x) = Call(x.id, x.tool) /\ x.id \in Nat /\ x.tool \in AnyTools
    BY <1>2, OutTyped DEF PartOf
  <2>2. PartOf(x) \in Calls
    BY <2>1, PartTyped
  <2> QED
    BY <1>2, <2>1, <2>2 DEF Spoke
<1> QED
  BY <1>1, <1>2, OutTyped

\* What one item says is in the format of a model's parts.
LEMMA SaidOutTyped == SaidOut \in [Outs -> Seq(Spoke)]
<1>1. ASSUME NEW x \in Outs PROVE SaidOf(x) \in Seq(Spoke)
  <2>1. CASE x.type = "reasoning"
    BY <2>1 DEF SaidOf
  <2>2. CASE x.type # "reasoning"
    <3> DEFINE p == PartOf(x)
    <3>1. p \in Spoke
      BY <2>2, OutPart
    <3>2. SaidOf(x) = <<p>>
      BY <2>2 DEF SaidOf
    <3> HIDE DEF p
    <3> QED
      BY <3>1, <3>2
  <2> QED
    BY <2>1, <2>2
<1> QED
  BY <1>1 DEF SaidOut

\* What a turn says is in that format.
LEMMA SaidTyped ==
    ASSUME NEW output \in Seq(Outs)
    PROVE  Said(output) \in Seq(Spoke) /\ Said(output) \in Seq(Parts)
<1>1. Said(output) \in Seq(Spoke)
  BY SaidOutTyped, JointTyped DEF Said
<1> QED
  BY <1>1, SpokenHeard

\* No items say nothing.
LEMMA SaidNothing == Said(<<>>) = <<>> /\ TextsOf(<<>>) = <<>> /\ CallsOf(<<>>) = <<>>
<1>1. <<>> \in Seq(Parts)
  OBVIOUS
<1> QED
  BY <1>1, JointEmpty, PartsSorted, KeptEmpty DEF Said

\* One part behind others.
LEMMA SortedAppend ==
    ASSUME NEW parts \in Seq(Spoke), NEW p \in Spoke
    PROVE  /\ p \in Texts => /\ TextsOf(Append(parts, p)) = Append(TextsOf(parts), p)
                             /\ CallsOf(Append(parts, p)) = CallsOf(parts)
           /\ p \in Calls => /\ CallsOf(Append(parts, p)) = Append(CallsOf(parts), p)
                             /\ TextsOf(Append(parts, p)) = TextsOf(parts)
<1> DEFINE more == Append(parts, p)
<1>1. parts \in Seq(Parts) /\ p \in Parts /\ more \in Seq(Parts)
  <2>1. more \in Seq(Spoke)
    OBVIOUS
  <2> HIDE DEF more
  <2> QED
    BY <2>1, SpokenHeard DEF Spoke, Parts
<1>2. /\ TextsOf(parts) = Kept(Parts, Texts, parts) /\ CallsOf(parts) = Kept(Parts, Calls, parts)
      /\ TextsOf(more) = Kept(Parts, Texts, more) /\ CallsOf(more) = Kept(Parts, Calls, more)
  <2> HIDE DEF more
  <2> QED
    BY <1>1, PartsSorted
<1>3. (p \in Texts => p \notin Calls) /\ (p \in Calls => p \notin Texts)
  BY <1>1, KindsOfParts
<1> QED
  BY <1>1, <1>2, <1>3, KeptAppend

\* One item behind others.
LEMMA SaidAppend ==
    ASSUME NEW output \in Seq(Outs), NEW x \in Outs
    PROVE  /\ x.type = "reasoning" => Said(Append(output, x)) = Said(output)
           /\ x.type # "reasoning" => Said(Append(output, x)) = Append(Said(output), PartOf(x))
<1>1. Said(Append(output, x)) = Said(output) \o SaidOut[x]
  BY SaidOutTyped, JointAppend DEF Said
<1>2. Said(output) \in Seq(Spoke)
  BY SaidTyped
<1>3. SaidOut[x] = SaidOf(x)
  BY DEF SaidOut
<1> DEFINE one == Said(output)
<1> HIDE DEF one
<1>4. CASE x.type = "reasoning"
  <2>1. one \o <<>> = one
    BY <1>2 DEF one
  <2> QED
    BY <1>1, <1>3, <1>4, <2>1 DEF SaidOf, one
<1>5. CASE x.type # "reasoning"
  <2> DEFINE p == PartOf(x)
  <2>1. p \in Spoke
    BY <1>5, OutPart
  <2>2. SaidOf(x) = <<p>>
    BY <1>5 DEF SaidOf
  <2> HIDE DEF p
  <2>3. one \o <<p>> = Append(one, p)
    BY <1>2, <2>1 DEF one
  <2> QED
    BY <1>1, <1>3, <1>5, <2>2, <2>3 DEF one, p
<1> QED
  BY <1>4, <1>5

\* With the texts and the calls apart.
LEMMA SaidSorted ==
    ASSUME NEW output \in Seq(Outs), NEW x \in Outs
    PROVE  LET more == Said(Append(output, x))
           IN  /\ x.type = "reasoning" => TextsOf(more) = TextsOf(Said(output)) /\ CallsOf(more) = CallsOf(Said(output))
               /\ x.type = "message" => /\ TextsOf(more) = Append(TextsOf(Said(output)), PartOf(x))
                                        /\ CallsOf(more) = CallsOf(Said(output))
               /\ x.type = "call" => /\ TextsOf(more) = TextsOf(Said(output))
                                     /\ CallsOf(more) = Append(CallsOf(Said(output)), PartOf(x))
<1>1. Said(output) \in Seq(Spoke)
  BY SaidTyped
<1> DEFINE p == PartOf(x)
           one == Said(output)
<1>2. x.type = "reasoning" => Said(Append(output, x)) = one
  BY SaidAppend
<1>3. x.type # "reasoning" => Said(Append(output, x)) = Append(one, p)
  BY SaidAppend
<1>4. /\ x.type # "reasoning" => p \in Spoke
      /\ x.type = "message" => x.type # "reasoning" /\ p \in Texts
      /\ x.type = "call" => x.type # "reasoning" /\ p \in Calls
  BY OutPart
<1> HIDE DEF p, one
<1>5. CASE x.type # "reasoning"
  <2>1. Said(Append(output, x)) = Append(one, p) /\ one \in Seq(Spoke) /\ p \in Spoke
    BY <1>1, <1>3, <1>4, <1>5 DEF one
  <2>2. /\ p \in Texts => /\ TextsOf(Append(one, p)) = Append(TextsOf(one), p)
                          /\ CallsOf(Append(one, p)) = CallsOf(one)
        /\ p \in Calls => /\ CallsOf(Append(one, p)) = Append(CallsOf(one), p)
                          /\ TextsOf(Append(one, p)) = TextsOf(one)
    BY <2>1, SortedAppend
  <2> QED
    BY <1>4, <1>5, <2>1, <2>2 DEF one, p
<1> QED
  BY <1>2, <1>5 DEF one

\* There are calls to answer exactly if calls have been said.
LEMMA CallsSaid ==
    ASSUME NEW output \in Seq(Functions)
    PROVE  HasFunctionCall(output) <=> CallsOf(Said(output)) # <<>>
<1> DEFINE T == {s \in Seq(Functions) : HasFunctionCall(s) <=> CallsOf(Said(s)) # <<>>}
<1>1. <<>> \in T
  BY SaidNothing DEF HasFunctionCall
<1>2. ASSUME NEW s \in Seq(Functions), NEW x \in Functions, s \in T PROVE Append(s, x) \in T
  <2>1. s \in Seq(Outs) /\ x \in Outs /\ (IsFunctionCall(x) <=> x.type = "call") /\ x.type \in {"message", "call", "reasoning"}
    <3>1. x \in Outs /\ (x.type = "call" => x.tool.kind = "function")
      BY DEF Functions
    <3>2. s \in Seq(Outs)
      BY DEF Functions
    <3> QED
      BY <3>1, <3>2, OutTyped DEF IsFunctionCall
  <2>2. HasFunctionCall(Append(s, x)) <=> HasFunctionCall(s) \/ IsFunctionCall(x)
    <3>1. Len(s) \in Nat /\ DOMAIN s = 1..Len(s) /\ DOMAIN Append(s, x) = 1..(Len(s) + 1)
      OBVIOUS
    <3>2. Append(s, x)[Len(s) + 1] = x /\ \A i \in 1..Len(s) : Append(s, x)[i] = s[i]
      OBVIOUS
    <3>3. (Len(s) + 1) \in 1..(Len(s) + 1) /\ \A i \in 1..(Len(s) + 1) : i \in 1..Len(s) \/ i = Len(s) + 1
      BY <3>1
    <3>4. \A i \in 1..Len(s) : i \in 1..(Len(s) + 1)
      BY <3>1
    <3> QED
      BY <3>1, <3>2, <3>3, <3>4, Zenon DEF HasFunctionCall
  <2>3. CallsOf(Said(s)) \in Seq(Calls)
    BY <2>1, SaidTyped, PartsSorted
  <2>4. x.type = "call" => Append(CallsOf(Said(s)), PartOf(x)) # <<>>
    BY <2>1, <2>3, OutPart
  <2>5. Append(s, x) \in Seq(Functions)
    OBVIOUS
  <2>6. HasFunctionCall(Append(s, x)) <=> CallsOf(Said(Append(s, x))) # <<>>
    BY <1>2, <2>1, <2>2, <2>4, SaidSorted
  <2> QED
    BY <2>5, <2>6
<1> HIDE DEF T
<1>3. output \in T
  BY <1>1, <1>2, SequencesGrow
<1> QED
  BY <1>3 DEF T
-----------------------------------------------------------------------------
(* What the model has said is what its items say.                           *)

\* To keep and then to map is one pass.
Chosen(A, K, g) == [x \in A |-> IF x \in K THEN <<g[x]>> ELSE <<>>]

\* To keep some and map those is to join what each of them brings.
LEMMA MappedKept ==
    ASSUME NEW A, NEW B, NEW K, NEW g, Maps(g, A, B), NEW s \in Seq(A)
    PROVE  Mapped(g, Kept(A, K, s)) = Joint(Chosen(A, K, g), s)
<1> DEFINE h == Chosen(A, K, g)
           T == {t \in Seq(A) : Mapped(g, Kept(A, K, t)) = Joint(h, t)}
<1>0. h \in [A -> Seq(B)]
  <2>1. ASSUME NEW x \in A PROVE <<g[x]>> \in Seq(B) /\ <<>> \in Seq(B)
    <3>1. g[x] \in B
      BY DEF Maps
    <3> QED
      BY <3>1
  <2> QED
    BY <2>1 DEF Chosen
<1>1. <<>> \in T
  BY KeptEmpty, MappedEmpty, JointEmpty
<1> HIDE DEF h
<1>2. ASSUME NEW t \in Seq(A), NEW x \in A, t \in T PROVE Append(t, x) \in T
  <2> DEFINE kept == Kept(A, K, t)
  <2>1. kept \in Seq(A)
    <3>1. Kept(A, K, t) \in Seq(A \intersect K)
      BY KeptTyped
    <3> QED
      BY <3>1
  <2>2. Joint(h, Append(t, x)) = Joint(h, t) \o h[x] /\ Joint(h, t) \in Seq(B)
    BY <1>0, JointAppend, JointTyped
  <2>3. Kept(A, K, Append(t, x)) = IF x \in K THEN Append(kept, x) ELSE kept
    BY KeptAppend
  <2> HIDE DEF kept
  <2> DEFINE one == Joint(h, t)
             y == g[x]
  <2>4. Mapped(g, kept) = one
    BY <1>2 DEF kept
  <2> HIDE DEF one
  <2>5. CASE x \in K
    <3>1. h[x] = <<y>> /\ y \in B
      BY <2>5 DEF h, Chosen, Maps
    <3>2. Mapped(g, Append(kept, x)) = Append(Mapped(g, kept), y)
      BY <2>1, MappedAlong DEF Along
    <3> HIDE DEF y
    <3>3. one \o <<y>> = Append(one, y)
      BY <2>2, <3>1 DEF one
    <3>4. Mapped(g, Kept(A, K, Append(t, x))) = Joint(h, Append(t, x))
      BY <2>2, <2>3, <2>4, <2>5, <3>1, <3>2, <3>3 DEF one
    <3> QED
      BY <3>4
  <2>6. CASE x \notin K
    <3>1. h[x] = <<>>
      BY <2>6 DEF h, Chosen
    <3>2. one \o <<>> = one
      BY <2>2 DEF one
    <3>3. Mapped(g, Kept(A, K, Append(t, x))) = Joint(h, Append(t, x))
      BY <2>2, <2>3, <2>4, <2>6, <3>1, <3>2 DEF one
    <3> QED
      BY <3>3
  <2> QED
    BY <2>5, <2>6
<1> HIDE DEF T
<1>3. s \in T
  BY <1>1, <1>2, SequencesGrow
<1> QED
  BY <1>3 DEF T, h

\* The places of a turn in order, and those of some kind.
Places(n) == [k \in 1..n |-> k]

AtPlaces(n, K, g) == [k \in 1..n |-> IF k \in K THEN <<g[k]>> ELSE <<>>]

\* The places of a turn are its numbers, in order.
LEMMA PlacesTyped ==
    ASSUME NEW n \in Nat
    PROVE  Places(n) \in Seq(1..n) /\ Len(Places(n)) = n /\ DOMAIN Places(n) = 1..n /\ \A k \in 1..n : Places(n)[k] = k
<1>1. Places(n) \in [1..n -> 1..n] /\ \A k \in 1..n : Places(n)[k] = k
  BY DEF Places
<1> QED
  BY <1>1, IsSequence

\* Some of the places, and what is at each of them.
LEMMA PlacesChosen ==
    ASSUME NEW n \in Nat, NEW K, NEW B, NEW g, Maps(g, 1..n, B)
    PROVE  /\ Kept(1..n, K, Places(n)) \in Seq((1..n) \intersect K)
           /\ Mapped(g, Kept(1..n, K, Places(n))) = FlattenSeq(AtPlaces(n, K, g))
<1>1. Places(n) \in Seq(1..n) /\ DOMAIN Places(n) = 1..n /\ \A k \in 1..n : Places(n)[k] = k
  BY PlacesTyped
<1> DEFINE A == 1..n
           s == Places(n)
<1> HIDE DEF A, s
<1>2. Mapped(g, Kept(A, K, s)) = Joint(Chosen(A, K, g), s) /\ Kept(A, K, s) \in Seq(A \intersect K)
  <2>1. s \in Seq(A) /\ Maps(g, A, B)
    BY <1>1 DEF A, s
  <2> QED
    BY <2>1, MappedKept, KeptTyped
<1>3. Mapped(Chosen(1..n, K, g), Places(n)) = AtPlaces(n, K, g)
  BY <1>1 DEF Mapped, Chosen, AtPlaces
<1> QED
  BY <1>2, <1>3 DEF Joint, A, s

\* A turn whose calls come back with the tools they were declared with.
Kindly(turn) ==
    route.via = "chat" => \A k \in DOMAIN turn : turn[k].kind = "call" => Registered.tools[turn[k].upstream] = turn[k].tool

\* The items as the client hears them: in a whole chat answer a thought passes
\* for a text.
Uttered(x) ==
    IF route.api = "chat" /\ ~route.stream /\ x.type = "reasoning" /\ x.texts # <<>> THEN Message("assistant", x.texts)
    ELSE x
Utterance(output) == [k \in DOMAIN output |-> Uttered(output[k])]

\* MISSING UtteredTyped
LEMMA UtteredTyped ==
    ASSUME NEW x \in Outs
    PROVE  /\ Uttered(x) \in Outs
           /\ x.type # "reasoning" => Uttered(x) = x
           /\ Uttered(x).type \in {"message", "reasoning"} \/ Uttered(x) = x
<1>1. CASE Uttered(x) = x
  BY <1>1
<1>2. CASE Uttered(x) # x
  <2>1. Uttered(x) = Message("assistant", x.texts) /\ x.type = "reasoning" /\ x.texts # <<>>
    BY <1>2 DEF Uttered
  <2>2. PICK t \in Nat : x.texts = <<t>>
    BY <2>1, OutTyped
  <2>3. Uttered(x) \in Outs
    BY <2>1, <2>2 DEF Outs, SaidItems
  <2>4. Uttered(x).type = "message"
    BY <2>1 DEF Message
  <2> QED
    BY <2>1, <2>3, <2>4
<1> QED
  BY <1>1, <1>2

\* The item at a place of a turn says what the model said there.
LEMMA ItemAtSays ==
    ASSUME ToolsTyped, requests \in Nat, NEW turn, TurnTyped(turn), Kindly(turn), NEW k \in DOMAIN turn
    PROVE  /\ ItemAt(turn, k) \in Outs
           /\ SaidOf(Uttered(ItemAt(turn, k))) = IF turn[k].kind \in Audible THEN <<PartAt(turn, k)>> ELSE <<>>
           /\ turn[k].kind \in {"reasoning", "thought"} <=> ItemAt(turn, k).type = "reasoning"
           /\ turn[k].kind = "text" => ItemAt(turn, k) = Message("assistant", <<Id(k)>>)
           /\ turn[k].kind = "call" => ItemAt(turn, k) = CallItem(Id(k), turn[k].tool)
           /\ PartAt(turn, k) \in Parts
           /\ turn[k].kind \in {"text", "reasoning", "thought", "call"}
<1>0. k \in 1..Len(turn) /\ Len(turn) \in Nat /\ Id(k) \in Nat /\ turn[k].kind \in {"text", "reasoning", "thought", "call"}
  <2>1. k \in 1..Len(turn) /\ Len(turn) \in Nat /\ turn[k].kind \in {"text", "reasoning", "thought", "call"}
    BY DEF TurnTyped
  <2> QED
    BY <2>1, IdTyped
<1>1. ItemAt(turn, k) \in Outs
  <2>1. Output(turn) \in Seq(Outs) /\ DOMAIN Output(turn) = DOMAIN turn /\ Output(turn)[k] = ItemAt(turn, k)
    BY OutputTyped DEF Output
  <2> QED
    BY <2>1
<1>2. turn[k].kind # "call" => PartAt(turn, k) = Text(Id(k)) /\ Text(Id(k)) \in Parts
  BY <1>0, TextTyped DEF PartAt
<1>3. SaidOf(Message("assistant", <<Id(k)>>)) = <<Text(Id(k))>>
  BY DEF SaidOf, PartOf, Message
<1>4. CASE turn[k].kind = "text"
  <2>1. ItemAt(turn, k) = Message("assistant", <<Id(k)>>)
    BY <1>4 DEF ItemAt
  <2>2. ItemAt(turn, k).type = "message"
    BY <2>1 DEF Message
  <2>3. Uttered(ItemAt(turn, k)) = ItemAt(turn, k)
    BY <2>2 DEF Uttered
  <2>4. turn[k].kind \in Audible
    BY <1>4 DEF Audible
  <2> QED
    BY <1>0, <1>1, <1>2, <1>3, <1>4, <2>1, <2>2, <2>3, <2>4
<1>5. CASE turn[k].kind = "reasoning"
  <2>1. ItemAt(turn, k) = Reasoning
    BY <1>5 DEF ItemAt
  <2>2. Reasoning.type = "reasoning" /\ Reasoning.texts = <<>>
    BY DEF Reasoning
  <2>3. Uttered(ItemAt(turn, k)) = Reasoning
    BY <2>1, <2>2 DEF Uttered
  <2>4. SaidOf(Reasoning) = <<>>
    BY <2>2 DEF SaidOf
  <2>5. turn[k].kind \notin Audible
    BY <1>5 DEF Audible
  <2> QED
    BY <1>0, <1>1, <1>2, <1>5, <2>1, <2>2, <2>3, <2>4, <2>5
<1>6. CASE turn[k].kind = "thought"
  <2> DEFINE x == Thought(<<Id(k)>>)
  <2>1. ItemAt(turn, k) = x
    BY <1>6 DEF ItemAt
  <2>2. x.type = "reasoning" /\ x.texts = <<Id(k)>>
    BY DEF Thought, Reasoning
  <2>3. x.texts # <<>>
    BY <2>2
  <2> HIDE DEF x
  <2>4. Uttered(x) = IF route.api = "chat" /\ ~route.stream THEN Message("assistant", <<Id(k)>>) ELSE x
    BY <2>2, <2>3 DEF Uttered
  <2>5. SaidOf(x) = <<>>
    BY <2>2 DEF SaidOf
  <2>6. turn[k].kind \in Audible <=> route.api = "chat" /\ ~route.stream
    BY <1>6 DEF Audible
  <2>7. SaidOf(Uttered(x)) = IF turn[k].kind \in Audible THEN <<PartAt(turn, k)>> ELSE <<>>
    BY <1>2, <1>3, <1>6, <2>4, <2>5, <2>6
  <2> QED
    BY <1>0, <1>1, <1>2, <1>6, <2>1, <2>2, <2>7
<1>7. CASE turn[k].kind = "call"
  <2>1. ItemAt(turn, k) = CallItem(Id(k), turn[k].tool)
    BY <1>7 DEF ItemAt, Kindly
  <2>2. SaidOf(CallItem(Id(k), turn[k].tool)) = <<Call(Id(k), turn[k].tool)>>
    BY DEF SaidOf, PartOf, CallItem
  <2>3. PartAt(turn, k) = Call(Id(k), turn[k].tool) /\ PartAt(turn, k) \in Parts
    <3>1. turn[k].tool \in AnyTools
      BY <1>7 DEF TurnTyped
    <3> QED
      BY <1>0, <1>7, <3>1, PartTyped DEF PartAt
  <2>4. ItemAt(turn, k).type = "call"
    BY <2>1 DEF CallItem
  <2>5. Uttered(ItemAt(turn, k)) = ItemAt(turn, k)
    BY <2>4 DEF Uttered
  <2>6. turn[k].kind \in Audible
    BY <1>7 DEF Audible
  <2> QED
    BY <1>0, <1>1, <1>7, <2>1, <2>2, <2>3, <2>4, <2>5, <2>6
<1> QED
  BY <1>0, <1>4, <1>5, <1>6, <1>7

\* What the model has said, as the client hears it, is what the items of its turn say.
LEMMA SpokenIsSaid ==
    ASSUME ToolsTyped, requests \in Nat, NEW turn, TurnTyped(turn), Kindly(turn)
    PROVE  Spoken(turn) = Said(Utterance(Output(turn)))
<1> DEFINE n == Len(turn)
           K == {k \in 1..n : turn[k].kind \in Audible}
           heard == Those([k \in DOMAIN turn |-> k], LAMBDA k : turn[k].kind \in Audible)
           g == [k \in 1..n |-> PartAt(turn, k)]
<1>0. n \in Nat /\ DOMAIN turn = 1..n
  BY DEF TurnTyped
<1>1. heard = Kept(1..n, K, Places(n))
  <2> DEFINE all == [k \in DOMAIN turn |-> k]
  <2>1. all = Places(n) /\ DOMAIN all = 1..n /\ \A k \in 1..n : all[k] = k
    BY <1>0, PlacesTyped DEF Places
  <2> HIDE DEF all
  <2>2. [i \in DOMAIN all |-> IF turn[all[i]].kind \in Audible THEN <<all[i]>> ELSE <<>>]
           = Mapped(Picks(1..n, K), all)
    BY <2>1 DEF Mapped, Picks
  <2>3. Those(all, LAMBDA k : turn[k].kind \in Audible) = Kept(1..n, K, all)
    BY <2>2 DEF Those, Kept, Joint
  <2> HIDE DEF n, K
  <2> QED
    BY <2>1, <2>3 DEF all
<1>2. Maps(g, 1..n, Parts)
  BY <1>0, ItemAtSays DEF Maps
<1>3. Kept(1..n, K, Places(n)) \in Seq((1..n) \intersect K)
      /\ Mapped(g, Kept(1..n, K, Places(n))) = FlattenSeq(AtPlaces(n, K, g))
  <2> HIDE DEF n, K, g, heard
  <2> QED
    BY <1>0, <1>2, PlacesChosen
<1>4. Spoken(turn) = Mapped(g, heard)
  <2>1. \A i \in DOMAIN heard : heard[i] \in 1..n
    BY <1>1, <1>3
  <2>2. Spoken(turn) = [i \in DOMAIN heard |-> PartAt(turn, heard[i])]
    BY DEF Spoken, Each
  <2> HIDE DEF heard, n
  <2> QED
    BY <2>1, <2>2 DEF Mapped
<1>5. AtPlaces(n, K, g) = Mapped(SaidOut, Utterance(Output(turn)))
  <2> DEFINE output == Utterance(Output(turn))
  <2>1. DOMAIN output = 1..n /\ \A k \in 1..n : output[k] = Uttered(ItemAt(turn, k))
    BY <1>0 DEF Output, Utterance
  <2>2. ASSUME NEW k \in 1..n PROVE SaidOut[Uttered(ItemAt(turn, k))] = IF k \in K THEN <<g[k]>> ELSE <<>>
    <3>1. /\ ItemAt(turn, k) \in Outs
          /\ SaidOf(Uttered(ItemAt(turn, k))) = IF turn[k].kind \in Audible THEN <<PartAt(turn, k)>> ELSE <<>>
      BY <1>0, ItemAtSays
    <3>2. SaidOut[Uttered(ItemAt(turn, k))] = SaidOf(Uttered(ItemAt(turn, k)))
      BY <3>1, UtteredTyped DEF SaidOut
    <3> QED
      BY <3>1, <3>2
  <2> HIDE DEF K, g, n, output
  <2>3. AtPlaces(n, K, g) = Mapped(SaidOut, output)
    BY <2>1, <2>2 DEF Mapped, AtPlaces
  <2> QED
    BY <2>3 DEF output
<1> QED
  BY <1>1, <1>3, <1>4, <1>5 DEF Said, Joint
-----------------------------------------------------------------------------
(* A chat answer, once it is output items, is the turn.                     *)

\* A turn through chat: a text in front or none, and calls.
ChatTurn(turn) ==
    /\ turn # <<>>
    /\ \A k \in DOMAIN turn : turn[k].kind \in {"text", "call"} /\ (turn[k].kind = "text" => k = 1)

\* Of a kind that is counted zero times there is none.
LEMMA NoneCounted ==
    ASSUME NEW n \in Nat, NEW S \in SUBSET (1..n), Cardinality(S) = 0
    PROVE  S = {}
<1>1. IsFiniteSet(1..n)
  BY FS_Interval
<1>2. IsFiniteSet(S)
  BY <1>1, FS_Subset
<1> QED
  BY <1>2, FS_EmptySet

\* A turn through chat has no reasoning, and its text is in front unless it is streamed.
LEMMA ChatTurns ==
    ASSUME ToolsTyped, route.via = "chat", NEW turn \in Turns
    PROVE  /\ turn # <<>>
           /\ \A k \in DOMAIN turn : turn[k].kind \in {"text", "call"}
           /\ ~route.stream => ChatTurn(turn)
<1>1. /\ turn # <<>> /\ Count(turn, "reasoning") = 0 /\ Count(turn, "thought") = 0
      /\ ~route.stream => \A i \in DOMAIN turn : turn[i].kind = "text" => i = 1
  BY DEF Turns
<1>2. TurnTyped(turn)
  BY TurnsTyped
<1>3. Len(turn) \in Nat /\ DOMAIN turn = 1..Len(turn)
      /\ \A k \in DOMAIN turn : turn[k].kind \in {"text", "reasoning", "thought", "call"}
  BY <1>2 DEF TurnTyped
<1>4. {i \in DOMAIN turn : turn[i].kind = "reasoning"} = {} /\ {i \in DOMAIN turn : turn[i].kind = "thought"} = {}
  BY <1>1, <1>3, NoneCounted DEF Count
<1>5. \A k \in DOMAIN turn : turn[k].kind \in {"text", "call"}
  BY <1>3, <1>4
<1> QED
  BY <1>1, <1>3, <1>5 DEF ChatTurn

\* The first place apart.
LEMMA PlacesBehind ==
    ASSUME NEW n \in Nat, n # 0, NEW K, \A k \in 1..n : k \in K <=> k # 1
    PROVE  Kept(1..n, K, Places(n)) = [i \in 1..(n - 1) |-> i + 1]
<1> DEFINE A == 1..n
           R == [i \in 1..(n - 1) |-> i + 1]
<1>1. R \in [1..(n - 1) -> A \intersect K] /\ n - 1 \in Nat
  OBVIOUS
<1>2. R \in Seq(A \intersect K) /\ Len(R) = n - 1 /\ DOMAIN R = 1..(n - 1) /\ \A i \in 1..(n - 1) : R[i] = i + 1
  <2> HIDE DEF R, A
  <2>1. R \in Seq(A \intersect K) /\ Len(R) = n - 1
    BY <1>1, IsSequence
  <2> QED
    BY <1>1, <2>1 DEF R
<1>3. Places(n) = <<1>> \o R
  <2>1. Places(n) \in Seq(1..n) /\ Len(Places(n)) = n /\ \A k \in 1..n : Places(n)[k] = k
    BY PlacesTyped
  <2>2. R \in Seq(Nat)
    BY <1>2
  <2> HIDE DEF R
  <2>3. <<1>> \in Seq(Nat) /\ Len(<<1>>) = 1 /\ <<1>>[1] = 1
    OBVIOUS
  <2>4. Len(<<1>> \o R) = n /\ \A k \in 1..n : (<<1>> \o R)[k] = k
    BY <1>2, <2>2, <2>3
  <2>5. <<1>> \o R \in Seq(Nat) /\ Places(n) \in Seq(Nat)
    BY <2>1, <2>2
  <2> DEFINE one == Places(n)
             two == <<1>> \o R
  <2> HIDE DEF one, two
  <2> QED
    BY <2>1, <2>4, <2>5 DEF one, two
<1>4. <<1>> \in Seq(A \ K) /\ <<1>> \in Seq(A)
  BY SMT
<1> HIDE DEF R, A
<1>5. Kept(A, K, <<1>> \o R) = Kept(A, K, <<1>>) \o Kept(A, K, R)
  <2>1. R \in Seq(A)
    BY <1>2
  <2> QED
    BY <1>4, <2>1, KeptConcat
<1>6. Kept(A, K, <<1>>) = <<>> /\ Kept(A, K, R) = R
  BY <1>2, <1>4, KeptNone, KeptAll
<1>7. <<>> \o R = R
  BY <1>2
<1> QED
  BY <1>3, <1>5, <1>6, <1>7 DEF A, R

\* One element in front of a sequence.
LEMMA InFront ==
    ASSUME NEW S, NEW x \in S, NEW s \in Seq(S)
    PROVE  /\ <<x>> \o s \in Seq(S) /\ Len(<<x>> \o s) = Len(s) + 1
           /\ (<<x>> \o s)[1] = x /\ \A i \in 1..Len(s) : (<<x>> \o s)[i + 1] = s[i]
<1>1. <<x>> \in Seq(S) /\ Len(<<x>>) = 1 /\ <<x>>[1] = x /\ Len(s) \in Nat
  OBVIOUS
<1> DEFINE one == <<x>>
<1> HIDE DEF one
<1>2. one \o s \in Seq(S) /\ Len(one \o s) = Len(s) + 1 /\ (one \o s)[1] = one[1]
      /\ \A i \in 1..Len(s) : (one \o s)[i + 1] = s[i]
  BY <1>1 DEF one
<1> QED
  BY <1>1, <1>2 DEF one

\* An answer of a chat model, once it is output items, is the turn.
LEMMA ChatOutputIs ==
    ASSUME ToolsTyped, requests \in Nat, route.via = "chat", NEW turn, TurnTyped(turn), ChatTurn(turn), NEW finish,
           ChatToResponses(ChatAnswer(turn, finish), Registered.tools).ok
    PROVE  ChatToResponses(ChatAnswer(turn, finish), Registered.tools).output = Output(turn)
<1> DEFINE chat == ChatAnswer(turn, finish)
           reg == Registered.tools
           texts == IF chat.texts = <<>> THEN <<>> ELSE <<Message("assistant", chat.texts)>>
           items == Each(LAMBDA c : CallItem(c.id, reg[c.name]), chat.calls)
           r == ChatToResponses(chat, reg)
           n == Len(turn)
           A == 1..n
           K == {k \in A : turn[k].kind = "call"}
           all == [k \in DOMAIN turn |-> k]
           calls == Those(all, LAMBDA k : turn[k].kind = "call")
           output == Output(turn)
<1>0. n \in Nat /\ n # 0 /\ DOMAIN turn = A /\ turn \in Seq(Kinds)
  BY DEF TurnTyped, ChatTurn
<1>1. r.output = texts \o items
  BY DEF ChatToResponses
<1>2. output \in Seq(Outs) /\ Len(output) = n /\ DOMAIN output = A /\ \A k \in A : output[k] = ItemAt(turn, k)
  BY <1>0, OutputTyped DEF Output
<1>3. calls = Kept(A, K, Places(n))
  <2>1. all = Places(n) /\ DOMAIN all = A /\ \A k \in A : all[k] = k
    BY <1>0, PlacesTyped DEF Places
  <2> HIDE DEF all
  <2>2. [i \in DOMAIN all |-> IF turn[all[i]].kind = "call" THEN <<all[i]>> ELSE <<>>] = Mapped(Picks(A, K), all)
    BY <2>1 DEF Mapped, Picks
  <2>3. calls = Kept(A, K, all)
    BY <2>2 DEF Those, Kept, Joint
  <2> HIDE DEF n, K, A
  <2> QED
    BY <2>1, <2>3
<1>4. calls \in Seq(A \intersect K)
  <2> DEFINE s == Places(n)
  <2>1. s \in Seq(A)
    BY <1>0, PlacesTyped
  <2> HIDE DEF s, A, K, calls
  <2> QED
    BY <1>3, <2>1, KeptTyped DEF s
<1>5. /\ chat.calls = [i \in DOMAIN calls |-> [id |-> Id(calls[i]), name |-> turn[calls[i]].upstream]]
      /\ chat.texts = IF turn[1].kind = "text" THEN <<Id(1)>> ELSE <<>>
  BY DEF ChatAnswer, Each
<1> HIDE DEF all, calls
<1>6. items = [i \in DOMAIN calls |-> output[calls[i]]]
  <2>1. \A i \in DOMAIN calls : calls[i] \in A /\ turn[calls[i]].kind = "call"
    BY <1>4
  <2>2. items = [i \in DOMAIN calls |-> CallItem(Id(calls[i]), reg[turn[calls[i]].upstream])]
    BY <1>5 DEF Each
  <2>3. \A i \in DOMAIN calls : output[calls[i]] = CallItem(Id(calls[i]), reg[turn[calls[i]].upstream])
    <3>1. \A k \in A : turn[k].kind = "call" => ItemAt(turn, k) = CallItem(Id(k), reg[turn[k].upstream])
      BY DEF ItemAt
    <3> HIDE DEF A, K, output, reg
    <3> QED
      BY <1>2, <2>1, <3>1
  <2> HIDE DEF items, output, reg
  <2> QED
    BY <2>2, <2>3
<1> HIDE DEF chat, items, r
<1>7. CASE turn[1].kind = "text"
  <2>1. texts = <<output[1]>>
    <3>1. chat.texts = <<Id(1)>> /\ <<Id(1)>> # <<>>
      BY <1>5, <1>7
    <3>2. 1 \in A /\ ItemAt(turn, 1) = Message("assistant", <<Id(1)>>)
      BY <1>0, <1>7 DEF ItemAt
    <3> QED
      BY <1>2, <3>1, <3>2
  <2>2. \A k \in 1..n : k \in K <=> k # 1
    BY <1>0, <1>7 DEF ChatTurn
  <2>3. calls = [i \in 1..(n - 1) |-> i + 1]
    <3> HIDE DEF n, K
    <3> QED
      BY <1>0, <1>3, <2>2, PlacesBehind
  <2>4. items = [i \in 1..(n - 1) |-> output[i + 1]]
    BY <1>6, <2>3
  <2> HIDE DEF output, K
  <2>5. items \in [1..(n - 1) -> Outs] /\ n - 1 \in Nat /\ output[1] \in Outs
    BY <1>0, <1>2, <2>4
  <2>6. items \in Seq(Outs) /\ Len(items) = n - 1
    BY <2>5, IsSequence
  <2> DEFINE x == output[1]
             whole == <<x>> \o items
  <2>7. x \in Outs
    BY <2>5
  <2>8. Len(whole) = n /\ whole[1] = x /\ \A i \in 1..(n - 1) : whole[i + 1] = items[i]
    <3> HIDE DEF x, n
    <3> QED
      BY <1>0, <2>6, <2>7, InFront
  <2>9. whole \in Seq(Outs)
    <3> HIDE DEF x
    <3> QED
      BY <2>6, <2>7, InFront
  <2>10. \A k \in 1..n : whole[k] = output[k]
    <3> HIDE DEF whole
    <3>1. \A i \in 1..(n - 1) : whole[i + 1] = output[i + 1]
      BY <2>4, <2>8
    <3>2. \A k \in 1..n : k = 1 \/ (k - 1 \in 1..(n - 1) /\ (k - 1) + 1 = k)
      BY <1>0
    <3> QED
      BY <2>8, <3>1, <3>2
  <2>11. whole = output
    <3> HIDE DEF whole
    <3> QED
      BY <1>0, <1>2, <2>8, <2>9, <2>10
  <2> QED
    BY <1>1, <2>1, <2>11 DEF r, chat, output
<1>8. CASE turn[1].kind # "text"
  <2>1. texts = <<>>
    BY <1>5, <1>8
  <2>2. A \intersect K = A
    BY <1>0, <1>8 DEF ChatTurn
  <2>3. calls = Places(n)
    <3> DEFINE s == Places(n)
    <3>1. s \in Seq(A \intersect K)
      BY <1>0, <2>2, PlacesTyped
    <3> HIDE DEF s, A, K
    <3>2. Kept(A, K, s) = s
      BY <3>1, KeptAll
    <3> QED
      BY <1>3, <3>2 DEF s
  <2>4. DOMAIN calls = A /\ \A i \in A : calls[i] = i
    BY <1>0, <2>3, PlacesTyped
  <2>5. items = [i \in A |-> output[i]]
    BY <1>6, <2>4
  <2> HIDE DEF output, A, K
  <2>6. items = output
    BY <1>2, <2>5
  <2>7. <<>> \o items = items
    BY <1>2, <2>6
  <2> QED
    BY <1>1, <2>1, <2>6, <2>7 DEF r, chat, output
<1> QED
  BY <1>7, <1>8
-----------------------------------------------------------------------------
(* Texts in front of calls, and calls with rising ids.                      *)

\* Texts in front of calls: nothing is lost by sorting.
LEMMA SortedAgain ==
    ASSUME NEW parts \in Seq(Spoke), NEW texts, texts = TextsOf(parts), NEW calls, calls = CallsOf(parts)
    PROVE  /\ texts \in Seq(Texts) /\ calls \in Seq(Calls) /\ texts \o calls \in Seq(Spoke)
           /\ TextsOf(texts \o calls) = texts
           /\ CallsOf(texts \o calls) = calls
<1>1. texts \in Seq(Texts) /\ calls \in Seq(Calls)
  BY SpokenHeard, PartsSorted
<1>2. texts \in Seq(Spoke) /\ calls \in Seq(Spoke) /\ texts \o calls \in Seq(Spoke)
  <2>1. texts \in Seq(Spoke) /\ calls \in Seq(Spoke)
    BY <1>1 DEF Spoke
  <2> QED
    BY <2>1
<1>3. texts \in Seq(Parts) /\ calls \in Seq(Parts) /\ texts \o calls \in Seq(Parts)
  BY <1>2, SpokenHeard
<1>4. /\ texts \in Seq(Parts \intersect Texts) /\ texts \in Seq(Parts \ Calls)
      /\ calls \in Seq(Parts \intersect Calls) /\ calls \in Seq(Parts \ Texts)
  <2>1. Texts \subseteq Parts \intersect Texts /\ Texts \subseteq Parts \ Calls
        /\ Calls \subseteq Parts \intersect Calls /\ Calls \subseteq Parts \ Texts
    BY DEF Parts, Texts, Calls
  <2> HIDE DEF Spoke
  <2> QED
    BY <1>1, <2>1, Widened
<1>5. /\ Kept(Parts, Texts, texts) = texts /\ Kept(Parts, Texts, calls) = <<>>
      /\ Kept(Parts, Calls, texts) = <<>> /\ Kept(Parts, Calls, calls) = calls
  BY <1>4, KeptAll, KeptNone
<1>6. /\ Kept(Parts, Texts, texts \o calls) = Kept(Parts, Texts, texts) \o Kept(Parts, Texts, calls)
      /\ Kept(Parts, Calls, texts \o calls) = Kept(Parts, Calls, texts) \o Kept(Parts, Calls, calls)
  <2> DEFINE A == Parts
             T == Texts
             C == Calls
  <2>1. texts \in Seq(A) /\ calls \in Seq(A)
    BY <1>3
  <2> HIDE DEF A, T, C
  <2>2. Kept(A, T, texts \o calls) = Kept(A, T, texts) \o Kept(A, T, calls)
    BY <2>1, KeptConcat
  <2>3. Kept(A, C, texts \o calls) = Kept(A, C, texts) \o Kept(A, C, calls)
    BY <2>1, KeptConcat
  <2> QED
    BY <2>2, <2>3 DEF A, T, C
<1>7. texts \o <<>> = texts /\ <<>> \o calls = calls
  BY <1>1
<1> QED
  BY <1>1, <1>2, <1>3, <1>5, <1>6, <1>7, PartsSorted

\* Every part is a text or a call.
LEMMA SortedLength ==
    ASSUME NEW parts \in Seq(Spoke)
    PROVE  Len(TextsOf(parts)) + Len(CallsOf(parts)) = Len(parts)
<1> DEFINE T == {s \in Seq(Spoke) : Len(TextsOf(s)) + Len(CallsOf(s)) = Len(s)}
<1>1. <<>> \in T
  BY SaidNothing
<1>2. ASSUME NEW s \in Seq(Spoke), NEW p \in Spoke, s \in T PROVE Append(s, p) \in T
  <2> DEFINE texts == TextsOf(s)
             calls == CallsOf(s)
  <2>1. texts \in Seq(Texts) /\ calls \in Seq(Calls) /\ Len(texts) + Len(calls) = Len(s)
    BY <1>2, SpokenHeard, PartsSorted
  <2>2. Len(texts) \in Nat /\ Len(calls) \in Nat /\ Len(s) \in Nat /\ Len(Append(s, p)) = Len(s) + 1 /\ Append(s, p) \in Seq(Spoke)
    BY <2>1
  <2> DEFINE more == Append(s, p)
  <2>3. CASE p \in Texts
    <3>1. TextsOf(more) = Append(texts, p) /\ CallsOf(more) = calls
      BY <2>3, SortedAppend
    <3>2. Len(Append(texts, p)) = Len(texts) + 1
      BY <2>1, <2>3
    <3> HIDE DEF texts, calls, more
    <3> QED
      BY <2>1, <2>2, <3>1, <3>2 DEF more
  <2>4. CASE p \in Calls
    <3>1. TextsOf(more) = texts /\ CallsOf(more) = Append(calls, p)
      BY <2>4, SortedAppend
    <3>2. Len(Append(calls, p)) = Len(calls) + 1
      BY <2>1, <2>4
    <3> HIDE DEF texts, calls, more
    <3> QED
      BY <2>1, <2>2, <3>1, <3>2 DEF more
  <2> QED
    BY <2>3, <2>4 DEF Spoke
<1> HIDE DEF T
<1>3. parts \in T
  BY <1>1, <1>2, SequencesGrow
<1> QED
  BY <1>3 DEF T

\* The ids of calls rise, above those of earlier turns.
Rising(parts, b) ==
    \A i \in DOMAIN parts : parts[i].kind = "call" =>
        /\ parts[i].id \in (Id(0) + 1)..b
        /\ \A j \in DOMAIN parts : i < j /\ parts[j].kind = "call" => parts[i].id < parts[j].id

\* The ids of a turn count on from the first.
LEMMA IdCounts ==
    ASSUME requests \in Nat
    PROVE  Id(0) \in Nat /\ \A k \in Nat : Id(k) = Id(0) + k /\ Id(k) \in Nat /\ Id(k + 1) = Id(k) + 1
<1>1. MaxParts * requests \in Nat
  BY ConversationAssumption, SMT
<1> DEFINE m == MaxParts * requests
<1> HIDE DEF m
<1>2. Id(0) = m + 0 /\ \A k \in Nat : Id(k) = m + k /\ Id(k + 1) = m + (k + 1)
  BY DEF Id, m
<1> QED
  BY <1>1, <1>2 DEF m

\* A further text, or a call with the next id, keeps the ids rising.
LEMMA RisingAppend ==
    ASSUME requests \in Nat, NEW parts \in Seq(Spoke), NEW b \in Nat, Id(0) <= b, Rising(parts, b), NEW p \in Spoke
    PROVE  /\ Rising(parts, b + 1)
           /\ p \in Texts => Rising(Append(parts, p), b + 1)
           /\ p \in Calls /\ p.id = b + 1 => Rising(Append(parts, p), b + 1)
<1> DEFINE n == Len(parts)
           more == Append(parts, p)
           m == Id(0)
<1>0. m \in Nat /\ n \in Nat /\ DOMAIN parts = 1..n
  BY IdCounts
<1>1. DOMAIN more = 1..(n + 1) /\ more[n + 1] = p /\ \A i \in 1..n : more[i] = parts[i]
  OBVIOUS
<1> HIDE DEF m, n, more
<1>2. \A i \in 1..n : parts[i].kind = "call" =>
         /\ parts[i].id \in (m + 1)..b
         /\ \A j \in 1..n : i < j /\ parts[j].kind = "call" => parts[i].id < parts[j].id
  BY <1>0 DEF Rising, m
<1>3. \A i \in 1..n : parts[i].kind = "call" => parts[i].id \in Int /\ m + 1 <= parts[i].id /\ parts[i].id <= b
  BY <1>0, <1>2
<1>4. Rising(parts, b + 1)
  <2>1. \A i \in 1..n : parts[i].kind = "call" => parts[i].id \in (m + 1)..(b + 1)
    BY <1>0, <1>3
  <2> QED
    BY <1>0, <1>2, <2>1 DEF Rising, m
<1>5. \A i \in 1..(n + 1) : i \in 1..n \/ i = n + 1
  BY <1>0
<1>6. ASSUME p \in Texts PROVE Rising(more, b + 1)
  <2>1. p.kind = "text"
    BY <1>6 DEF Texts
  <2>2. ASSUME NEW i \in DOMAIN more, more[i].kind = "call"
        PROVE  /\ more[i].id \in (m + 1)..(b + 1)
               /\ \A j \in DOMAIN more : i < j /\ more[j].kind = "call" => more[i].id < more[j].id
    <3>1. i \in 1..n /\ more[i] = parts[i]
      BY <1>1, <1>5, <2>1, <2>2
    <3>2. ASSUME NEW j \in DOMAIN more, more[j].kind = "call" PROVE j \in 1..n /\ more[j] = parts[j]
      BY <1>1, <1>5, <2>1, <3>2
    <3>3. more[i].id \in (m + 1)..(b + 1)
      BY <1>0, <1>3, <2>2, <3>1
    <3> QED
      BY <1>2, <2>2, <3>1, <3>2, <3>3
  <2> QED
    BY <2>2 DEF Rising, m
<1>7. ASSUME p \in Calls, p.id = b + 1 PROVE Rising(more, b + 1)
  <2>2. ASSUME NEW i \in DOMAIN more, more[i].kind = "call"
        PROVE  /\ more[i].id \in (m + 1)..(b + 1)
               /\ \A j \in DOMAIN more : i < j /\ more[j].kind = "call" => more[i].id < more[j].id
    <3>1. CASE i \in 1..n
      <4>1. more[i] = parts[i] /\ parts[i].id \in Int /\ m + 1 <= parts[i].id /\ parts[i].id <= b
        BY <1>1, <1>3, <2>2, <3>1
      <4>2. more[i].id \in (m + 1)..(b + 1)
        BY <1>0, <4>1
      <4>3. ASSUME NEW j \in DOMAIN more, i < j, more[j].kind = "call" PROVE more[i].id < more[j].id
        <5>1. CASE j \in 1..n
          BY <1>1, <1>2, <2>2, <3>1, <4>1, <4>3, <5>1
        <5>2. CASE j = n + 1
          BY <1>1, <1>7, <4>1, <5>2
        <5> QED
          BY <1>1, <1>5, <5>1, <5>2
      <4> QED
        BY <4>2, <4>3
    <3>2. CASE i = n + 1
      <4>1. more[i].id \in (m + 1)..(b + 1)
        BY <1>0, <1>1, <1>7, <3>2 DEF m
      <4>2. \A j \in DOMAIN more : ~(i < j)
        BY <1>0, <1>1, <3>2
      <4> QED
        BY <4>1, <4>2
    <3> QED
      BY <1>1, <1>5, <3>1, <3>2
  <2> QED
    BY <2>2 DEF Rising, m
<1> QED
  BY <1>4, <1>6, <1>7 DEF more
-----------------------------------------------------------------------------
(* A list of tools without a clash, and the turns of a model that has it.   *)

\* What register_tool has once it has kept a tool: no later one takes its name.
LEMMA ToolKept ==
    ASSUME NEW D, ToolsKnown(D), NEW reg \in Registries(D), NEW d \in D, RegisterTool(reg, d).ok
    PROVE  /\ reg.ok
           /\ RegisterTool(reg, d).tools[d.upstream] = d.tool
           /\ \A u \in DOMAIN reg.tools : u \in DOMAIN RegisterTool(reg, d).tools /\ RegisterTool(reg, d).tools[u] = reg.tools[u]
<1> DEFINE r == RegisterTool(reg, d)
<1>1. PICK us \in SUBSET Upstreams(D) : reg.tools \in [us -> AnyTools]
  BY DEF Registries
<1>2. reg = [ok |-> reg.ok, tools |-> reg.tools] /\ DOMAIN reg.tools = us
  BY <1>1 DEF Registries
<1>3. d.upstream \notin DOMAIN reg.tools
  <2>1. SUFFICES ASSUME d.upstream \in DOMAIN reg.tools PROVE FALSE
    OBVIOUS
  <2>2. r = [reg EXCEPT !.ok = FALSE]
    BY <2>1 DEF RegisterTool
  <2>3. [reg EXCEPT !.ok = FALSE].ok = FALSE
    BY DEF Registries
  <2> QED
    BY <2>2, <2>3
<1> DEFINE f == With(reg.tools, d.upstream, d.tool)
<1>4. r = [reg EXCEPT !.tools = f]
  BY <1>3 DEF RegisterTool
<1>5. /\ DOMAIN f = us \union {d.upstream} /\ f[d.upstream] = d.tool
      /\ \A u \in us : f[u] = reg.tools[u]
  BY <1>2, <1>3 DEF With
<1> HIDE DEF f
<1>6. r = [ok |-> reg.ok, tools |-> f]
  BY <1>2, <1>4
<1> QED
  BY <1>2, <1>5, <1>6

\* A list of tools without a clash gives every tool its own name upstream.
LEMMA RegisteredApart ==
    ASSUME NEW ts \in Seq(Entries), TranslateTools(ts).ok
    PROVE  \A d \in ToSet(Declared(ts)) : TranslateTools(ts).tools[d.upstream] = d.tool
<1> DEFINE D == Declarations(ts)
           start == [ok |-> TRUE, tools |-> <<>>]
           F(s) == Folded(ToolStep(D), start, s)
           All(s) == F(s).ok => \A i \in DOMAIN s : s[i].upstream \in DOMAIN F(s).tools /\ F(s).tools[s[i].upstream] = s[i].tool
           T == {s \in Seq(D) : All(s)}
<1>0. ToolsKnown(D) /\ Declared(ts) \in Seq(D)
  BY DeclaredTyped DEF ToolsKnown
<1> HIDE DEF D
<1>1. start \in Registries(D)
  <2>1. \A b \in BOOLEAN, f \in UNION {[us -> AnyTools] : us \in SUBSET Upstreams(D)} :
           [ok |-> b, tools |-> f] \in Registries(D)
    BY DEF Registries
  <2>2. <<>> \in [{} -> AnyTools] /\ {} \in SUBSET Upstreams(D)
    OBVIOUS
  <2>3. <<>> \in UNION {[us -> AnyTools] : us \in SUBSET Upstreams(D)}
    BY <2>2
  <2> QED
    BY <2>1, <2>3
<1> HIDE DEF start
<1>2. <<>> \in T
  OBVIOUS
<1>3. ASSUME NEW s \in Seq(D), NEW d \in D, s \in T PROVE Append(s, d) \in T
  <2> DEFINE more == Append(s, d)
  <2>0. Steps(ToolStep(D), Registries(D), D)
    BY <1>0, ToolsSteps
  <2>1. F(s) \in Registries(D) /\ F(more) = ToolStep(D)[<<F(s), d>>]
    BY <1>1, <2>0, FoldedTyped, FoldedAppend
  <2> HIDE DEF F
  <2>2. F(more) = RegisterTool(F(s), d)
    BY <2>1 DEF ToolStep
  <2>3. d.upstream \in DOMAIN F(more).tools
    BY <1>0, <2>1, <2>2, ToolRegistered
  <2>4. F(more).ok => /\ F(s).ok /\ F(more).tools[d.upstream] = d.tool
                      /\ \A u \in DOMAIN F(s).tools : u \in DOMAIN F(more).tools /\ F(more).tools[u] = F(s).tools[u]
    BY <1>0, <2>1, <2>2, ToolKept
  <2>5. \A i \in DOMAIN more : more[i] = d \/ (i \in DOMAIN s /\ more[i] = s[i])
    OBVIOUS
  <2>6. more \in Seq(D)
    OBVIOUS
  <2> HIDE DEF more
  <2>7. All(more)
    <3> SUFFICES ASSUME F(more).ok, NEW i \in DOMAIN more
                 PROVE  more[i].upstream \in DOMAIN F(more).tools /\ F(more).tools[more[i].upstream] = more[i].tool
      OBVIOUS
    <3>1. CASE more[i] = d
      BY <2>3, <2>4, <3>1
    <3>2. CASE i \in DOMAIN s /\ more[i] = s[i]
      <4>1. s[i].upstream \in DOMAIN F(s).tools /\ F(s).tools[s[i].upstream] = s[i].tool
        BY <1>3, <2>4, <3>2
      <4> QED
        BY <2>4, <3>2, <4>1
    <3> QED
      BY <2>5, <3>1, <3>2
  <2> QED
    BY <2>6, <2>7 DEF more
<1> HIDE DEF T
<1>4. Declared(ts) \in T
  BY <1>0, <1>2, <1>3, SequencesGrow
<1> DEFINE reg == F(Declared(ts))
<1>5. reg \in Registries(D) /\ FoldLeft(RegisterTool, start, Declared(ts)) = reg
  BY <1>0, <1>1, ToolsSteps, FoldedTyped, ToolsFolded
<1>6. TranslateTools(ts).tools = reg.tools /\ (TranslateTools(ts).ok => reg.ok)
  <2>1. TranslateTools(ts) = [reg EXCEPT !.ok = @ /\ ~NamesClash(ts)]
    BY <1>5 DEF TranslateTools, start
  <2>2. reg.ok \in BOOLEAN
    BY <1>5 DEF Registries
  <2> DEFINE b == reg.ok /\ ~NamesClash(ts)
  <2>3. b => reg.ok
    OBVIOUS
  <2> HIDE DEF reg, b
  <2>4. [reg EXCEPT !.ok = b].tools = reg.tools /\ [reg EXCEPT !.ok = b].ok = b
    BY <1>5 DEF Registries
  <2>5. TranslateTools(ts) = [reg EXCEPT !.ok = b]
    BY <2>1 DEF b
  <2> QED
    BY <2>3, <2>4, <2>5
<1>7. \A d \in ToSet(Declared(ts)) : reg.tools[d.upstream] = d.tool
  BY <1>4, <1>6 DEF T, ToSet
<1> HIDE DEF reg
<1> QED
  BY <1>6, <1>7

\* A list of plain functions declares functions only.
LEMMA DeclaredFunctions ==
    ASSUME NEW ts \in Seq(Entries), \A i \in DOMAIN ts : ts[i].type = "tool" /\ ts[i].tool.kind = "function"
    PROVE  \A d \in ToSet(Declared(ts)) : d.tool.kind = "function"
<1>1. ASSUME NEW i \in DOMAIN ts, NEW j \in DOMAIN DeclaredBy(ts, i) PROVE DeclaredBy(ts, i)[j].tool.kind = "function"
  <2>1. ts[i].type = "tool" /\ ts[i].tool.kind = "function"
    OBVIOUS
  <2>2. ts[i].type # "namespace"
    BY <2>1
  <2>3. DeclaredBy(ts, i) = <<[upstream |-> ts[i].tool.name, tool |-> ts[i].tool]>>
    BY <2>1, <2>2 DEF DeclaredBy
  <2>4. j = 1
    BY <2>3
  <2> QED
    BY <2>1, <2>3, <2>4
<1>2. \A d \in Declarations(ts) : d.tool.kind = "function"
  BY <1>1 DEF Declarations
<1>3. Declared(ts) \in Seq(Declarations(ts))
  BY DeclaredTyped
<1> HIDE DEF Declarations
<1> QED
  BY <1>2, <1>3 DEF ToSet

-----------------------------------------------------------------------------
\* What is known when an answer comes.
AnswerDue ==
    /\ RouteTyped /\ ToolsTyped /\ requests \in Nat /\ requests # 0
    /\ route \in Routes /\ tools \in ToolLists[route.api]
    /\ route.via = "chat" => Registered.ok

InNumber(output) == \A k \in DOMAIN output : output[k].type = "call" => output[k].id = Id(k)

\* A call of a turn is one of a declared tool.
LEMMA KindCalls ==
    ASSUME NEW x \in Kinds, x.kind = "call"
    PROVE  \E d \in ToSet(Declared(tools)) : x.upstream = d.upstream /\ x.tool = d.tool
<1>1. CASE x \in {[kind |-> k, upstream |-> <<>>, tool |-> NoTool] : k \in {"text", "reasoning", "thought"}}
  BY <1>1
<1>2. CASE x \in {[kind |-> "call", upstream |-> d.upstream, tool |-> d.tool] : d \in ToSet(Declared(tools))}
  <2>1. PICK d \in ToSet(Declared(tools)) : x = [kind |-> "call", upstream |-> d.upstream, tool |-> d.tool]
    BY <1>2
  <2> QED
    BY <2>1
<1> QED
  BY <1>1, <1>2 DEF Kinds

\* What the client hears of the items is items again, with the calls in their places.
LEMMA UtteranceTyped ==
    ASSUME NEW output \in Seq(Outs)
    PROVE  /\ Utterance(output) \in Seq(Outs) /\ Len(Utterance(output)) = Len(output)
           /\ InNumber(output) => InNumber(Utterance(output))
           /\ output \in Seq(Functions) => Utterance(output) \in Seq(Functions)
           /\ route.api # "chat" \/ route.stream => Utterance(output) = output
<1> DEFINE n == Len(output)
           w == Utterance(output)
<1>0. n \in Nat /\ DOMAIN output = 1..n /\ \A k \in 1..n : output[k] \in Outs
  OBVIOUS
<1>1. DOMAIN w = 1..n /\ \A k \in 1..n : w[k] = Uttered(output[k])
  BY <1>0 DEF Utterance
<1>2. \A k \in 1..n : /\ w[k] \in Outs
                      /\ w[k].type \in {"message", "reasoning"} \/ w[k] = output[k]
  BY <1>0, <1>1, UtteredTyped
<1>3. w = [k \in 1..n |-> w[k]]
  BY <1>0, <1>1 DEF Utterance
<1> HIDE DEF n, w
<1>4. w \in Seq(Outs) /\ Len(w) = n
  <2>1. w \in [1..n -> Outs]
    BY <1>2, <1>3
  <2> QED
    BY <1>0, <2>1, IsSequence
<1>5. ASSUME InNumber(output) PROVE InNumber(w)
  BY <1>0, <1>1, <1>2, <1>5 DEF InNumber
<1>6. ASSUME output \in Seq(Functions) PROVE w \in Seq(Functions)
  <2>1. \A k \in 1..n : output[k] \in Functions
    BY <1>0, <1>6
  <2>2. \A k \in 1..n : w[k] \in Functions
    BY <1>2, <2>1 DEF Functions
  <2>3. w \in [1..n -> Functions]
    BY <1>3, <2>2
  <2> QED
    BY <1>0, <2>3, IsSequence
<1>7. ASSUME route.api # "chat" \/ route.stream PROVE w = output
  <2>1. \A x : Uttered(x) = x
    BY <1>7 DEF RouteTyped, Uttered
  <2>2. \A k \in 1..n : w[k] = output[k]
    BY <1>1, <2>1
  <2> QED
    BY <1>0, <1>4, <2>2, <1>1
<1> QED
  BY <1>4, <1>5, <1>6, <1>7 DEF w, n

\* A turn, as its items and as what they say.
LEMMA TurnSays ==
    ASSUME AnswerDue, NEW turn \in Turns
    PROVE  /\ TurnTyped(turn) /\ Len(turn) <= MaxParts
           /\ Output(turn) \in Seq(Outs) /\ Len(Output(turn)) = Len(turn)
           /\ InNumber(Output(turn))
           /\ route.api # "responses" => Output(turn) \in Seq(Functions)
           /\ Spoken(turn) = Said(Utterance(Output(turn)))
<1>0. ToolsTyped /\ requests \in Nat /\ requests # 0 /\ tools \in Seq(Entries) /\ MaxParts \in Nat
  BY ConversationAssumption DEF AnswerDue, ToolsTyped
<1>1. TurnTyped(turn)
  BY <1>0, TurnsTyped
<1>2. Len(turn) <= MaxParts
  <2>1. turn \in BoundedSeq(Kinds, MaxParts + 2 - 2 * requests)
    BY DEF Turns
  <2>2. PICK m \in 0..(MaxParts + 2 - 2 * requests) : turn \in [1..m -> Kinds]
    BY <2>1 DEF BoundedSeq, SeqOf
  <2>3. m \in Nat /\ m <= MaxParts
    BY <1>0, <2>2
  <2>4. Len(turn) = m
    BY <2>2, <2>3, IsSequence
  <2> QED
    BY <2>3, <2>4
<1>3. Kindly(turn)
  <2> SUFFICES ASSUME route.via = "chat", NEW k \in DOMAIN turn, turn[k].kind = "call"
               PROVE  Registered.tools[turn[k].upstream] = turn[k].tool
    BY DEF Kindly
  <2>1. turn[k] \in Kinds
    BY <1>1 DEF TurnTyped
  <2>2. PICK d \in ToSet(Declared(tools)) : turn[k].upstream = d.upstream /\ turn[k].tool = d.tool
    BY <2>1, KindCalls
  <2>3. TranslateTools(tools).tools[d.upstream] = d.tool
    BY <1>0, RegisteredApart DEF AnswerDue, Registered
  <2> QED
    BY <2>2, <2>3 DEF Registered
<1>4. Output(turn) \in Seq(Outs) /\ Len(Output(turn)) = Len(turn) /\ DOMAIN Output(turn) = DOMAIN turn
      /\ \A k \in DOMAIN turn : Output(turn)[k] = ItemAt(turn, k)
  BY <1>0, <1>1, OutputTyped DEF Output
<1>5. \A k \in DOMAIN turn :
          /\ turn[k].kind \in {"text", "reasoning", "thought", "call"}
          /\ turn[k].kind = "text" => ItemAt(turn, k) = Message("assistant", <<Id(k)>>)
          /\ turn[k].kind \in {"reasoning", "thought"} => ItemAt(turn, k).type = "reasoning"
          /\ turn[k].kind = "call" => ItemAt(turn, k) = CallItem(Id(k), turn[k].tool)
  BY <1>0, <1>1, <1>3, ItemAtSays
<1>6. \A k \in DOMAIN turn : ItemAt(turn, k).type = "call" => turn[k].kind = "call" /\ ItemAt(turn, k) = CallItem(Id(k), turn[k].tool)
  BY <1>5 DEF Message
<1>7. InNumber(Output(turn))
  BY <1>4, <1>6 DEF InNumber, CallItem
<1>8. ASSUME route.api # "responses" PROVE Output(turn) \in Seq(Functions)
  <2>1. \A i \in DOMAIN tools : tools[i].type = "tool" /\ tools[i].tool.kind = "function"
    BY <1>8, ConversationAssumption DEF AnswerDue
  <2>2. \A d \in ToSet(Declared(tools)) : d.tool.kind = "function"
    BY <1>0, <2>1, DeclaredFunctions
  <2>3. ASSUME NEW k \in DOMAIN turn PROVE Output(turn)[k] \in Functions
    <3>1. Output(turn)[k] = ItemAt(turn, k) /\ Output(turn)[k] \in Outs
      BY <1>4
    <3>2. ASSUME ItemAt(turn, k).type = "call" PROVE ItemAt(turn, k).tool.kind = "function"
      <4>1. turn[k].kind = "call" /\ ItemAt(turn, k) = CallItem(Id(k), turn[k].tool) /\ turn[k] \in Kinds
        BY <1>1, <1>6, <3>2 DEF TurnTyped
      <4>2. turn[k].tool.kind = "function"
        BY <2>2, <4>1, KindCalls
      <4> QED
        BY <4>1, <4>2 DEF CallItem
    <3> QED
      BY <3>1, <3>2 DEF Functions
  <2> DEFINE output == Output(turn)
             n == Len(turn)
  <2>4. n \in Nat /\ DOMAIN output = 1..n /\ output \in Seq(Outs)
    BY <1>1, <1>4 DEF TurnTyped
  <2>5. output \in [1..n -> Functions]
    <3>1. \A k \in 1..n : output[k] \in Functions
      BY <1>4, <2>3, <2>4
    <3> HIDE DEF output, n
    <3> QED
      BY <2>4, <3>1
  <2> HIDE DEF output, n
  <2>6. output \in Seq(Functions)
    BY <2>4, <2>5, IsSequence
  <2> QED
    BY <2>6 DEF output
<1>9. Spoken(turn) = Said(Utterance(Output(turn)))
  BY <1>0, <1>1, <1>3, SpokenIsSaid
<1> QED
  BY <1>1, <1>2, <1>4, <1>7, <1>8, <1>9
-----------------------------------------------------------------------------
(* The ids of the calls of a turn rise.                                     *)

\* The first items of a turn, one after the other.
LEMMA ItemNext ==
    ASSUME requests \in Nat, NEW output \in Seq(Outs), InNumber(output), NEW n \in 1..Len(output)
    PROVE  /\ Firsts(output, n - 1) \in Seq(Outs) /\ output[n] \in Outs /\ n \in DOMAIN output
           /\ Firsts(output, n) = Append(Firsts(output, n - 1), output[n])
           /\ output[n].type = "call" => output[n].id = Id(n)
           /\ Id(n) = Id(n - 1) + 1 /\ Id(n - 1) \in Nat /\ Id(0) <= Id(n - 1)
<1>1. n \in Nat /\ n - 1 \in Nat /\ n \in DOMAIN output
  OBVIOUS
<1>2. Id(n) = Id(0) + n /\ Id(n - 1) = Id(0) + (n - 1) /\ Id(0) \in Nat
  BY <1>1, IdCounts
<1>3. Id(n) = Id(n - 1) + 1 /\ Id(n - 1) \in Nat /\ Id(0) <= Id(n - 1)
  BY <1>1, <1>2
<1> QED
  BY <1>1, <1>3, FirstsGrow DEF InNumber

\* The ids of the calls of a turn rise, also of its calls alone.
LEMMA SaidRises ==
    ASSUME requests \in Nat, NEW output \in Seq(Outs), InNumber(output)
    PROVE  Rising(Said(output), Id(Len(output))) /\ Rising(CallsOf(Said(output)), Id(Len(output)))
<1> DEFINE N == Len(output)
           so(n) == Said(Firsts(output, n))
           S == {n \in 0..N : Rising(so(n), Id(n)) /\ Rising(CallsOf(so(n)), Id(n))}
<1>0. N \in Nat /\ N \in 0..N
  OBVIOUS
<1>1. 0 \in S
  <2>1. so(0) = <<>> /\ CallsOf(so(0)) = <<>>
    BY FirstsEnds, SaidNothing
  <2>2. \A b : Rising(<<>>, b)
    BY DEF Rising
  <2> QED
    BY <1>0, <2>1, <2>2
<1>2. ASSUME NEW n \in 1..N, n - 1 \in S PROVE n \in S
  <2> DEFINE front == Firsts(output, n - 1)
             x == output[n]
             b == Id(n - 1)
             p == PartOf(x)
             one == Said(front)
             calls == CallsOf(one)
  <2>1. front \in Seq(Outs) /\ x \in Outs /\ Firsts(output, n) = Append(front, x) /\ (x.type = "call" => x.id = b + 1)
        /\ Id(n) = b + 1 /\ b \in Nat /\ Id(0) <= b
    BY ItemNext
  <2>2. one \in Seq(Spoke) /\ one \in Seq(Parts) /\ Rising(one, b) /\ Rising(calls, b)
    BY <1>2, <2>1, SaidTyped
  <2>3. calls \in Seq(Spoke)
    <3>1. calls \in Seq(Calls)
      BY <2>2, PartsSorted
    <3> HIDE DEF calls
    <3> QED
      BY <3>1 DEF Spoke
  <2>4. /\ x.type = "reasoning" => Said(Append(front, x)) = one
        /\ x.type # "reasoning" => Said(Append(front, x)) = Append(one, p)
    BY <2>1, SaidAppend
  <2>5. /\ x.type \in {"reasoning", "message"} => CallsOf(Said(Append(front, x))) = calls
        /\ x.type = "call" => CallsOf(Said(Append(front, x))) = Append(calls, p)
    BY <2>1, SaidSorted
  <2>6. x.type \in {"reasoning", "message", "call"}
    BY <2>1, OutTyped
  <2>7. /\ x.type = "message" => p \in Texts /\ p \in Spoke
        /\ x.type = "call" => p \in Calls /\ p \in Spoke /\ p.id = b + 1
    BY <2>1, OutPart DEF Call
  <2> HIDE DEF front, x, b, p, one, calls
  <2>8. Rising(one, b + 1) /\ Rising(calls, b + 1)
    <3>1. Text(0) \in Spoke
      BY TextTyped DEF Spoke
    <3> QED
      BY <2>1, <2>2, <2>3, <3>1, RisingAppend
  <2>9. x.type = "message" => Rising(Append(one, p), b + 1)
    BY <2>1, <2>2, <2>7, RisingAppend
  <2>10. x.type = "call" => Rising(Append(one, p), b + 1) /\ Rising(Append(calls, p), b + 1)
    BY <2>1, <2>2, <2>3, <2>7, RisingAppend
  <2>11. Rising(Said(Append(front, x)), b + 1) /\ Rising(CallsOf(Said(Append(front, x))), b + 1)
    BY <2>4, <2>5, <2>6, <2>8, <2>9, <2>10
  <2>12. Rising(so(n), Id(n)) /\ Rising(CallsOf(so(n)), Id(n))
    BY <2>1, <2>11 DEF front, x
  <2> HIDE DEF so
  <2>13. n \in 0..N
    BY <1>0
  <2> QED
    BY <2>12, <2>13
<1> HIDE DEF S
<1>3. N \in S
  <2> HIDE DEF N
  <2> QED
    BY <1>0, <1>1, <1>2, UpTo
<1> QED
  BY <1>3, FirstsEnds DEF S

\* Texts in front do not matter.
LEMMA RisingBehind ==
    ASSUME NEW texts \in Seq(Texts), NEW calls \in Seq(Calls), NEW b \in Nat, Rising(calls, b)
    PROVE  Rising(texts \o calls, b)
<1> DEFINE m == Len(texts)
           n == Len(calls)
           all == texts \o calls
<1>1. m \in Nat /\ n \in Nat /\ DOMAIN calls = 1..n /\ DOMAIN all = 1..(m + n)
      /\ (\A i \in 1..m : all[i] = texts[i] /\ all[i].kind = "text")
      /\ (\A i \in 1..(m + n) : i > m => all[i] = calls[i - m] /\ i - m \in 1..n)
  <2>1. \A i \in 1..m : all[i] = texts[i] /\ texts[i] \in Texts
    OBVIOUS
  <2>2. \A p \in Texts : p.kind = "text"
    BY DEF Texts
  <2> QED
    BY <2>1, <2>2
<1> HIDE DEF all, m, n
<1>2. SUFFICES ASSUME NEW i \in DOMAIN all, all[i].kind = "call"
               PROVE  /\ all[i].id \in (Id(0) + 1)..b
                      /\ \A j \in DOMAIN all : i < j /\ all[j].kind = "call" => all[i].id < all[j].id
  BY DEF Rising, all
<1>3. i > m /\ all[i] = calls[i - m] /\ i - m \in 1..n
  BY <1>1, <1>2
<1>4. all[i].id \in (Id(0) + 1)..b
  BY <1>1, <1>2, <1>3 DEF Rising
<1>5. ASSUME NEW j \in DOMAIN all, i < j, all[j].kind = "call" PROVE all[i].id < all[j].id
  <2>1. j > m /\ all[j] = calls[j - m] /\ j - m \in 1..n /\ i - m < j - m
    BY <1>1, <1>3, <1>5
  <2> QED
    BY <1>1, <1>2, <1>3, <1>5, <2>1 DEF Rising
<1> QED
  BY <1>4, <1>5

\* A later bound is one as well.
LEMMA RisingWider ==
    ASSUME requests \in Nat, NEW parts, NEW m \in Nat, NEW n \in Nat, m <= n, Rising(parts, Id(m))
    PROVE  Rising(parts, Id(n))
<1>1. Id(m) \in Nat /\ Id(n) \in Nat /\ Id(m) <= Id(n) /\ Id(0) \in Nat
  <2>1. Id(m) = Id(0) + m /\ Id(n) = Id(0) + n /\ Id(0) \in Nat
    BY IdCounts
  <2> QED
    BY <2>1
<1> DEFINE a == Id(0)
           b == Id(m)
           c == Id(n)
<1> HIDE DEF a, b, c
<1>2. \A x : x \in (a + 1)..b => x \in (a + 1)..c
  BY <1>1 DEF a, b, c
<1> QED
  BY <1>2 DEF Rising, a, b, c
-----------------------------------------------------------------------------
(* A whole answer delivers what was said.                                   *)

\* What a client takes from an item is what the item says.
LEMMA PartsAreSaid ==
    ASSUME NEW x \in Outs
    PROVE  /\ x \in Functions => PartsOfItem(x) = SaidOut[x]
           /\ x.type # "reasoning" => EveryPart(x) = SaidOut[x]
<1>0. SaidOut[x] = SaidOf(x)
  BY DEF SaidOut
<1>1. CASE x.type = "message"
  <2>1. PICK t \in Nat : x.texts = <<t>>
    BY <1>1, OutTyped
  <2>2. PartsOfItem(x) = <<Text(t)>> /\ EveryPart(x) = <<Text(t)>>
    BY <1>1, <2>1, TextAlone DEF PartsOfItem, EveryPart
  <2>3. SaidOf(x) = <<Text(t)>>
    <3>1. PartOf(x) = Text(t)
      BY <1>1, <2>1 DEF PartOf
    <3> QED
      BY <1>1, <3>1 DEF SaidOf
  <2> QED
    BY <1>0, <2>2, <2>3
<1>2. CASE x.type = "call"
  <2>1. x.type # "message" /\ x.type # "reasoning"
    BY <1>2
  <2>2. SaidOf(x) = <<Call(x.id, x.tool)>> /\ EveryPart(x) = <<Call(x.id, x.tool)>>
    BY <2>1 DEF SaidOf, PartOf, EveryPart
  <2>3. x \in Functions => PartsOfItem(x) = <<Call(x.id, x.tool)>>
    BY <1>2, <2>1 DEF PartsOfItem, IsFunctionCall, Functions
  <2> QED
    BY <1>0, <2>2, <2>3
<1>3. CASE x.type = "reasoning"
  <2>1. x.type # "message" /\ ~IsFunctionCall(x)
    BY <1>3 DEF IsFunctionCall
  <2> QED
    BY <1>0, <1>3, <2>1 DEF SaidOf, PartsOfItem
<1> QED
  BY <1>1, <1>2, <1>3, OutTyped

\* ResponsesToAnthropic gives a client what the items say.
LEMMA AnthropicSaid ==
    ASSUME NEW output \in Seq(Functions), NEW status
    PROVE  /\ ResponsesToAnthropic(output, status).parts = Said(output)
           /\ ResponsesToAnthropic(output, status).stop
                 = IF CallsOf(Said(output)) # <<>> THEN "calls" ELSE IF status = "incomplete" THEN "length" ELSE "end"
<1>1. \A i \in DOMAIN output : output[i] \in Functions /\ output[i] \in Outs
  BY DEF Functions
<1>2. [i \in DOMAIN output |-> PartsOfItem(output[i])] = Mapped(SaidOut, output)
  BY <1>1, PartsAreSaid DEF Mapped
<1>3. ResponsesToAnthropic(output, status).parts = FlattenSeq([i \in DOMAIN output |-> PartsOfItem(output[i])])
  BY DEF ResponsesToAnthropic, Each, PartsOfItem
<1>4. ResponsesToAnthropic(output, status).stop = StopReason(output, status)
  BY DEF ResponsesToAnthropic
<1>5. HasFunctionCall(output) <=> CallsOf(Said(output)) # <<>>
  BY CallsSaid
<1> QED
  BY <1>2, <1>3, <1>4, <1>5 DEF Joint, Said, StopReason

\* A Responses client has what the items say.
LEMMA ItemsAreSaid ==
    ASSUME NEW output \in Seq(Outs), \A k \in DOMAIN output : output[k].type # "reasoning"
    PROVE  ItemParts(output) = Said(output)
<1>1. \A i \in DOMAIN output : output[i] \in Outs
  OBVIOUS
<1>2. [i \in DOMAIN output |-> EveryPart(output[i])] = Mapped(SaidOut, output)
  BY <1>1, PartsAreSaid DEF Mapped
<1>3. ItemParts(output) = FlattenSeq([i \in DOMAIN output |-> EveryPart(output[i])])
  BY DEF ItemParts, Each, EveryPart
<1> QED
  BY <1>2, <1>3 DEF Joint, Said

\* With the utterance a sequence longer by one is longer by one.
LEMMA UtteranceAppend ==
    ASSUME NEW output \in Seq(Outs), NEW x \in Outs
    PROVE  Utterance(Append(output, x)) = Append(Utterance(output), Uttered(x))
<1> DEFINE n == Len(output)
           u == Utterance(output)
           more == Append(output, x)
           y == Uttered(x)
<1>0. n \in Nat /\ DOMAIN output = 1..n
  OBVIOUS
<1>1. DOMAIN more = 1..(n + 1) /\ more[n + 1] = x /\ \A i \in 1..n : more[i] = output[i]
  OBVIOUS
<1>2. u \in Seq(Outs) /\ Len(u) = n /\ y \in Outs
  BY UtteranceTyped, UtteredTyped
<1>3. \A i \in 1..n : u[i] = Uttered(output[i])
  BY <1>0 DEF Utterance
<1> HIDE DEF n, u, more, y
<1>4. Utterance(more) = [k \in 1..(n + 1) |-> Uttered(more[k])]
  BY <1>1 DEF Utterance
<1>5. Append(u, y) = [k \in 1..(n + 1) |-> IF k = n + 1 THEN y ELSE u[k]]
  <2> DEFINE W == Append(u, y)
  <2>1. W \in Seq(Outs) /\ Len(W) = n + 1 /\ W[n + 1] = y /\ \A k \in 1..n : W[k] = u[k]
    BY <1>0, <1>2
  <2> HIDE DEF W
  <2>2. W = [k \in 1..(n + 1) |-> W[k]]
    BY <1>0, <2>1
  <2>3. \A k \in 1..(n + 1) : k = n + 1 \/ k \in 1..n
    BY <1>0
  <2>4. \A k \in 1..(n + 1) : W[k] = IF k = n + 1 THEN y ELSE u[k]
    BY <1>0, <2>1, <2>3
  <2>5. W = [k \in 1..(n + 1) |-> IF k = n + 1 THEN y ELSE u[k]]
    BY <2>2, <2>4
  <2> QED
    BY <2>5 DEF W
<1>6. \A k \in 1..(n + 1) : Uttered(more[k]) = IF k = n + 1 THEN y ELSE u[k]
  <2>1. \A k \in 1..(n + 1) : k = n + 1 \/ k \in 1..n
    BY <1>0
  <2> QED
    BY <1>1, <1>3, <2>1 DEF y
<1> QED
  BY <1>4, <1>5, <1>6 DEF more, u, y

\* In a whole chat answer the texts of all items are those the client hears; the
\* calls are the same.
LEMMA TextsUttered ==
    ASSUME route.api = "chat", ~route.stream, NEW output \in Seq(Functions)
    PROVE  /\ Joint([x \in Outs |-> TextsWithin(x)], output) = TextsOf(Said(Utterance(output)))
           /\ CallsOf(Said(output)) = CallsOf(Said(Utterance(output)))
<1> DEFINE g == [x \in Outs |-> TextsWithin(x)]
           T == {s \in Seq(Functions) : /\ Joint(g, s) = TextsOf(Said(Utterance(s)))
                                        /\ CallsOf(Said(s)) = CallsOf(Said(Utterance(s)))}
<1>0. g \in [Outs -> Seq(Spoke)] /\ \A s \in Seq(Functions) : s \in Seq(Outs)
  BY WithinTyped DEF Functions
<1>1. <<>> \in T
  <2>1. Utterance(<<>>) = <<>>
    BY DEF Utterance
  <2>2. Joint(g, <<>>) = <<>>
    BY JointEmpty
  <2> QED
    BY <2>1, <2>2, SaidNothing
<1>2. ASSUME NEW s \in Seq(Functions), NEW x \in Functions, s \in T PROVE Append(s, x) \in T
  <2> DEFINE more == Append(s, x)
             u == Utterance(s)
             y == Uttered(x)
  <2>1. s \in Seq(Outs) /\ x \in Outs /\ more \in Seq(Functions) /\ u \in Seq(Outs) /\ y \in Outs
    BY <1>0, UtteranceTyped, UtteredTyped DEF Functions
  <2>2. Utterance(more) = Append(u, y)
    BY <2>1, UtteranceAppend
  <2>3. Joint(g, more) = Joint(g, s) \o g[x] /\ Joint(g, s) \in Seq(Spoke) /\ g[x] = TextsWithin(x)
    <3> HIDE DEF g
    <3>1. Joint(g, more) = Joint(g, s) \o g[x] /\ Joint(g, s) \in Seq(Spoke)
      BY <1>0, <2>1, JointAppend, JointTyped
    <3> QED
      BY <2>1, <3>1 DEF g
  <2> DEFINE one == Joint(g, s)
             spoken == Said(u)
  <2>4. one = TextsOf(spoken) /\ CallsOf(Said(s)) = CallsOf(spoken)
    BY <1>2
  <2>5. /\ y.type = "reasoning" => TextsOf(Said(Append(u, y))) = one /\ CallsOf(Said(Append(u, y))) = CallsOf(spoken)
        /\ y.type = "message" => TextsOf(Said(Append(u, y))) = Append(one, PartOf(y)) /\ CallsOf(Said(Append(u, y))) = CallsOf(spoken)
        /\ y.type = "call" => TextsOf(Said(Append(u, y))) = one /\ CallsOf(Said(Append(u, y))) = Append(CallsOf(spoken), PartOf(y))
    BY <2>1, <2>4, SaidSorted
  <2>6. /\ x.type \in {"reasoning", "message"} => CallsOf(Said(more)) = CallsOf(Said(s))
        /\ x.type = "call" => CallsOf(Said(more)) = Append(CallsOf(Said(s)), PartOf(x))
    BY <2>1, SaidSorted
  <2> HIDE DEF more, u, y, one, spoken, g, T
  <2>7. CASE x.texts = <<>>
    <3>1. x.type # "message" /\ x.type \in {"message", "call", "reasoning"}
      <4>1. \A t : <<t>> # <<>>
        OBVIOUS
      <4> QED
        BY <2>1, <2>7, <4>1, OutTyped
    <3>2. y = x
      BY <2>7 DEF Uttered, y
    <3>3. TextsWithin(x) = <<>>
      BY <2>7, NamedEmpty DEF TextsWithin
    <3>4. one \o <<>> = one
      BY <2>3 DEF one
    <3>5. Joint(g, more) = TextsOf(Said(Append(u, y))) /\ CallsOf(Said(more)) = CallsOf(Said(Append(u, y)))
      BY <2>3, <2>4, <2>5, <2>6, <3>1, <3>2, <3>3, <3>4 DEF one
    <3> QED
      BY <2>1, <2>2, <3>5 DEF T, more
  <2>8. ASSUME NEW t \in Nat, x.texts = <<t>> PROVE more \in T
    <3>0. x.texts # <<>>
      <4>1. <<t>> # <<>>
        OBVIOUS
      <4> QED
        BY <2>8, <4>1
    <3>1. x.type \in {"message", "reasoning"}
      BY <2>1, <3>0, OutTyped
    <3>2. y.type = "message" /\ y.texts = <<t>>
      <4>1. CASE x.type = "message"
        <5>1. y = x
          BY <2>1, <4>1, UtteredTyped DEF y
        <5> QED
          BY <2>8, <4>1, <5>1
      <4>2. CASE x.type = "reasoning"
        <5>1. y = Message("assistant", <<t>>)
          BY <2>8, <3>0, <4>2 DEF Uttered, y
        <5> QED
          BY <5>1 DEF Message
      <4> QED
        BY <3>1, <4>1, <4>2
    <3>3. PartOf(y) = Text(t)
      BY <3>2 DEF PartOf
    <3> DEFINE p == Text(t)
    <3>4. TextsWithin(x) = <<p>> /\ p \in Spoke
      BY <2>8, TextAlone, TextTyped DEF TextsWithin, Spoke
    <3> HIDE DEF p
    <3>5. one \o <<p>> = Append(one, p)
      BY <2>3, <3>4 DEF one
    <3>6. Joint(g, more) = TextsOf(Said(Append(u, y))) /\ CallsOf(Said(more)) = CallsOf(Said(Append(u, y)))
      BY <2>3, <2>4, <2>5, <2>6, <3>1, <3>2, <3>3, <3>4, <3>5 DEF one, p
    <3> QED
      BY <2>1, <2>2, <3>6 DEF T
  <2> QED
    BY <2>1, <2>7, <2>8, OutTyped DEF more
<1> HIDE DEF T
<1>3. output \in T
  BY <1>1, <1>2, SequencesGrow
<1> QED
  BY <1>3 DEF T

\* ResponsesToChat gives a client what the items say, texts in front.
LEMMA ChatSaidSorted ==
    ASSUME route.api = "chat", ~route.stream, NEW output \in Seq(Functions)
    PROVE  LET words == Said(Utterance(output))
           IN  /\ ResponsesToChat(output).parts = TextsOf(words) \o CallsOf(words)
               /\ ResponsesToChat(output).stop = IF CallsOf(words) # <<>> THEN "calls" ELSE "end"
<1> DEFINE g == [x \in Outs |-> TextsWithin(x)]
           words == Said(Utterance(output))
           texts == FlattenSeq(Each(LAMBDA item : Each(Text, item.texts), output))
<1>1. ResponsesToChat(output).stop = IF HasFunctionCall(output) THEN "calls" ELSE "end"
  BY DEF ResponsesToChat
<1>2. ResponsesToAnthropic(output, "completed").parts = Said(output)
  BY AnthropicSaid
<1>3. texts = Joint(g, output)
  <2>1. \A i \in DOMAIN output : output[i] \in Outs
    BY DEF Functions
  <2>2. [i \in DOMAIN output |-> TextsWithin(output[i])] = Mapped(g, output)
    BY <2>1 DEF Mapped
  <2>3. texts = FlattenSeq([i \in DOMAIN output |-> TextsWithin(output[i])])
    BY DEF Each, TextsWithin
  <2> QED
    BY <2>2, <2>3 DEF Joint
<1>4. ResponsesToChat(output).parts = texts \o CallsOf(Said(output))
  BY <1>2 DEF ResponsesToChat
<1> HIDE DEF texts, g
<1>5. texts = TextsOf(words) /\ CallsOf(Said(output)) = CallsOf(words)
  BY <1>3, TextsUttered DEF g
<1> QED
  BY <1>1, <1>4, <1>5, CallsSaid

\* Through chat there is no reasoning.
LEMMA ChatItems ==
    ASSUME AnswerDue, route.via = "chat", NEW turn \in Turns
    PROVE  \A k \in DOMAIN Output(turn) : Output(turn)[k].type # "reasoning"
<1>1. ToolsTyped
  BY DEF AnswerDue
<1>2. TurnTyped(turn) /\ \A k \in DOMAIN turn : turn[k].kind \in {"text", "call"}
  BY <1>1, TurnSays, ChatTurns
<1>3. \A k \in DOMAIN turn : turn[k].kind = "text" \/ turn[k].kind = "call"
  BY <1>2
<1>4. ASSUME NEW k \in DOMAIN turn PROVE ItemAt(turn, k).type # "reasoning"
  <2>1. CASE turn[k].kind = "text"
    BY <2>1 DEF ItemAt, Message
  <2>2. CASE turn[k].kind = "call"
    BY <2>2 DEF ItemAt, CallItem
  <2> QED
    BY <1>3, <2>1, <2>2
<1> QED
  BY <1>4 DEF Output

-----------------------------------------------------------------------------
\* What a client has of an answer that has ended, beside what was said.
EndingsOf(words, cut) ==
    LET calls == CallsOf(words) # <<>>
    IN  CASE route.api = "responses" -> IF cut THEN {"incomplete"} ELSE {"completed", "filtered"}
          [] route.api = "messages" /\ cut -> {"length"} \union (IF calls THEN {"calls"} ELSE {})
          [] route.api = "chat" \/ (route.api = "messages" /\ ~cut) -> {IF calls THEN "calls" ELSE "end"}

Delivers(received, words, cut) ==
    /\ TextsOf(received.parts) = TextsOf(words)
    /\ CallsOf(received.parts) = CallsOf(words)
    /\ Len(received.parts) = Len(words)
    /\ route.api = "responses" => received.parts = words
    /\ received.stop \in EndingsOf(words, cut)

\* Its calls have rising ids, and a chat client has the texts in front.
InOrder(received) ==
    /\ Rising(received.parts, Id(MaxParts))
    /\ route.api = "chat" => received.parts = TextsOf(received.parts) \o CallsOf(received.parts)

\* Whoever has just what was said has it delivered; a chat client if sorted.
LEMMA SaidDelivers ==
    ASSUME AnswerDue, NEW output \in Seq(Outs), InNumber(output), Len(output) <= MaxParts, NEW received, NEW cut,
           received.stop \in EndingsOf(Said(output), cut)
    PROVE  /\ route.api # "chat" /\ received.parts = Said(output) =>
                 Delivers(received, Said(output), cut) /\ InOrder(received)
           /\ route.api = "chat" /\ received.parts = TextsOf(Said(output)) \o CallsOf(Said(output)) =>
                 Delivers(received, Said(output), cut) /\ InOrder(received)
<1> DEFINE words == Said(output)
           texts == TextsOf(words)
           calls == CallsOf(words)
           n == Len(output)
<1>0. requests \in Nat /\ MaxParts \in Nat /\ n \in Nat /\ n <= MaxParts /\ Id(MaxParts) \in Nat
  <2>1. requests \in Nat /\ MaxParts \in Nat
    BY ConversationAssumption DEF AnswerDue
  <2> QED
    BY <2>1, IdTyped
<1>1. words \in Seq(Spoke) /\ words \in Seq(Parts)
  BY SaidTyped
<1>2. Rising(words, Id(MaxParts)) /\ Rising(calls, Id(MaxParts))
  <2>1. Rising(words, Id(n)) /\ Rising(calls, Id(n))
    BY <1>0, SaidRises
  <2> HIDE DEF words, calls, n
  <2> QED
    BY <1>0, <2>1, RisingWider
<1>3. texts \in Seq(Texts) /\ calls \in Seq(Calls) /\ TextsOf(texts \o calls) = texts /\ CallsOf(texts \o calls) = calls
      /\ Len(texts) + Len(calls) = Len(words)
  <2> HIDE DEF words
  <2> QED
    BY <1>1, SortedAgain, SortedLength
<1> HIDE DEF words, texts, calls
<1>4. Rising(texts \o calls, Id(MaxParts))
  BY <1>0, <1>2, <1>3, RisingBehind
<1>5. Len(texts \o calls) = Len(words)
  BY <1>3
<1>6. ASSUME route.api # "chat", received.parts = words PROVE Delivers(received, words, cut) /\ InOrder(received)
  BY <1>2, <1>6 DEF Delivers, InOrder, words, calls
<1>7. ASSUME route.api = "chat", received.parts = texts \o calls PROVE Delivers(received, words, cut) /\ InOrder(received)
  <2>1. route.api # "responses"
    BY <1>7
  <2> QED
    BY <1>3, <1>4, <1>5, <1>7, <2>1 DEF Delivers, InOrder, words, texts, calls
<1> QED
  BY <1>6, <1>7 DEF words, texts, calls

\* A turn with these calls that ends so may be told like this.
LEMMA EndingTold ==
    ASSUME route.api \in {"messages", "chat", "responses"}, NEW finish \in Finishes, NEW words
    PROVE  /\ route.api = "messages" =>
                 (IF CallsOf(words) # <<>> THEN "calls" ELSE IF Status(finish) = "incomplete" THEN "length" ELSE "end")
                     \in EndingsOf(words, finish = "length")
           /\ route.api = "chat" =>
                 (IF CallsOf(words) # <<>> THEN "calls" ELSE "end") \in EndingsOf(words, finish = "length")
           /\ route.api = "responses" => Status(finish) \in EndingsOf(words, finish = "length")
<1>1. /\ finish \in {"stop", "length", "content_filter"}
      /\ Status("length") = "incomplete" /\ Status("stop") = "completed" /\ Status("content_filter") = "filtered"
  BY DEF Finishes, Status
<1>2. Status(finish) = "incomplete" <=> finish = "length"
  BY <1>1
<1>3. Status(finish) \in {"completed", "filtered", "incomplete"}
  BY <1>1
<1> DEFINE cut == finish = "length"
           calls == CallsOf(words) # <<>>
<1>4. CASE route.api = "messages" /\ cut
  BY <1>2, <1>4 DEF EndingsOf
<1>5. CASE route.api = "messages" /\ ~cut
  BY <1>2, <1>5 DEF EndingsOf
<1>6. CASE route.api = "chat"
  BY <1>6 DEF EndingsOf
<1>7. CASE route.api = "responses"
  BY <1>2, <1>3, <1>7 DEF EndingsOf
<1> QED
  BY <1>4, <1>5, <1>6, <1>7

\* An answer that comes whole delivers what was said.
LEMMA WholeDelivers ==
    ASSUME AnswerDue, NEW turn \in Turns, NEW finish \in Finishes, AnswerWhole(turn, finish)
    PROVE  \E received : /\ Answered(turn, finish, received)
                         /\ Delivers(received, Spoken(turn), finish = "length") /\ InOrder(received)
<1> DEFINE r == IF route.via = "chat" THEN ChatToResponses(ChatAnswer(turn, finish), Registered.tools)
                ELSE [ok |-> TRUE, status |-> Status(finish), output |-> Output(turn)]
           output == Output(turn)
           heard == Utterance(output)
           cut == finish = "length"
           received == CASE route.api = "messages"  -> ResponsesToAnthropic(r.output, r.status)
                         [] route.api = "chat"      -> ResponsesToChat(r.output)
                         [] route.api = "responses" -> [parts |-> ItemParts(r.output), stop |-> r.status]
<1>1. r.ok /\ Answered(turn, finish, received) /\ ~route.stream
  BY DEF AnswerWhole
<1>2. TurnTyped(turn) /\ output \in Seq(Outs) /\ Len(output) <= MaxParts /\ InNumber(output) /\ Spoken(turn) = Said(heard)
      /\ (route.api # "responses" => output \in Seq(Functions))
      /\ ToolsTyped /\ requests \in Nat
  BY TurnSays DEF AnswerDue
<1>25. heard \in Seq(Outs) /\ Len(heard) <= MaxParts /\ InNumber(heard) /\ (route.api # "chat" => heard = output)
  <2> HIDE DEF output
  <2> QED
    BY <1>2, UtteranceTyped
<1>3. r.output = output /\ r.status = Status(finish)
  <2>1. CASE route.via = "chat"
    <3>1. ChatTurn(turn)
      BY <1>1, <1>2, <2>1, ChatTurns
    <3>2. r = ChatToResponses(ChatAnswer(turn, finish), Registered.tools)
      BY <2>1
    <3>3. r.output = output
      BY <1>1, <1>2, <2>1, <3>1, <3>2, ChatOutputIs
    <3>4. r.status = Status(ChatAnswer(turn, finish).finish)
      <4> DEFINE a == ChatAnswer(turn, finish)
      <4>1. ChatToResponses(a, Registered.tools).ok
        BY <1>1, <3>2
      <4> HIDE DEF a
      <4> QED
        BY <3>2, <4>1 DEF ChatToResponses, a
    <3> QED
      BY <3>3, <3>4 DEF ChatAnswer
  <2>2. CASE route.via # "chat"
    BY <2>2
  <2> QED
    BY <2>1, <2>2
<1> DEFINE status == r.status
<1> HIDE DEF r, output, status, heard, cut
<1>35. status = Status(finish)
  BY <1>3 DEF status
<1>36. route.api \in {"messages", "chat", "responses"}
  BY DEF AnswerDue, RouteTyped, Apis
<1>4. CASE route.api = "messages"
  <2>1. received = ResponsesToAnthropic(output, status)
    BY <1>3, <1>4 DEF status
  <2> HIDE DEF received
  <2>2. received.parts = Said(output) /\ received.stop \in EndingsOf(Said(output), cut)
    BY <1>2, <1>35, <1>36, <1>4, <2>1, AnthropicSaid, EndingTold DEF cut
  <2>3. Delivers(received, Said(output), cut) /\ InOrder(received)
    BY <1>2, <1>4, <2>2, SaidDelivers
  <2> QED
    BY <1>1, <1>2, <1>25, <1>4, <2>3 DEF cut
<1>5. CASE route.api = "chat"
  <2>1. received = ResponsesToChat(output)
    BY <1>3, <1>5
  <2> HIDE DEF received
  <2>2. received.parts = TextsOf(Said(heard)) \o CallsOf(Said(heard)) /\ received.stop \in EndingsOf(Said(heard), cut)
    <3> DEFINE words == Said(heard)
    <3>1. received.parts = TextsOf(words) \o CallsOf(words)
          /\ received.stop = IF CallsOf(words) # <<>> THEN "calls" ELSE "end"
      BY <1>1, <1>2, <1>5, <2>1, ChatSaidSorted DEF heard
    <3> HIDE DEF words
    <3>2. received.stop \in EndingsOf(words, cut)
      BY <1>36, <1>5, <3>1, EndingTold DEF cut
    <3> QED
      BY <3>1, <3>2 DEF words
  <2>3. Delivers(received, Said(heard), cut) /\ InOrder(received)
    BY <1>25, <1>5, <2>2, SaidDelivers
  <2> QED
    BY <1>1, <1>2, <2>3 DEF cut
<1>6. CASE route.api = "responses"
  <2>1. route.via = "chat"
    BY <1>6, ConversationAssumption DEF AnswerDue, RouteTyped
  <2>2. received = [parts |-> ItemParts(output), stop |-> status]
    BY <1>3, <1>6 DEF status
  <2> HIDE DEF received
  <2>3. ItemParts(output) = Said(output)
    BY <1>2, <2>1, ChatItems, ItemsAreSaid DEF output
  <2>4. received.parts = Said(output) /\ received.stop \in EndingsOf(Said(output), cut)
    BY <1>35, <1>36, <1>6, <2>2, <2>3, EndingTold DEF cut
  <2>5. Delivers(received, Said(output), cut) /\ InOrder(received)
    BY <1>2, <1>6, <2>4, SaidDelivers
  <2> QED
    BY <1>1, <1>2, <1>25, <1>6, <2>5 DEF cut
<1> QED
  BY <1>36, <1>4, <1>5, <1>6
-----------------------------------------------------------------------------
(* The blocks of a client, in their order.                                  *)

\* To keep and then to join is to join what of the others is nothing.
Only(A, K, g) == [x \in A |-> IF x \in K THEN g[x] ELSE <<>>]

\* What is kept brings what all bring of which the rest brings nothing.
LEMMA JointKept ==
    ASSUME NEW A, NEW S, NEW K, NEW g, Maps(g, A \intersect K, Seq(S)), NEW s \in Seq(A)
    PROVE  Joint(g, Kept(A, K, s)) = Joint(Only(A, K, g), s)
<1> DEFINE h == Only(A, K, g)
           T == {t \in Seq(A) : Joint(g, Kept(A, K, t)) = Joint(h, t)}
<1>0. h \in [A -> Seq(S)] /\ \A x \in A : h[x] = IF x \in K THEN g[x] ELSE <<>>
  BY DEF Only, Maps
<1>1. <<>> \in T
  BY KeptEmpty, JointEmpty
<1> HIDE DEF h
<1>2. ASSUME NEW t \in Seq(A), NEW x \in A, t \in T PROVE Append(t, x) \in T
  <2> DEFINE kept == Kept(A, K, t)
             B == A \intersect K
             one == Joint(h, t)
  <2>1. kept \in Seq(B)
    BY KeptTyped
  <2>2. Joint(h, Append(t, x)) = one \o h[x] /\ one \in Seq(S)
    <3>1. h \in [A -> Seq(S)]
      BY <1>0
    <3> QED
      BY <3>1, JointAppend, JointTyped
  <2>3. Kept(A, K, Append(t, x)) = IF x \in K THEN Append(kept, x) ELSE kept
    BY KeptAppend
  <2>4. Joint(g, kept) = one
    BY <1>2
  <2> HIDE DEF kept, B, one
  <2>5. CASE x \in K
    <3>1. x \in B /\ h[x] = g[x] /\ g \in [B -> Seq(S)]
      BY <1>0, <2>5 DEF B, Maps
    <3>2. Joint(g, Append(kept, x)) = Joint(g, kept) \o g[x]
      BY <2>1, <3>1, JointAppend
    <3>3. Joint(g, Kept(A, K, Append(t, x))) = Joint(h, Append(t, x))
      BY <2>2, <2>3, <2>4, <2>5, <3>1, <3>2
    <3> QED
      BY <3>3
  <2>6. CASE x \notin K
    <3>1. h[x] = <<>> /\ one \o <<>> = one
      BY <1>0, <2>2, <2>6
    <3>2. Joint(g, Kept(A, K, Append(t, x))) = Joint(h, Append(t, x))
      BY <2>2, <2>3, <2>4, <2>6, <3>1
    <3> QED
      BY <3>2
  <2> QED
    BY <2>5, <2>6
<1> HIDE DEF T
<1>3. s \in T
  BY <1>1, <1>2, SequencesGrow
<1> QED
  BY <1>3 DEF T, h

\* The places of blocks in order, and the parts that are there.
Slots(n)          == [i \in 1..n |-> i - 1]
Slot(blocks)      == [i \in Nat |-> IF i \in DOMAIN blocks THEN <<blocks[i].part>> ELSE <<>>]
Listed(blocks, n) == Joint(Slot(blocks), Slots(n))

\* One place more.
LEMMA SlotsGrow ==
    ASSUME NEW n \in Nat
    PROVE  /\ Slots(n) \in Seq(Nat) /\ Slots(0) = <<>>
           /\ Slots(n + 1) = Append(Slots(n), n)
<1>1. Slots(n) \in [1..n -> Nat] /\ Slots(n + 1) \in [1..(n + 1) -> Nat]
  BY DEF Slots
<1>2. Slots(n) \in Seq(Nat) /\ Len(Slots(n)) = n /\ Slots(n + 1) \in Seq(Nat) /\ Len(Slots(n + 1)) = n + 1
  BY <1>1, IsSequence
<1>3. Slots(0) = <<>>
  BY DEF Slots
<1>4. (\A i \in 1..n : Slots(n + 1)[i] = Slots(n)[i]) /\ Slots(n + 1)[n + 1] = n
  BY DEF Slots
<1> DEFINE one == Slots(n)
           two == Slots(n + 1)
<1> HIDE DEF one, two
<1>5. two = Append(one, n)
  BY <1>2, <1>4 DEF one, two
<1> QED
  BY <1>2, <1>3, <1>5 DEF one, two

\* Each place has one part at most.
LEMMA SlotTyped ==
    ASSUME NEW blocks \in Held
    PROVE  Slot(blocks) \in [Nat -> Seq(Spoke)]
<1>1. \A i \in DOMAIN blocks : <<blocks[i].part>> \in Seq(Spoke)
  <2>1. \A i \in DOMAIN blocks : blocks[i].part \in Spoke
    BY HeldBlock DEF Blks
  <2> HIDE DEF Spoke
  <2> QED
    BY <2>1
<1> QED
  BY <1>1 DEF Slot

\* Block by block.
LEMMA ListedGrows ==
    ASSUME NEW blocks \in Held, NEW n \in Nat
    PROVE  /\ Listed(blocks, n) \in Seq(Spoke) /\ Listed(blocks, 0) = <<>>
           /\ n \in DOMAIN blocks => Listed(blocks, n + 1) = Append(Listed(blocks, n), blocks[n].part) /\ blocks[n].part \in Spoke
           /\ n \notin DOMAIN blocks => Listed(blocks, n + 1) = Listed(blocks, n)
<1> DEFINE g == Slot(blocks)
           one == Listed(blocks, n)
<1>1. Joint(g, Append(Slots(n), n)) = Joint(g, Slots(n)) \o g[n] /\ Joint(g, Slots(n)) \in Seq(Spoke)
  <2> HIDE DEF g
  <2> QED
    BY SlotTyped, SlotsGrow, JointAppend, JointTyped DEF g
<1>2. one \in Seq(Spoke) /\ Listed(blocks, n + 1) = one \o g[n]
  BY <1>1, SlotsGrow DEF Listed
<1>3. Listed(blocks, 0) = <<>>
  BY SlotsGrow, JointEmpty DEF Listed
<1>4. g[n] = IF n \in DOMAIN blocks THEN <<blocks[n].part>> ELSE <<>>
  BY DEF Slot
<1>5. n \in DOMAIN blocks => blocks[n].part \in Spoke
  BY HeldBlock DEF Blks
<1> HIDE DEF g, one
<1>6. one \o <<>> = one
  BY <1>2
<1>7. ASSUME n \in DOMAIN blocks PROVE one \o <<blocks[n].part>> = Append(one, blocks[n].part)
  <2> DEFINE p == blocks[n].part
  <2>1. p \in Spoke
    BY <1>5, <1>7
  <2> HIDE DEF p
  <2>2. one \o <<p>> = Append(one, p)
    BY <1>2, <2>1
  <2> QED
    BY <2>2 DEF p
<1> QED
  BY <1>2, <1>3, <1>4, <1>5, <1>6, <1>7 DEF one

\* Blocks that agree on the first n places.
Alike(blocks, others, n) ==
    \A i \in 0..(n - 1) : /\ i \in DOMAIN blocks <=> i \in DOMAIN others
                          /\ i \in DOMAIN blocks => blocks[i].part = others[i].part

\* They show the same parts.
LEMMA ListedAlike ==
    ASSUME NEW blocks \in Held, NEW others \in Held, NEW n \in Nat, Alike(blocks, others, n)
    PROVE  Listed(blocks, n) = Listed(others, n)
<1>1. \A i \in 1..n : Slots(n)[i] \in 0..(n - 1) /\ Slots(n)[i] \in Nat
  BY DEF Slots
<1>2. \A i \in 0..(n - 1) : Slot(blocks)[i] = Slot(others)[i]
  <2>1. \A i \in 0..(n - 1) : i \in Nat
    OBVIOUS
  <2> QED
    BY <2>1 DEF Alike, Slot
<1>3. DOMAIN Slots(n) = 1..n
  BY DEF Slots
<1> QED
  BY <1>1, <1>2, <1>3 DEF Listed, Joint, Mapped

\* Behind the last block there is nothing.
LEMMA ListedBeyond ==
    ASSUME NEW blocks \in Held, NEW n \in Nat, DOMAIN blocks \subseteq 0..(n - 1), NEW m \in Nat, n <= m
    PROVE  Listed(blocks, m) = Listed(blocks, n)
<1> DEFINE S == {k \in 0..(m - n) : Listed(blocks, n + k) = Listed(blocks, n)}
<1>0. m - n \in Nat /\ m - n \in 0..(m - n)
  OBVIOUS
<1>1. 0 \in S
  BY <1>0
<1>2. ASSUME NEW k \in 1..(m - n), k - 1 \in S PROVE k \in S
  <2>1. n + (k - 1) \in Nat /\ n + (k - 1) \notin DOMAIN blocks /\ (n + (k - 1)) + 1 = n + k
    BY <1>0
  <2>2. Listed(blocks, n + k) = Listed(blocks, n + (k - 1))
    BY <2>1, ListedGrows
  <2> QED
    BY <1>0, <1>2, <2>2
<1> HIDE DEF S
<1>3. m - n \in S
  <2> DEFINE d == m - n
  <2>1. d \in Nat /\ d \in 0..d /\ \A k \in 1..d : k - 1 \in S => k \in S
    BY <1>0, <1>2
  <2> HIDE DEF d
  <2>2. d \in S
    BY <1>1, <2>1, UpTo
  <2> QED
    BY <2>2 DEF d
<1>4. n + (m - n) = m
  OBVIOUS
<1> QED
  BY <1>3, <1>4 DEF S

\* The blocks of calls rise with their places.
AtTheirPlace(blocks) == \A i \in DOMAIN blocks : blocks[i].part \in Calls => blocks[i].part.id = Id(i + 1)

\* Then the ids of the parts they show rise.
LEMMA ListedRises ==
    ASSUME requests \in Nat, NEW blocks \in Held, AtTheirPlace(blocks), NEW n \in Nat
    PROVE  Rising(Listed(blocks, n), Id(n))
<1> DEFINE S == {k \in 0..n : Rising(Listed(blocks, k), Id(k))}
<1>1. 0 \in S
  <2>1. Listed(blocks, 0) = <<>>
    BY ListedGrows
  <2>2. Rising(<<>>, Id(0))
    BY DEF Rising
  <2> QED
    BY <2>1, <2>2
<1>2. ASSUME NEW k \in 1..n, k - 1 \in S PROVE k \in S
  <2> DEFINE m == k - 1
             one == Listed(blocks, m)
             b == Id(m)
             p == blocks[m].part
  <2>1. m \in Nat /\ m + 1 = k /\ Id(k) = b + 1 /\ b \in Nat /\ Id(0) <= b
    <3>1. m \in Nat /\ m + 1 = k
      OBVIOUS
    <3>2. Id(m) = Id(0) + m /\ Id(0) \in Nat /\ Id(m + 1) = Id(m) + 1
      BY <3>1, IdCounts
    <3> QED
      BY <3>1, <3>2
  <2>2. one \in Seq(Spoke) /\ Rising(one, b)
    BY <1>2, <2>1, ListedGrows
  <2>3. /\ m \in DOMAIN blocks => Listed(blocks, k) = Append(one, p) /\ p \in Spoke
        /\ m \notin DOMAIN blocks => Listed(blocks, k) = one
    BY <2>1, ListedGrows
  <2>4. m \in DOMAIN blocks /\ p \in Calls => p.id = b + 1
    BY <2>1 DEF AtTheirPlace
  <2> HIDE DEF m, one, b, p
  <2>5. Rising(one, b + 1)
    <3>1. Text(0) \in Spoke
      BY TextTyped DEF Spoke
    <3> QED
      BY <2>1, <2>2, <3>1, RisingAppend
  <2>6. m \in DOMAIN blocks => Rising(Append(one, p), b + 1)
    BY <2>1, <2>2, <2>3, <2>4, RisingAppend DEF Spoke
  <2>7. Rising(Listed(blocks, k), Id(k))
    BY <2>1, <2>3, <2>5, <2>6
  <2>8. k \in 0..n
    OBVIOUS
  <2> QED
    BY <2>7, <2>8
<1> HIDE DEF S
<1>3. n \in S
  <2>1. n \in 0..n
    OBVIOUS
  <2> QED
    BY <1>1, <1>2, <2>1, UpTo
<1> QED
  BY <1>3 DEF S
-----------------------------------------------------------------------------
(* All the events of an item, to a Messages client.                         *)

\* A block that is whole shows its part.
LEMMA BlockShows ==
    ASSUME NEW b \in Blks, Complete(b)
    PROVE  BlockParts(b) = <<b.part>>
<1>0. b.part \in Spoke /\ b.body = <<b.part.id>>
  BY DEF Blks, Complete
<1>1. CASE b.part \in Texts
  <2>1. b.part.kind = "text" /\ b.part.id \in Nat /\ b.part = Text(b.part.id)
    BY <1>1 DEF Texts, Text
  <2>2. Each(Text, <<b.part.id>>) = <<Text(b.part.id)>>
    BY <2>1, TextAlone
  <2> QED
    BY <1>0, <2>1, <2>2 DEF BlockParts
<1>2. CASE b.part \in Calls
  <2>1. b.part.kind # "text"
    BY <1>2 DEF Calls
  <2> QED
    BY <1>0, <2>1 DEF BlockParts
<1> QED
  BY <1>0, <1>1, <1>2 DEF Spoke

\* What a client has whose blocks are whole: texts, and the parts of its blocks.
LEMMA ReceivedIs ==
    ASSUME MaxParts \in Nat, NEW c \in Clients, Whole(c)
    PROVE  Received(c).parts = c.texts \o Listed(c.blocks, MaxParts) /\ Received(c).stop = c.stop
<1> DEFINE D == DOMAIN c.blocks
           all == [i \in 1..MaxParts |-> i - 1]
           order == Those(all, LAMBDA i : i \in D)
           g == [i \in D |-> BlockParts(c.blocks[i])]
           rest == FlattenSeq(Each(LAMBDA i : BlockParts(c.blocks[i]), order))
           B == Seq(Spoke)
<1>0. c.texts \in Seq(Texts) /\ c.blocks \in Held /\ D \subseteq Nat
  <2>1. c.texts \in Seq(Texts) /\ c.blocks \in Held
    BY DEF Clients
  <2> QED
    BY <2>1, HeldBlock
<1>1. Received(c).parts = c.texts \o rest /\ Received(c).stop = c.stop
  BY DEF Received
<1>2. all = Slots(MaxParts) /\ all \in Seq(Nat)
  BY SlotsGrow DEF Slots
<1>3. order = Kept(Nat, D, all) /\ order \in Seq(D)
  <2>1. DOMAIN all = 1..MaxParts /\ \A i \in 1..MaxParts : all[i] \in Nat
    OBVIOUS
  <2> HIDE DEF all, D
  <2>2. [i \in DOMAIN all |-> IF all[i] \in D THEN <<all[i]>> ELSE <<>>] = Mapped(Picks(Nat, D), all)
    BY <2>1 DEF Mapped, Picks
  <2>3. order = Kept(Nat, D, all)
    BY <2>2 DEF Those, Kept, Joint
  <2>4. Kept(Nat, D, all) \in Seq(Nat \intersect D)
    BY <1>2, KeptTyped
  <2> DEFINE r == Kept(Nat, D, all)
  <2> HIDE DEF r
  <2>5. r \in Seq(D)
    BY <2>4 DEF r
  <2> QED
    BY <2>3, <2>5 DEF r
<1>4. \A i \in D : BlockParts(c.blocks[i]) = <<c.blocks[i].part>> /\ c.blocks[i].part \in Spoke
  <2>1. \A i \in D : c.blocks[i] \in Blks /\ Complete(c.blocks[i])
    BY <1>0, HeldBlock DEF Whole
  <2> QED
    BY <2>1, BlockShows DEF Blks
<1>5. \A i \in D : g[i] = <<c.blocks[i].part>> /\ g[i] \in B
  <2>1. \A p \in Spoke : <<p>> \in Seq(Spoke)
    <3> HIDE DEF Spoke
    <3> QED
      OBVIOUS
  <2> QED
    BY <1>4, <2>1
<1>6. Only(Nat, D, g) = Slot(c.blocks)
  BY <1>5 DEF Only, Slot
<1> HIDE DEF order, all
<1>7. Each(LAMBDA i : BlockParts(c.blocks[i]), order) = Mapped(g, order)
  <2>1. \A j \in DOMAIN order : order[j] \in D
    BY <1>3
  <2> HIDE DEF D
  <2> QED
    BY <2>1 DEF Each, Mapped
<1>8. Maps(g, Nat \intersect D, B)
  <2>1. Nat \intersect D = D
    BY <1>0
  <2>2. g \in [D -> B]
    <3>1. DOMAIN g = D /\ g = [i \in D |-> g[i]]
      OBVIOUS
    <3> HIDE DEF g, B, D
    <3> QED
      BY <1>5, <3>1
  <2> QED
    BY <2>1, <2>2 DEF Maps
<1> HIDE DEF g, D
<1>9. Joint(g, Kept(Nat, D, all)) = Joint(Only(Nat, D, g), all)
  BY <1>2, <1>8, JointKept DEF B
<1>10. rest = Listed(c.blocks, MaxParts)
  BY <1>2, <1>3, <1>6, <1>7, <1>9 DEF Joint, Listed
<1> QED
  BY <1>1, <1>10

\* A block with its part, at its place.
Full(p)         == [part |-> p, body |-> <<p.id>>]
Filled(c, i, p) == [texts |-> c.texts, blocks |-> With(c.blocks, i, Full(p)), stop |-> c.stop]

\* A block that is put down, perhaps twice, and gets its body is filled.
LEMMA PlacedFilled ==
    ASSUME NEW c \in Clients, NEW i \in Nat, NEW p \in Spoke
    PROVE  /\ Placed(c, i, p) \in Clients /\ i \in DOMAIN Placed(c, i, p).blocks
           /\ Placed(Placed(c, i, p), i, p) = Placed(c, i, p)
           /\ Grown(Placed(c, i, p), i, p.id) = Filled(c, i, p)
           /\ Full(p) \in Blks /\ Complete(Full(p))
<1> DEFINE b == c.blocks
<1>1. Placed(c, i, p) \in Clients /\ p.id \in Nat
  BY ClientsTyped, BlksTyped
<1>2. Placed(c, i, p).blocks = With(b, i, Place(p))
  BY DEF Placed
<1>3. With(With(b, i, Place(p)), i, Place(p)) = With(b, i, Place(p))
  BY DEF With
<1>4. With(b, i, Place(p))[i] = Place(p) /\ i \in DOMAIN With(b, i, Place(p))
  BY DEF With
<1>5. Grow(Place(p), p.id) = Full(p)
  BY <1>1 DEF Grow, Place, Full
<1>6. With(With(b, i, Place(p)), i, Full(p)) = With(b, i, Full(p))
  BY DEF With
<1>7. Full(p) \in Blks /\ Complete(Full(p))
  <2>1. <<p.id>> \in Seq(Nat)
    BY <1>1
  <2> QED
    BY <2>1 DEF Full, Blks, Complete
<1> HIDE DEF b
<1>8. Placed(Placed(c, i, p), i, p) = Placed(c, i, p)
  BY <1>2, <1>3 DEF Placed, b
<1>9. Grown(Placed(c, i, p), i, p.id) = Filled(c, i, p)
  BY <1>2, <1>4, <1>5, <1>6 DEF Grown, Placed, Filled, b
<1> QED
  BY <1>1, <1>2, <1>4, <1>7, <1>8, <1>9 DEF b

\* All the events of one item, to a Messages client.
LEMMA BurstFills ==
    ASSUME NEW output \in Seq(Outs), NEW types \in Orders, NEW k \in DOMAIN output, NEW base \in Seq(Live)
    PROVE  LET x == output[k]
               c == Shown(base)
               d == Shown(base \o Burst(output, types, k))
           IN  /\ c \in Clients
               /\ base \o Burst(output, types, k) \in Seq(Live)
               /\ Shows(x) => d = Filled(c, PlaceOf(x, k - 1), PartOf(x))
               /\ ~Shows(x) => d = c
<1> DEFINE x == output[k]
           i == PlaceOf(x, k - 1)
           p == PartOf(x)
           c == Shown(base)
           added == EventOf(output, "added", k)
           delta == EventOf(output, "delta", k)
           done  == EventOf(output, "done", k)
           one == Append(base, added)
           two == Append(one, added)
           B(t) == base \o Burst(output, t, k)
<1>0. x \in Outs /\ k - 1 \in Nat
  OBVIOUS
<1>1. added \in Live /\ delta \in Live /\ done \in Live
  BY LiveTyped
<1>2. /\ added.type = "added" /\ added.item = x /\ added.index = k - 1
      /\ delta.type = "delta" /\ delta.item = x /\ delta.index = k - 1
      /\ done.type = "done" /\ done.item = x /\ done.index = k - 1
  BY DEF EventOf, Event
<1>3. /\ B(<<"added", "delta">>) = Append(one, delta)
      /\ B(<<"added", "delta", "done">>) = Append(Append(one, delta), done)
      /\ B(<<"added", "added", "delta", "done">>) = Append(Append(two, delta), done)
  BY BurstIs
<1>4. i \in Nat /\ (Shows(x) => p \in Spoke)
  BY <1>0, PartOfTyped
<1> HIDE DEF added, delta, done, x, i, p, one, two
<1>5. one \in Seq(Live) /\ two \in Seq(Live) /\ c \in Clients
  BY <1>1, LiveShown DEF one, two
\* One event behind others.
<1>6. ASSUME NEW s \in Seq(Live)
      PROVE  /\ Shown(s) \in Clients /\ Append(s, added) \in Seq(Live) /\ Append(s, delta) \in Seq(Live) /\ Append(s, done) \in Seq(Live)
             /\ Shows(x) => Shown(Append(s, added)) = Placed(Shown(s), i, p)
             /\ Shows(x) => Shown(Append(s, delta)) = IF i \in DOMAIN Shown(s).blocks THEN Grown(Shown(s), i, p.id) ELSE Shown(s)
             /\ Shown(Append(s, done)) = Shown(s)
             /\ ~Shows(x) => Shown(Append(s, added)) = Shown(s) /\ Shown(Append(s, delta)) = Shown(s)
  <2>1. Shown(s) \in Clients /\ Append(s, added) \in Seq(Live) /\ Append(s, delta) \in Seq(Live) /\ Append(s, done) \in Seq(Live)
    BY <1>1, LiveShown
  <2>2. /\ Shows(x) => Shown(Append(s, added)) = Placed(Shown(s), i, p)
        /\ ~Shows(x) => Shown(Append(s, added)) = Shown(s)
    BY <1>1, <1>2, LiveShown DEF i, p
  <2>3. /\ Shows(x) => Shown(Append(s, delta)) = IF i \in DOMAIN Shown(s).blocks THEN Grown(Shown(s), i, p.id) ELSE Shown(s)
        /\ ~Shows(x) => Shown(Append(s, delta)) = Shown(s)
    BY <1>1, <1>2, LiveShown DEF i, p
  <2>4. Shown(Append(s, done)) = Shown(s)
    BY <1>1, <1>2, LiveShown
  <2> QED
    BY <2>1, <2>2, <2>3, <2>4
<1>7. ASSUME NEW s \in Seq(Live), Shown(s) = (IF Shows(x) THEN Placed(c, i, p) ELSE c)
      PROVE  /\ Append(s, delta) \in Seq(Live)
             /\ Shown(Append(s, delta)) = IF Shows(x) THEN Filled(c, i, p) ELSE c
  <2>1. CASE Shows(x)
    <3>1. i \in DOMAIN Shown(s).blocks /\ Grown(Shown(s), i, p.id) = Filled(c, i, p)
      BY ZenonT(30), <1>4, <1>5, <1>7, <2>1, PlacedFilled
    <3> QED
      BY <1>6, <2>1, <3>1
  <2>2. CASE ~Shows(x)
    BY <1>6, <1>7, <2>2
  <2> QED
    BY <2>1, <2>2
<1> HIDE DEF c
<1>8. Shown(one) = IF Shows(x) THEN Placed(c, i, p) ELSE c
  BY <1>6 DEF one, c
<1>9. Shown(two) = IF Shows(x) THEN Placed(c, i, p) ELSE c
  <2>1. Shows(x) => Placed(Placed(c, i, p), i, p) = Placed(c, i, p)
    BY <1>4, <1>5, PlacedFilled
  <2> QED
    BY <1>5, <1>6, <1>8, <2>1 DEF two
<1> DEFINE e == IF Shows(x) THEN Filled(c, i, p) ELSE c
<1>10. /\ Append(one, delta) \in Seq(Live) /\ Shown(Append(one, delta)) = e
       /\ Append(two, delta) \in Seq(Live) /\ Shown(Append(two, delta)) = e
  BY <1>5, <1>7, <1>8, <1>9
<1> HIDE DEF e
<1>11. /\ Append(Append(one, delta), done) \in Seq(Live) /\ Shown(Append(Append(one, delta), done)) = e
       /\ Append(Append(two, delta), done) \in Seq(Live) /\ Shown(Append(Append(two, delta), done)) = e
  BY <1>6, <1>10
<1> HIDE DEF B
<1>12. B(types) \in Seq(Live) /\ Shown(B(types)) = e
  <2>1. types = <<"added", "delta">> \/ types = <<"added", "delta", "done">> \/ types = <<"added", "added", "delta", "done">>
    BY DEF Orders
  <2>2. CASE types = <<"added", "delta">>
    BY <1>3, <1>10, <2>2
  <2>3. CASE types = <<"added", "delta", "done">>
    BY <1>3, <1>11, <2>3
  <2>4. CASE types = <<"added", "added", "delta", "done">>
    BY <1>3, <1>11, <2>4
  <2> QED
    BY <2>1, <2>2, <2>3, <2>4
<1> QED
  BY <1>5, <1>12 DEF e, B, c, x, i, p

\* To close an item changes nothing for the client.
LEMMA DoneShows ==
    ASSUME NEW output \in Seq(Outs), NEW k \in DOMAIN output, NEW base \in Seq(Live)
    PROVE  base \o Burst(output, <<"done">>, k) \in Seq(Live) /\ Shown(base \o Burst(output, <<"done">>, k)) = Shown(base)
<1> DEFINE done == EventOf(output, "done", k)
<1>1. done \in Live /\ done.type = "done"
  BY LiveTyped DEF EventOf, Event
<1>2. base \o Burst(output, <<"done">>, k) = Append(base, done)
  BY BurstIs
<1> HIDE DEF done
<1> QED
  BY <1>1, <1>2, LiveShown
-----------------------------------------------------------------------------
(* Blocks that are filled, one after the other.                             *)

\* What a Messages client can be streamed: a text at most, and in front of the calls.
Orderly(words) == OneText(words) /\ ~CallBeforeText(words)

\* The part that comes last.
LEMMA LastPart ==
    ASSUME NEW words \in Seq(Spoke), words # <<>>
    PROVE  \E front \in Seq(Spoke), q \in Spoke : words = Append(front, q)
<1> HIDE DEF Spoke
<1> DEFINE front == SubSeq(words, 1, Len(words) - 1)
           q == words[Len(words)]
<1>1. front \in Seq(Spoke) /\ q \in Spoke
  OBVIOUS
<1>2. words = Append(front, q)
  OBVIOUS
<1> QED
  BY <1>1, <1>2

\* In front of a text there is nothing, and in front of a call what is itself in order.
LEMMA OrderlyAppend ==
    ASSUME NEW words \in Seq(Spoke), NEW p \in Spoke, Orderly(Append(words, p))
    PROVE  /\ p \in Texts => words = <<>>
           /\ p \in Calls => Orderly(words)
<1> DEFINE more == Append(words, p)
           n == Len(words)
           T == TextsOf(words)
<1>0. /\ n \in Nat /\ DOMAIN words = 1..n /\ DOMAIN more = 1..(n + 1) /\ more[n + 1] = p
      /\ \A i \in 1..n : more[i] = words[i]
  <2> HIDE DEF Spoke
  <2> QED
    OBVIOUS
<1>1. Len(TextsOf(more)) <= 1 /\ ~CallBeforeText(more)
  BY DEF Orderly, OneText
<1>2. T \in Seq(Texts)
  BY SpokenHeard, PartsSorted
<1>3. CASE p \in Texts
  <2>0. p.kind = "text"
    BY <1>3 DEF Texts
  <2>1. TextsOf(more) = Append(T, p)
    BY <1>3, SortedAppend
  <2>2. T = <<>>
    <3> HIDE DEF T
    <3>1. Len(Append(T, p)) = Len(T) + 1 /\ Len(T) \in Nat
      BY <1>2
    <3> QED
      BY <1>1, <1>2, <2>1, <3>1
  <2>3. ASSUME words # <<>> PROVE FALSE
    <3>1. PICK front \in Seq(Spoke), q \in Spoke : words = Append(front, q)
      BY <2>3, LastPart
    <3>2. n # 0 /\ words[n] = q
      <4> HIDE DEF Spoke
      <4> QED
        BY <3>1
    <3>3. CASE q \in Texts
      <4>1. T = Append(TextsOf(front), q)
        BY <3>1, <3>3, SortedAppend
      <4>2. TextsOf(front) \in Seq(Texts)
        BY SpokenHeard, PartsSorted
      <4> DEFINE one == TextsOf(front)
      <4> HIDE DEF one
      <4>3. Append(one, q) # <<>>
        BY <4>2, <3>3 DEF one
      <4> QED
        BY <2>2, <4>1, <4>3 DEF one
    <3>4. CASE q \in Calls
      <4>0. n \in 1..n /\ n \in 1..(n + 1) /\ n + 1 \in 1..(n + 1) /\ n < n + 1
        <5> HIDE DEF n
        <5> QED
          BY <1>0, <3>2
      <4>1. n \in DOMAIN more /\ n + 1 \in DOMAIN more /\ n < n + 1 /\ more[n] = q
        <5> HIDE DEF n, more
        <5> QED
          BY <1>0, <3>2, <4>0
      <4>2. q.kind = "call"
        BY <3>4 DEF Calls
      <4> QED
        BY <1>0, <1>1, <2>0, <4>1, <4>2 DEF CallBeforeText
    <3> QED
      BY <3>3, <3>4 DEF Spoke
  <2> QED
    BY <1>3, <2>3 DEF Texts, Calls
<1>4. CASE p \in Calls
  <2>1. TextsOf(more) = T
    BY <1>4, SortedAppend
  <2>2. CallBeforeText(words) => CallBeforeText(more)
    BY <1>0 DEF CallBeforeText
  <2> QED
    BY <1>1, <2>1, <2>2, <1>4 DEF Orderly, OneText, Texts, Calls
<1> QED
  BY <1>3, <1>4 DEF Spoke
-----------------------------------------------------------------------------
\* What a Messages client has of the first n items of a stream.
ShownSaid(c, output, n) ==
    /\ c \in Clients
    /\ c.texts = <<>>
    /\ DOMAIN c.blocks \subseteq 0..(n - 1)
    /\ AtTheirPlace(c.blocks)
    /\ Said(Firsts(output, n)) = <<>> => DOMAIN c.blocks = {}
    /\ Orderly(Said(Firsts(output, n))) => Listed(c.blocks, n) = Said(Firsts(output, n))

\* One block alone, and one behind others.
LEMMA FilledFirst ==
    ASSUME NEW blocks \in Held, DOMAIN blocks = {}, NEW p \in Spoke, NEW n \in Nat, n # 0
    PROVE  Listed(With(blocks, 0, Full(p)), n) = <<p>>
<1> DEFINE f == Full(p)
           b == With(blocks, 0, f)
<1>1. b \in Held /\ DOMAIN b = {0} /\ b[0] = f
  <2>1. f \in Blks
    <3>1. NewClient \in Clients
      BY NewClientTyped
    <3> QED
      BY <3>1, PlacedFilled
  <2> HIDE DEF f
  <2>2. b \in Held /\ Put(b, blocks, 0, f)
    BY <2>1, HeldWith, HeldPut
  <2> HIDE DEF b
  <2> QED
    BY <2>2 DEF Put
<1>2. f.part = p
  BY DEF Full
<1> HIDE DEF b, f
<1>3. Listed(b, 0 + 1) = Append(Listed(b, 0), b[0].part) /\ Listed(b, 0) = <<>>
  <2>1. 0 \in DOMAIN b
    BY <1>1
  <2> QED
    BY <1>1, <2>1, ListedGrows
<1>4. DOMAIN b \subseteq 0..(1 - 1)
  BY <1>1
<1>5. Listed(b, n) = Listed(b, 1)
  BY <1>1, <1>4, ListedBeyond
<1>6. Append(<<>>, p) = <<p>>
  OBVIOUS
<1>7. 0 + 1 = 1
  OBVIOUS
<1>8. Listed(b, n) = <<p>>
  BY <1>1, <1>2, <1>3, <1>5, <1>6, <1>7
<1> QED
  BY <1>8 DEF b, f

\* And one behind all others.
LEMMA FilledBehind ==
    ASSUME NEW blocks \in Held, NEW n \in Nat, DOMAIN blocks \subseteq 0..(n - 1), NEW p \in Spoke
    PROVE  Listed(With(blocks, n, Full(p)), n + 1) = Append(Listed(blocks, n), p)
<1> DEFINE f == Full(p)
           b == With(blocks, n, f)
<1>0. f \in Blks
  <2>1. NewClient \in Clients
    BY NewClientTyped
  <2> QED
    BY <2>1, PlacedFilled
<1>1. b \in Held /\ DOMAIN b = DOMAIN blocks \union {n} /\ b[n] = f /\ \A j \in DOMAIN blocks \ {n} : b[j] = blocks[j]
  <2> HIDE DEF f
  <2>2. b \in Held /\ Put(b, blocks, n, f)
    BY <1>0, HeldWith, HeldPut
  <2> HIDE DEF b
  <2> QED
    BY <2>2 DEF Put
<1>2. f.part = p
  BY DEF Full
<1> HIDE DEF b, f
<1>3. Alike(b, blocks, n)
  <2>1. \A i \in 0..(n - 1) : i # n
    OBVIOUS
  <2> QED
    BY <1>1, <2>1 DEF Alike
<1>4. Listed(b, n) = Listed(blocks, n)
  BY <1>1, <1>3, ListedAlike
<1>5. Listed(b, n + 1) = Append(Listed(b, n), b[n].part)
  <2>1. n \in DOMAIN b
    BY <1>1
  <2> QED
    BY <1>1, <2>1, ListedGrows
<1> QED
  BY <1>1, <1>2, <1>4, <1>5 DEF b, f
-----------------------------------------------------------------------------
(* A Messages client fills its blocks with what was said.                   *)

\* The text that a Messages client is given goes to the first block, a call to its own.
LEMMA TextFilled ==
    ASSUME requests \in Nat, NEW output \in Seq(Functions), NEW n \in 1..Len(output),
           output[n].type = "message", NEW c, ShownSaid(c, output, n - 1)
    PROVE  ShownSaid(Filled(c, 0, PartOf(output[n])), output, n)
<1> DEFINE x == output[n]
           front == Firsts(output, n - 1)
           one == Said(front)
           more == Said(Firsts(output, n))
           p == PartOf(x)
           b == c.blocks
           d == Filled(c, 0, p)
<1>0. output \in Seq(Outs)
  BY DEF Functions
<1>1. /\ front \in Seq(Outs) /\ x \in Outs /\ Firsts(output, n) = Append(front, x)
      /\ p \in Texts /\ p \in Spoke
  BY <1>0, FirstsGrow, OutPart
<1>2. more = Append(one, p) /\ one \in Seq(Spoke)
  BY <1>1, SaidAppend, SaidTyped
<1>3. c \in Clients /\ b \in Held /\ Full(p) \in Blks /\ Full(p).part = p
  BY <1>1, PlacedFilled DEF ShownSaid, Clients, Full
<1>4. Put(d.blocks, b, 0, Full(p)) /\ d.blocks \in Held /\ d.texts = c.texts /\ d.stop = c.stop
      /\ d.blocks = With(b, 0, Full(p))
  BY <1>3, HeldPut, HeldWith DEF Filled
<1>5. d \in Clients
  BY <1>3, <1>4 DEF Clients, Filled
<1>6. /\ c.texts = <<>> /\ DOMAIN b \subseteq 0..(n - 2) /\ AtTheirPlace(b) /\ (one = <<>> => DOMAIN b = {})
  <2>1. n - 1 - 1 = n - 2
    OBVIOUS
  <2> QED
    BY <2>1 DEF ShownSaid
<1> HIDE DEF front, one, p, b, d
<1>7. more # <<>>
  BY <1>1, <1>2
<1>8. DOMAIN d.blocks \subseteq 0..(n - 1)
  <2>1. DOMAIN d.blocks = DOMAIN b \union {0}
    BY <1>4 DEF Put
  <2> QED
    BY <1>6, <2>1
<1>9. AtTheirPlace(d.blocks)
  <2>1. p \notin Calls
    BY <1>1 DEF Texts, Calls
  <2> QED
    BY <1>3, <1>4, <1>6, <2>1 DEF Put, AtTheirPlace
<1>10. ASSUME Orderly(more) PROVE Listed(d.blocks, n) = more
  <2>1. one = <<>>
    BY <1>1, <1>2, <1>10, OrderlyAppend
  <2>2. DOMAIN b = {}
    BY <1>6, <2>1
  <2>3. n \in Nat /\ n # 0
    OBVIOUS
  <2>4. Listed(With(b, 0, Full(p)), n) = <<p>>
    BY <1>1, <1>3, <2>2, <2>3, FilledFirst
  <2>5. Append(<<>>, p) = <<p>>
    OBVIOUS
  <2> QED
    BY <1>2, <1>4, <2>1, <2>4, <2>5
<1> HIDE DEF more
<1>11. ShownSaid(d, output, n)
  BY <1>4, <1>5, <1>6, <1>7, <1>8, <1>9, <1>10 DEF ShownSaid, more
<1> QED
  BY <1>11 DEF d, p

\* A call goes to the block of its own number.
LEMMA CallFilled ==
    ASSUME requests \in Nat, NEW output \in Seq(Functions), InNumber(output), NEW n \in 1..Len(output),
           output[n].type = "call", NEW c, ShownSaid(c, output, n - 1)
    PROVE  ShownSaid(Filled(c, n - 1, PartOf(output[n])), output, n)
<1> DEFINE x == output[n]
           m == n - 1
           front == Firsts(output, m)
           one == Said(front)
           more == Said(Firsts(output, n))
           p == PartOf(x)
           b == c.blocks
           d == Filled(c, m, p)
<1>0. output \in Seq(Outs) /\ m \in Nat /\ m + 1 = n
  BY DEF Functions
<1>1. /\ front \in Seq(Outs) /\ x \in Outs /\ Firsts(output, n) = Append(front, x)
      /\ p \in Calls /\ p \in Spoke /\ p.id = Id(n)
  <2>1. front \in Seq(Outs) /\ x \in Outs /\ Firsts(output, n) = Append(front, x) /\ x.id = Id(n)
    BY <1>0, ItemNext
  <2>2. p \in Calls /\ p \in Spoke /\ p = Call(x.id, x.tool)
    BY <2>1, OutPart
  <2> QED
    BY <2>1, <2>2 DEF Call
<1>2. more = Append(one, p) /\ one \in Seq(Spoke)
  BY <1>1, SaidAppend, SaidTyped
<1>3. c \in Clients /\ b \in Held /\ Full(p) \in Blks /\ Full(p).part = p
  BY <1>0, <1>1, PlacedFilled DEF ShownSaid, Clients, Full
<1>4. Put(d.blocks, b, m, Full(p)) /\ d.blocks \in Held /\ d.texts = c.texts /\ d.stop = c.stop
      /\ d.blocks = With(b, m, Full(p))
  <2>1. d.blocks = With(b, m, Full(p)) /\ d.texts = c.texts /\ d.stop = c.stop
    BY DEF Filled
  <2> DEFINE f == Full(p)
             e == d.blocks
             g == With(b, m, f)
  <2> HIDE DEF m, d, f, b
  <2>2. m \in Nat /\ f \in Blks /\ b \in Held
    BY <1>0, <1>3 DEF f
  <2>3. Put(g, b, m, f) /\ g \in Held
    BY <2>2, HeldPut, HeldWith
  <2> HIDE DEF g
  <2>4. e = g
    BY <2>1 DEF g, f
  <2> HIDE DEF e
  <2>5. Put(e, b, m, f) /\ e \in Held
    BY <2>3, <2>4
  <2> QED
    BY <2>1, <2>5 DEF e, f
<1>5. d \in Clients
  <2>1. d = [texts |-> c.texts, blocks |-> d.blocks, stop |-> c.stop]
    BY DEF Filled
  <2> HIDE DEF d
  <2> QED
    BY <1>3, <1>4, <2>1 DEF Clients
<1>6. /\ c.texts = <<>> /\ DOMAIN b \subseteq 0..(m - 1) /\ AtTheirPlace(b) /\ (Orderly(one) => Listed(b, m) = one)
  BY DEF ShownSaid
<1> HIDE DEF m, front, one, p, b, d
<1>7. more # <<>>
  BY <1>1, <1>2
<1>8. DOMAIN d.blocks \subseteq 0..(n - 1)
  <2>1. DOMAIN d.blocks = DOMAIN b \union {m}
    BY <1>4 DEF Put
  <2> QED
    BY <1>0, <1>6, <2>1
<1>9. AtTheirPlace(d.blocks)
  BY <1>0, <1>1, <1>3, <1>4, <1>6 DEF Put, AtTheirPlace
<1>10. ASSUME Orderly(more) PROVE Listed(d.blocks, n) = more
  <2>1. Orderly(one)
    BY <1>1, <1>2, <1>10, OrderlyAppend
  <2>4. Listed(With(b, m, Full(p)), m + 1) = Append(Listed(b, m), p)
    BY <1>0, <1>1, <1>3, <1>6, FilledBehind
  <2> QED
    BY <1>0, <1>2, <1>4, <1>6, <2>1, <2>4
<1> HIDE DEF more
<1>11. ShownSaid(d, output, n)
  BY <1>4, <1>5, <1>6, <1>7, <1>8, <1>9, <1>10 DEF ShownSaid, more
<1> QED
  BY <1>11 DEF d, p, m

\* Reasoning goes nowhere.
LEMMA ReasoningUnfilled ==
    ASSUME requests \in Nat, NEW output \in Seq(Functions), NEW n \in 1..Len(output),
           output[n].type = "reasoning", NEW c, ShownSaid(c, output, n - 1)
    PROVE  ShownSaid(c, output, n)
<1> DEFINE x == output[n]
           m == n - 1
           front == Firsts(output, m)
           one == Said(front)
           more == Said(Firsts(output, n))
           b == c.blocks
<1>0. output \in Seq(Outs) /\ m \in Nat /\ m <= n /\ n \in Nat
  BY DEF Functions
<1>1. front \in Seq(Outs) /\ x \in Outs /\ Firsts(output, n) = Append(front, x)
  BY <1>0, FirstsGrow
<1>2. more = one
  BY <1>1, SaidAppend
<1>3. b \in Held /\ DOMAIN b \subseteq 0..(m - 1)
  BY DEF ShownSaid, Clients
<1> HIDE DEF b, one, more
<1>4. Listed(b, n) = Listed(b, m)
  <2> HIDE DEF m
  <2> QED
    BY <1>0, <1>3, ListedBeyond
<1>5. DOMAIN b \subseteq 0..(n - 1)
  BY <1>3
<1> QED
  BY <1>2, <1>4, <1>5 DEF ShownSaid, b, one, more

\* All the items of a turn.
LEMMA TurnIsShown ==
    ASSUME requests \in Nat, NEW output \in Seq(Functions), InNumber(output), NEW types \in Orders
    PROVE  /\ ShownSaid(Shown(Begun(output, types, Len(output))), output, Len(output))
           /\ ShownSaid(Shown(Closed(output, types, Len(output))), output, Len(output))
<1> DEFINE N == Len(output)
           G == {x \in (0..N) \X Seq(Live) : ShownSaid(Shown(x[2]), output, x[1])}
<1>0. N \in Nat /\ DOMAIN output = 1..N /\ output \in Seq(Outs)
  BY DEF Functions
<1>1. \A n \in 0..N : \A events \in Seq(Live) : ShownSaid(Shown(events), output, n) => <<n, events>> \in G
  OBVIOUS
<1>2. \A n, events : <<n, events>> \in G => ShownSaid(Shown(events), output, n)
  OBVIOUS
<1> HIDE DEF G
<1>3. Opens(G)
  <2>1. Shown(<<Created>>) = NewClient /\ <<Created>> \in Seq(Live)
    <3>1. Created \in Live /\ Created.type = "created"
      BY CreatedTyped DEF Created, Event
    <3>2. Append(<<>>, Created) = <<Created>> /\ <<>> \in Seq(Live)
      OBVIOUS
    <3> QED
      BY <3>1, <3>2, LiveShown, ShownNothing
  <2>2. Said(Firsts(output, 0)) = <<>>
    BY <1>0, FirstsEnds, SaidNothing
  <2>3. NewClient \in Clients /\ NewClient.blocks = <<>> /\ NewClient.texts = <<>>
    BY NewClientTyped DEF NewClient
  <2>4. NewClient.blocks \in Held /\ Listed(NewClient.blocks, 0) = <<>>
    <3>1. NewClient.blocks \in Held
      BY <2>3 DEF Clients
    <3> QED
      BY <3>1, ListedGrows
  <2>5. DOMAIN NewClient.blocks = {} /\ AtTheirPlace(NewClient.blocks)
    BY <2>3 DEF AtTheirPlace
  <2>6. ShownSaid(NewClient, output, 0)
    BY <2>2, <2>3, <2>4, <2>5 DEF ShownSaid
  <2>7. 0 \in 0..N
    BY <1>0
  <2>8. ShownSaid(Shown(<<Created>>), output, 0)
    BY <2>1, <2>6
  <2>9. <<0, <<Created>>>> \in G
    BY <1>1, <2>1, <2>7, <2>8
  <2> QED
    BY <2>9 DEF Opens
<1>4. Recounts(G, output, types)
  <2> SUFFICES ASSUME NEW n \in 1..N, NEW base \in Seq(Live), <<n - 1, base>> \in G
               PROVE  <<n, base \o Burst(output, types, n)>> \in G
    BY DEF Recounts
  <2> DEFINE x == output[n]
             c == Shown(base)
             more == base \o Burst(output, types, n)
             d == Shown(more)
  <2>1. ShownSaid(c, output, n - 1) /\ n \in DOMAIN output /\ n \in 0..N
    BY <1>0, <1>2
  <2>2. /\ more \in Seq(Live)
        /\ Shows(x) => d = Filled(c, PlaceOf(x, n - 1), PartOf(x))
        /\ ~Shows(x) => d = c
    BY <1>0, <2>1, BurstFills
  <2>3. x \in Functions /\ x.type \in {"message", "call", "reasoning"}
    BY <1>0, <2>1, OutTyped
  <2> HIDE DEF more, d, c
  <2>4. ShownSaid(d, output, n)
    <3>1. CASE x.type = "message"
      <4>1. d = Filled(c, 0, PartOf(x))
        BY <2>2, <3>1 DEF Shows, PlaceOf
      <4> QED
        BY <2>1, <3>1, <4>1, TextFilled
    <3>2. CASE x.type = "call"
      <4>1. x.tool.kind = "function"
        BY <2>3, <3>2 DEF Functions
      <4>2. d = Filled(c, n - 1, PartOf(x))
        BY <2>2, <3>2, <4>1 DEF Shows, PlaceOf, IsFunctionCall
      <4> QED
        BY <2>1, <3>2, <4>2, CallFilled
    <3>3. CASE x.type = "reasoning"
      <4>1. d = c
        BY <2>2, <3>3 DEF Shows, IsFunctionCall
      <4> QED
        BY <2>1, <3>3, <4>1, ReasoningUnfilled
    <3> QED
      BY <2>3, <3>1, <3>2, <3>3
  <2> QED
    BY <1>1, <2>1, <2>2, <2>4 DEF more, d
<1>5. Closes(G, output)
  <2> SUFFICES ASSUME NEW n \in 1..N, NEW base \in Seq(Live), <<N, base>> \in G
               PROVE  <<N, base \o Burst(output, <<"done">>, n)>> \in G
    BY DEF Closes
  <2>1. ShownSaid(Shown(base), output, N) /\ n \in DOMAIN output /\ N \in 0..N
    BY <1>0, <1>2
  <2>2. /\ base \o Burst(output, <<"done">>, n) \in Seq(Live)
        /\ Shown(base \o Burst(output, <<"done">>, n)) = Shown(base)
    BY <1>0, <2>1, DoneShows
  <2> QED
    BY <1>1, <2>1, <2>2
<1> HIDE DEF N
<1>6. /\ <<Len(output), Begun(output, types, Len(output))>> \in G
      /\ <<Len(output), Closed(output, types, Len(output))>> \in G
  BY <1>0, <1>3, <1>4, <1>5, StreamTold DEF N
<1> QED
  BY <1>2, <1>6
-----------------------------------------------------------------------------
(* A Messages stream delivers what was said.                                *)

\* A Messages client that is told of the end has what the blocks show.
LEMMA EndShown ==
    ASSUME MaxParts \in Nat, requests \in Nat, NEW output \in Seq(Functions), NEW finish \in Finishes,
           NEW base \in Seq(Live), Whole(Shown(base)), ShownSaid(Shown(base), output, Len(output)),
           Len(output) <= MaxParts, NEW ev, ev = Append(base, Terminal(output, finish))
    PROVE  /\ Rising(AnthropicStream(ev).parts, Id(MaxParts))
           /\ Orderly(Said(output)) => AnthropicStream(ev).parts = Said(output)
           /\ AnthropicStream(ev).stop
                 = IF CallsOf(Said(output)) # <<>> THEN "calls" ELSE IF Status(finish) = "incomplete" THEN "length" ELSE "end"
<1> DEFINE last == Terminal(output, finish)
           stop == StopReason(output, Status(finish))
           f == Frame("message_stop", 0, NoTool, stop)
           c == Shown(base)
           N == Len(output)
<1>0. output \in Seq(Outs) /\ N \in Nat
  BY DEF Functions
<1>1. last \in Happenings /\ last.type = "terminal" /\ last.output = output /\ last.outcome = Status(finish)
  <2>1. Status(finish) \in {"completed", "incomplete", "filtered"}
    BY DEF Finishes, Status
  <2>2. last \in Ends
    BY <1>0, <2>1 DEF Terminal, Event, Ends
  <2> QED
    BY <2>2 DEF Terminal, Event, Happenings
<1>2. base \in Seq(Happenings) /\ ev \in Seq(Happenings)
  <2>1. base \in Seq(Happenings)
    BY DEF Happenings
  <2> HIDE DEF last
  <2>2. Append(base, last) \in Seq(Happenings)
    BY <1>1, <2>1
  <2> QED
    BY <2>1, <2>2 DEF last
<1>3. AnthropicFrames(last) = <<f>>
  BY <1>1, FramesOf
<1>4. f \in AFrames /\ f.type = "message_stop" /\ f.stop = stop
  <2>1. stop \in Stops
    BY DEF StopReason, Stops
  <2> HIDE DEF stop
  <2> QED
    BY <2>1 DEF Frame, AFrames, Marks
<1>5. stop = IF CallsOf(Said(output)) # <<>> THEN "calls" ELSE IF Status(finish) = "incomplete" THEN "length" ELSE "end"
  <2>1. HasFunctionCall(output) <=> CallsOf(Said(output)) # <<>>
    BY CallsSaid
  <2> QED
    BY <2>1 DEF StopReason
<1> HIDE DEF f, stop, last
<1>6. c \in Clients /\ Shown(ev) = ReceiveFrame(c, f)
  BY <1>1, <1>2, <1>3, <1>4, ShownIs, ShownAppend DEF last
<1>7. Shown(ev) = Stopped(c, stop) /\ Shown(ev) \in Clients /\ AnthropicStream(ev) = Received(Shown(ev))
  BY <1>2, <1>4, <1>6, ShownIs, FrameReceived DEF AnthropicStream
<1>8. Whole(Shown(ev)) /\ Shown(ev).texts = <<>> /\ Shown(ev).blocks = c.blocks /\ Shown(ev).stop = stop
  BY <1>7 DEF ShownSaid, Whole, Stopped
<1> DEFINE b == c.blocks
<1>9. b \in Held /\ DOMAIN b \subseteq 0..(N - 1) /\ AtTheirPlace(b) /\ (Orderly(Said(Firsts(output, N))) => Listed(b, N) = Said(Firsts(output, N)))
  BY DEF ShownSaid, Clients
<1>10. Firsts(output, N) = output
  BY <1>0, FirstsEnds
<1> HIDE DEF c, b, N
<1>11. AnthropicStream(ev).parts = <<>> \o Listed(b, MaxParts) /\ AnthropicStream(ev).stop = stop
  BY <1>7, <1>8, ReceivedIs DEF b
<1>12. <<>> \o Listed(b, MaxParts) = Listed(b, MaxParts)
  <2>1. Listed(b, MaxParts) \in Seq(Spoke)
    BY <1>9, ListedGrows
  <2> DEFINE l == Listed(b, MaxParts)
  <2> HIDE DEF l
  <2> QED
    BY <2>1 DEF l
<1>13. Listed(b, MaxParts) = Listed(b, N)
  BY <1>0, <1>9, ListedBeyond DEF N
<1>14. Rising(Listed(b, MaxParts), Id(MaxParts))
  BY <1>9, ListedRises
<1> QED
  BY <1>5, <1>9, <1>10, <1>11, <1>12, <1>13, <1>14

\* A Messages client that is told a stream has ended has the turn, if its blocks were not mixed up.
LEMMA AnthropicStreamDelivers ==
    ASSUME MaxParts \in Nat, AnswerDue, route.api = "messages", NEW turn \in Turns,
           NEW manner \in {"each", "late", "twice"}, NEW finish \in Finishes,
           NEW cut \in Nat, cut < Len(Events(turn, manner, finish)),
           AnthropicStream(StreamedTo(turn, manner, finish, cut)).stop # None
    PROVE  /\ InOrder(AnthropicStream(StreamedTo(turn, manner, finish, cut)))
           /\ Orderly(Spoken(turn)) => Delivers(AnthropicStream(StreamedTo(turn, manner, finish, cut)), Spoken(turn), finish = "length")
<1> DEFINE ev == StreamedTo(turn, manner, finish, cut)
           output == Output(turn)
<1>0. /\ TurnTyped(turn) /\ output \in Seq(Functions) /\ output \in Seq(Outs) /\ InNumber(output)
      /\ Len(output) <= MaxParts /\ Spoken(turn) = Said(output)
  <2>1. TurnTyped(turn) /\ output \in Seq(Functions) /\ output \in Seq(Outs) /\ InNumber(output)
        /\ Len(output) <= MaxParts /\ Spoken(turn) = Said(Utterance(output))
    BY TurnSays
  <2> HIDE DEF output
  <2>2. Utterance(output) = output
    BY <2>1, UtteranceTyped
  <2> QED
    BY <2>1, <2>2
<1>1. requests \in Nat /\ ToolsTyped
  BY DEF AnswerDue
<1> DEFINE Whereto(types, last, base) ==
              /\ \/ base = Begun(output, types, Len(output))
                 \/ base = Closed(output, types, Len(output))
              /\ last = Terminal(output, finish)
              /\ ev = Append(base, last)
<1>2. ev \in Seq(Live) \/ \E types \in Orders, last \in Ends, base \in Seq(Live) : Whereto(types, last, base)
  <2>1. TurnTyped(turn)
    BY <1>0
  <2> QED
    BY <1>1, <2>1, StreamIs, SMTT(60)
<1> HIDE DEF ev
<1>3. ev \notin Seq(Live)
  <2> SUFFICES ASSUME ev \in Seq(Live) PROVE FALSE
    OBVIOUS
  <2>1. ev \in Seq(Happenings)
    BY DEF Happenings
  <2>2. AnthropicStream(ev).stop = Shown(ev).stop
    BY <2>1, ShownIs DEF AnthropicStream, Received
  <2> QED
    BY <2>2, ShownUnended DEF ev
<1>4. PICK types \in Orders, last \in Ends, base \in Seq(Live) : Whereto(types, last, base)
  BY <1>2, <1>3
<1>5. ShownWhole(base) /\ ShownSaid(Shown(base), output, Len(output))
  BY <1>0, <1>1, <1>4, TurnShown, TurnIsShown
<1>6. ev = Append(base, Terminal(output, finish))
  BY <1>4
<1> HIDE DEF output
<1>7. /\ Rising(AnthropicStream(ev).parts, Id(MaxParts))
      /\ Orderly(Said(output)) => AnthropicStream(ev).parts = Said(output)
      /\ AnthropicStream(ev).stop
            = IF CallsOf(Said(output)) # <<>> THEN "calls" ELSE IF Status(finish) = "incomplete" THEN "length" ELSE "end"
  BY <1>0, <1>1, <1>5, <1>6, EndShown DEF ShownWhole
<1>8. InOrder(AnthropicStream(ev))
  BY <1>7 DEF InOrder
<1>9. Orderly(Said(output)) => Delivers(AnthropicStream(ev), Said(output), finish = "length")
  <2> DEFINE received == AnthropicStream(ev)
             words == Said(output)
  <2>1. received.stop \in EndingsOf(words, finish = "length")
    <3> HIDE DEF words
    <3>1. received.stop = IF CallsOf(words) # <<>> THEN "calls" ELSE IF Status(finish) = "incomplete" THEN "length" ELSE "end"
      BY <1>7 DEF words
    <3> HIDE DEF received
    <3> QED
      BY <3>1, EndingTold
  <2>2. route.api # "chat" /\ (Orderly(words) => received.parts = words)
    BY <1>7
  <2> HIDE DEF received
  <2> QED
    BY <1>0, <2>1, <2>2, SaidDelivers DEF received
<1> QED
  BY <1>0, <1>8, <1>9 DEF ev
-----------------------------------------------------------------------------
(* All the events of an item, to a chat client.                             *)

\* A call that is announced, to a client that has N calls.
LEMMA CallNumbered ==
    ASSUME NEW s \in Relays, NEW n \in Nat, Tally(s, n), NEW p \in Calls
    PROVE  LET N == Cardinality(DOMAIN s.a.calls)
               t == Passed(Numbers(s.a, n), Placed(s.c, N, p))
           IN  /\ N \in Nat /\ N \notin DOMAIN s.c.blocks /\ t \in Relays
               /\ Numbering(s.a.calls, n)[n] = N
               /\ Numbers(t.a, n) = t.a /\ Numbering(t.a.calls, n)[n] = N /\ t.a.calls[n] = N
               /\ N \in DOMAIN t.c.blocks
               /\ Passed(t.a, t.c) = t
               /\ Grown(t.c, N, p.id) = Filled(s.c, N, p)
               /\ t.a = Numbers(s.a, n) /\ t.c = Placed(s.c, N, p)
<1> DEFINE a == s.a
           c == s.c
           calls == a.calls
           N == Cardinality(DOMAIN calls)
           more == Numbering(calls, n)
           t == Passed(Numbers(a, n), Placed(c, N, p))
<1>1. a \in Adapters /\ c \in Clients /\ calls \in Numbered
  BY DEF Relays, Adapters
<1>2. n \notin DOMAIN calls /\ DOMAIN c.blocks = 0..(N - 1)
  BY DEF Tally
<1>3. p \in Spoke
  BY DEF Spoke
<1> HIDE DEF a, c, calls
<1>4. N \in Nat /\ more[n] = N /\ more \in Numbered /\ n \in DOMAIN more
  BY <1>1, <1>2, NumberedMore
<1>5. N \notin DOMAIN c.blocks
  <2> HIDE DEF N
  <2> QED
    BY <1>2, <1>4
<1>6. Numbers(a, n) \in Adapters /\ Numbers(a, n).calls = more /\ Numbers(a, n).sawCall = TRUE
      /\ Numbers(a, n).completed = a.completed
  BY <1>1, NumbersTyped DEF Numbers, calls
<1> HIDE DEF N, more
<1>7. Placed(c, N, p) \in Clients /\ N \in DOMAIN Placed(c, N, p).blocks
      /\ Grown(Placed(c, N, p), N, p.id) = Filled(c, N, p)
  BY <1>1, <1>3, <1>4, PlacedFilled
<1> DEFINE b == Numbers(a, n)
           d == Placed(c, N, p)
<1>8. Numbering(b.calls, n) = more /\ b = [completed |-> a.completed, sawCall |-> TRUE, calls |-> more]
  BY <1>4, <1>6 DEF Numbering, Numbers, calls, more
<1>9. Numbers(b, n) = b
  BY <1>8 DEF Numbers
<1> HIDE DEF b, d
<1>10. t \in Relays /\ t.a = b /\ t.c = d /\ Passed(t.a, t.c) = t
  BY <1>6, <1>7, PassedTyped DEF b, d
<1> HIDE DEF t
<1>11. /\ N \in Nat /\ N \notin DOMAIN c.blocks /\ t \in Relays /\ more[n] = N
       /\ Numbers(t.a, n) = t.a /\ Numbering(t.a.calls, n)[n] = N /\ t.a.calls[n] = N
       /\ N \in DOMAIN t.c.blocks /\ Passed(t.a, t.c) = t /\ Grown(t.c, N, p.id) = Filled(c, N, p)
       /\ t.a = Numbers(a, n) /\ t.c = Placed(c, N, p)
  BY <1>4, <1>5, <1>6, <1>7, <1>8, <1>9, <1>10 DEF b, d
<1> QED
  BY <1>11 DEF t, N, more, calls, a, c

\* All the events of one item, to a chat client.
LEMMA BurstPasses ==
    ASSUME NEW output \in Seq(Outs), NEW types \in Orders, NEW k \in DOMAIN output, NEW base \in Seq(Live),
           Tally(Relayed(base), k - 1)
    PROVE  LET x == output[k]
               s == Relayed(base)
               d == Relayed(base \o Burst(output, types, k))
           IN  /\ s \in Relays
               /\ base \o Burst(output, types, k) \in Seq(Live)
               /\ x.type = "message" => d = Passed(s.a, Heard(s.c, PartOf(x)))
               /\ IsFunctionCall(x) => d = Passed(Numbers(s.a, k - 1),
                                                  Filled(s.c, Cardinality(DOMAIN s.a.calls), PartOf(x)))
               /\ ~Shows(x) => d = s
<1> DEFINE x == output[k]
           m == k - 1
           p == PartOf(x)
           s == Relayed(base)
           N == Cardinality(DOMAIN s.a.calls)
           t == Passed(Numbers(s.a, m), Placed(s.c, N, p))
           full == Passed(Numbers(s.a, m), Filled(s.c, N, p))
           text == Passed(s.a, Heard(s.c, p))
           added == EventOf(output, "added", k)
           delta == EventOf(output, "delta", k)
           done  == EventOf(output, "done", k)
           one == Append(base, added)
           two == Append(one, added)
           B(u) == base \o Burst(output, u, k)
<1>0. x \in Outs /\ m \in Nat /\ x.type \in {"message", "call", "reasoning"}
  <2>1. x \in Outs /\ m \in Nat
    OBVIOUS
  <2> QED
    BY <2>1, OutTyped
<1>1. added \in Live /\ delta \in Live /\ done \in Live
  BY LiveTyped
<1>2. /\ added.type = "added" /\ added.item = x /\ added.index = m
      /\ delta.type = "delta" /\ delta.item = x /\ delta.index = m
      /\ done.type = "done" /\ done.item = x /\ done.index = m
  BY DEF EventOf, Event
<1>3. /\ B(<<"added", "delta">>) = Append(one, delta)
      /\ B(<<"added", "delta", "done">>) = Append(Append(one, delta), done)
      /\ B(<<"added", "added", "delta", "done">>) = Append(Append(two, delta), done)
  BY BurstIs
<1>4. Tally(s, m)
  OBVIOUS
<1> HIDE DEF added, delta, done, x, p, m, s, t, one, two, full, text, N
<1>5. ASSUME NEW events \in Seq(Live), NEW e \in {added, delta, done}
      PROVE  Append(events, e) \in Seq(Live) /\ Relayed(events) \in Relays
             /\ Relayed(Append(events, e)) = Relay(Relayed(events), e)
  BY <1>1, LiveRelayed
<1>6. /\ one \in Seq(Live) /\ two \in Seq(Live)
      /\ s \in Relays /\ Relayed(one) = Relay(s, added) /\ Relayed(two) = Relay(Relay(s, added), added)
  BY <1>5 DEF one, two, s
\* What is left is to follow the events, the same whether or not one is repeated.
<1>7. ASSUME NEW r, Relayed(one) = Relayed(two), Relay(Relayed(one), delta) = r, Relay(r, done) = r
      PROVE  base \o Burst(output, types, k) \in Seq(Live) /\ Relayed(base \o Burst(output, types, k)) = r
  <2>1. ASSUME NEW events \in {one, two}
        PROVE  /\ Append(events, delta) \in Seq(Live) /\ Relayed(Append(events, delta)) = r
               /\ Append(Append(events, delta), done) \in Seq(Live) /\ Relayed(Append(Append(events, delta), done)) = r
    <3>1. events \in Seq(Live) /\ Relayed(events) = Relayed(one)
      BY <1>6, <1>7
    <3>2. Append(events, delta) \in Seq(Live) /\ Relayed(Append(events, delta)) = r
      BY <1>5, <1>7, <3>1
    <3> QED
      BY <1>5, <1>7, <3>2
  <2> QED
    BY <1>3, <2>1 DEF Orders
<1>8. \A r \in Relays : Relay(r, done) = r
  BY <1>1, <1>2, QuietEvents
<1>9. CASE x.type = "message"
  <2>1. ~IsFunctionCall(x)
    BY <1>9 DEF IsFunctionCall
  <2>2. Relay(s, added) = s
    BY <1>1, <1>2, <1>6, <2>1, QuietEvents
  <2>3. Relay(s, delta) = text /\ p \in Texts
    BY <1>1, <1>2, <1>6, <1>9, RelayedText DEF text, p
  <2>4. text \in Relays
    <3>1. s.a \in Adapters /\ s.c \in Clients
      BY <1>6 DEF Relays
    <3>2. Heard(s.c, p) \in Clients
      BY <2>3, <3>1, ClientsTyped
    <3> QED
      BY <3>1, <3>2, PassedTyped DEF text
  <2>5. base \o Burst(output, types, k) \in Seq(Live) /\ Relayed(base \o Burst(output, types, k)) = text
    BY <1>6, <1>7, <1>8, <2>2, <2>3, <2>4
  <2> QED
    BY <1>6, <1>9, <2>1, <2>5 DEF text, p, x, s, Shows
<1>10. CASE ~Shows(x)
  <2>1. ~IsFunctionCall(x) /\ x.type # "message"
    BY <1>10 DEF Shows
  <2>2. Relay(s, added) = s
    BY <1>1, <1>2, <1>6, <2>1, QuietEvents
  <2>3. Relay(s, delta) = s
    <3>1. delta \in Happenings
      BY <1>1, LiveIs
    <3> QED
      BY <1>2, <1>6, <1>10, <3>1, RelayedQuiet
  <2>4. base \o Burst(output, types, k) \in Seq(Live) /\ Relayed(base \o Burst(output, types, k)) = s
    BY <1>6, <1>7, <1>8, <2>2, <2>3
  <2> QED
    BY <1>6, <2>1, <2>4 DEF x, s
<1>11. CASE IsFunctionCall(x)
  <2>0. p \in Calls
    BY <1>1, <1>2, <1>6, <1>11, RelayedCall DEF p
  <2>1. /\ N \in Nat /\ N \notin DOMAIN s.c.blocks /\ t \in Relays /\ Numbering(s.a.calls, m)[m] = N
        /\ Numbers(t.a, m) = t.a /\ Numbering(t.a.calls, m)[m] = N /\ t.a.calls[m] = N
        /\ N \in DOMAIN t.c.blocks /\ Passed(t.a, t.c) = t /\ Grown(t.c, N, p.id) = Filled(s.c, N, p)
        /\ t.a = Numbers(s.a, m) /\ t.c = Placed(s.c, N, p)
    BY <1>0, <1>4, <1>6, <2>0, CallNumbered DEF N, t
  <2>2. Relay(s, added) = t
    <3>1. Relay(s, added) = LET i == Numbering(s.a.calls, m)[m]
                            IN  Passed(Numbers(s.a, m), IF i \in DOMAIN s.c.blocks THEN s.c ELSE Placed(s.c, i, p))
      BY <1>1, <1>2, <1>6, <1>11, RelayedCall DEF p
    <3> QED
      BY <2>1, <3>1 DEF t
  <2>3. Relay(t, added) = t
    <3>1. Relay(t, added) = LET i == Numbering(t.a.calls, m)[m]
                            IN  Passed(Numbers(t.a, m), IF i \in DOMAIN t.c.blocks THEN t.c ELSE Placed(t.c, i, p))
      BY <1>1, <1>2, <1>11, <2>1, RelayedCall DEF p
    <3> QED
      BY <2>1, <3>1
  <2>4. Relay(t, delta) = full
    <3>1. Relay(t, delta) = LET i == t.a.calls[m]
                            IN  Passed(t.a, IF i \in DOMAIN t.c.blocks THEN Grown(t.c, i, p.id) ELSE t.c)
      BY <1>1, <1>2, <1>11, <2>1, RelayedCall DEF p
    <3> QED
      BY <2>1, <3>1 DEF full
  <2>5. full \in Relays
    BY <1>1, <2>1, <2>4, RelayTyped, LiveIs
  <2>6. base \o Burst(output, types, k) \in Seq(Live) /\ Relayed(base \o Burst(output, types, k)) = full
    BY <1>6, <1>7, <1>8, <2>2, <2>3, <2>4, <2>5
  <2>7. x.type # "message" /\ Shows(x)
    BY <1>11 DEF IsFunctionCall, Shows
  <2> QED
    BY <1>6, <2>6, <2>7 DEF full, x, m, s, N, p
<1> QED
  BY <1>9, <1>10, <1>11 DEF Shows, x

\* And the closing of one.
LEMMA DonePasses ==
    ASSUME NEW output \in Seq(Outs), NEW k \in DOMAIN output, NEW base \in Seq(Live)
    PROVE  base \o Burst(output, <<"done">>, k) \in Seq(Live) /\ Relayed(base \o Burst(output, <<"done">>, k)) = Relayed(base)
<1> DEFINE e == EventOf(output, "done", k)
<1>1. e \in Live /\ e.type = "done" /\ base \o Burst(output, <<"done">>, k) = Append(base, e)
  BY LiveTyped, BurstIs DEF EventOf, Event
<1> HIDE DEF e
<1>2. Append(base, e) \in Seq(Live) /\ Relayed(base) \in Relays /\ Relayed(Append(base, e)) = Relay(Relayed(base), e)
  BY <1>1, LiveRelayed
<1> QED
  BY <1>1, <1>2, QuietEvents
-----------------------------------------------------------------------------
(* A chat client fills its texts and calls with what was said.              *)

\* What a chat client has of the first n items of a stream.
RelaySaid(s, output, n) ==
    LET words == Said(Firsts(output, n))
        N     == Cardinality(DOMAIN s.a.calls)
    IN  /\ s \in Relays /\ Tally(s, n)
        /\ ~s.a.completed
        /\ s.a.sawCall => CallsOf(words) # <<>>
        /\ N \in 0..n
        /\ s.c.texts = TextsOf(words)
        /\ Listed(s.c.blocks, N) = CallsOf(words)

\* A text goes behind the texts.
LEMMA TextPassed ==
    ASSUME NEW output \in Seq(Functions), NEW n \in 1..Len(output), output[n].type = "message",
           NEW s, RelaySaid(s, output, n - 1)
    PROVE  RelaySaid(Passed(s.a, Heard(s.c, PartOf(output[n]))), output, n)
<1> DEFINE x == output[n]
           m == n - 1
           front == Firsts(output, m)
           more == Said(Firsts(output, n))
           p == PartOf(x)
           c == Heard(s.c, p)
           t == Passed(s.a, c)
           N == Cardinality(DOMAIN s.a.calls)
<1>0. output \in Seq(Outs)
  BY DEF Functions
<1>1. /\ front \in Seq(Outs) /\ x \in Outs /\ Firsts(output, n) = Append(front, x) /\ p \in Texts
  BY <1>0, FirstsGrow, OutPart
<1>2. TextsOf(more) = Append(TextsOf(Said(front)), p) /\ CallsOf(more) = CallsOf(Said(front))
  BY <1>1, SaidSorted
<1>3. /\ s \in Relays /\ s.a \in Adapters /\ s.c \in Clients /\ Tally(s, m) /\ ~s.a.completed
      /\ s.a.sawCall => CallsOf(Said(front)) # <<>>
      /\ N \in 0..m /\ s.c.texts = TextsOf(Said(front)) /\ Listed(s.c.blocks, N) = CallsOf(Said(front))
  BY DEF RelaySaid, Relays
<1>4. c \in Clients /\ c.blocks = s.c.blocks /\ c.texts = Append(s.c.texts, p)
  BY <1>1, <1>3, ClientsTyped DEF Heard
<1> HIDE DEF c, front, more, p
<1>5. t \in Relays /\ t.a = s.a /\ t.c = c
  BY <1>3, <1>4, PassedTyped
<1> HIDE DEF t, N
<1>6. Tally(t, n) /\ N \in 0..n
  <2>1. m <= n /\ n \in Nat /\ m \in Nat
    OBVIOUS
  <2>2. s.a.calls \in Numbered
    BY <1>3 DEF Adapters
  <2>3. \A y \in DOMAIN s.a.calls : y \in Nat
    BY <2>1, <2>2, NumberedMore
  <2>4. N \in 0..n
    <3> HIDE DEF m
    <3> QED
      BY <1>3, <2>1
  <2>5. \A y \in DOMAIN s.a.calls : y < n
    <3>1. \A y \in DOMAIN s.a.calls : y < m
      BY <1>3 DEF Tally
    <3> HIDE DEF m
    <3> QED
      BY <2>1, <2>3, <3>1
  <2>6. DOMAIN s.c.blocks = 0..(Cardinality(DOMAIN s.a.calls) - 1)
    BY <1>3 DEF Tally
  <2> QED
    BY <1>4, <1>5, <2>4, <2>5, <2>6 DEF Tally
<1>7. RelaySaid(t, output, n)
  BY <1>2, <1>3, <1>4, <1>5, <1>6 DEF RelaySaid, N, more
<1> QED
  BY <1>7 DEF t, c, p

\* A call goes behind the calls.
LEMMA CallPassed ==
    ASSUME NEW output \in Seq(Functions), NEW n \in 1..Len(output), output[n].type = "call",
           NEW s, RelaySaid(s, output, n - 1)
    PROVE  RelaySaid(Passed(Numbers(s.a, n - 1), Filled(s.c, Cardinality(DOMAIN s.a.calls), PartOf(output[n]))), output, n)
<1> DEFINE x == output[n]
           m == n - 1
           front == Firsts(output, m)
           more == Said(Firsts(output, n))
           p == PartOf(x)
           calls == s.a.calls
           N == Cardinality(DOMAIN calls)
           b == s.c.blocks
           a == Numbers(s.a, m)
           c == Filled(s.c, N, p)
           t == Passed(a, c)
<1>0. output \in Seq(Outs) /\ m \in Nat /\ m + 1 = n
  BY DEF Functions
<1>1. /\ front \in Seq(Outs) /\ x \in Outs /\ Firsts(output, n) = Append(front, x) /\ p \in Calls /\ p \in Spoke
  BY <1>0, FirstsGrow, OutPart
<1>2. TextsOf(more) = TextsOf(Said(front)) /\ CallsOf(more) = Append(CallsOf(Said(front)), p)
  BY <1>1, SaidSorted
<1>3. /\ s \in Relays /\ s.a \in Adapters /\ s.c \in Clients /\ Tally(s, m) /\ ~s.a.completed
      /\ s.a.sawCall => CallsOf(Said(front)) # <<>>
      /\ N \in 0..m /\ s.c.texts = TextsOf(Said(front)) /\ Listed(b, N) = CallsOf(Said(front))
  BY DEF RelaySaid, Relays
<1>4. calls \in Numbered /\ b \in Held
  BY <1>3 DEF Adapters, Clients
<1>5. (\A y \in DOMAIN calls : y < m) /\ DOMAIN b = 0..(N - 1)
  BY <1>3 DEF Tally
<1>6. m \notin DOMAIN calls
  BY <1>0, <1>5
<1> HIDE DEF front, more, p
<1>7. /\ a \in Adapters /\ a.calls = Numbering(calls, m) /\ a.completed = s.a.completed
      /\ DOMAIN a.calls = DOMAIN calls \union {m} /\ Cardinality(DOMAIN a.calls) = N + 1
  <2>1. a \in Adapters /\ a.calls = Numbering(calls, m) /\ a.completed = s.a.completed
    BY <1>0, <1>3, NumbersTyped DEF Numbers
  <2> DEFINE D == DOMAIN calls
  <2> HIDE DEF a, calls, m
  <2>2. DOMAIN Numbering(calls, m) = D \union {m} /\ Cardinality(D \union {m}) = Cardinality(D) + 1
    BY <1>0, <1>4, <1>6, NumberedMore
  <2> HIDE DEF D
  <2> QED
    BY <2>1, <2>2 DEF D
<1> HIDE DEF calls, a, N, b, m
<1>8. N \in Nat
  BY <1>0, <1>3
<1>9. /\ c.texts = s.c.texts /\ c.stop = s.c.stop /\ c.blocks = With(b, N, Full(p)) /\ Full(p) \in Blks
  BY <1>1, <1>3, <1>8, PlacedFilled DEF Filled, b
<1>10. c.blocks \in Held /\ DOMAIN c.blocks = 0..N
  <2> DEFINE f == Full(p)
             g == With(b, N, f)
  <2> HIDE DEF f
  <2>1. g \in Held /\ DOMAIN g = DOMAIN b \union {N}
    BY <1>4, <1>8, <1>9, HeldWith DEF f
  <2>2. c.blocks = g
    BY <1>9 DEF f
  <2> HIDE DEF g
  <2>3. DOMAIN g = 0..N
    BY <1>5, <1>8, <2>1
  <2> QED
    BY <2>1, <2>2, <2>3
<1>11. Listed(c.blocks, N + 1) = Append(Listed(b, N), p)
  <2>1. DOMAIN b \subseteq 0..(N - 1)
    BY <1>5
  <2> QED
    BY <1>1, <1>4, <1>8, <1>9, <2>1, FilledBehind
<1>12. c \in Clients
  <2>1. c = [texts |-> c.texts, blocks |-> c.blocks, stop |-> c.stop]
    BY DEF Filled
  <2> HIDE DEF c
  <2> QED
    BY <1>3, <1>9, <1>10, <2>1 DEF Clients
<1> HIDE DEF c
<1>13. t \in Relays /\ t.a = a /\ t.c = c
  BY <1>7, <1>12, PassedTyped
<1> HIDE DEF t
<1>14. Tally(t, n)
  <2>1. \A y \in DOMAIN a.calls : y < n
    <3>1. \A y \in DOMAIN calls : y \in Nat
      BY <1>4, NumberedMore, <1>0
    <3> QED
      BY <1>0, <1>5, <1>7, <3>1
  <2>2. N + 1 - 1 = N
    BY <1>8
  <2>3. DOMAIN c.blocks = 0..(Cardinality(DOMAIN a.calls) - 1)
    <3> DEFINE K == Cardinality(DOMAIN a.calls)
    <3>1. K = N + 1
      BY <1>7
    <3> HIDE DEF K
    <3>2. K - 1 = N
      BY <1>8, <3>1
    <3>3. 0..(K - 1) = 0..N
      BY <3>2
    <3> QED
      BY <1>10, <3>3 DEF K
  <2> QED
    BY <1>13, <2>1, <2>3 DEF Tally
<1>15. N + 1 \in 0..n
  BY <1>0, <1>3
<1>16. Append(CallsOf(Said(front)), p) # <<>>
  <2>1. Said(front) \in Seq(Parts)
    BY <1>1, SaidTyped
  <2>2. CallsOf(Said(front)) \in Seq(Calls)
    BY <2>1, PartsSorted
  <2> DEFINE one == CallsOf(Said(front))
  <2> HIDE DEF one
  <2> QED
    BY <1>1, <2>2 DEF one
<1>17. RelaySaid(t, output, n)
  BY <1>2, <1>3, <1>7, <1>9, <1>11, <1>13, <1>14, <1>15, <1>16 DEF RelaySaid, more
<1> QED
  BY <1>17 DEF t, c, a, p, m, N, calls

\* Reasoning goes nowhere.
LEMMA NothingPassed ==
    ASSUME NEW output \in Seq(Functions), NEW n \in 1..Len(output), output[n].type = "reasoning",
           NEW s, RelaySaid(s, output, n - 1)
    PROVE  RelaySaid(s, output, n)
<1> DEFINE x == output[n]
           m == n - 1
           front == Firsts(output, m)
           more == Said(Firsts(output, n))
           N == Cardinality(DOMAIN s.a.calls)
<1>0. output \in Seq(Outs) /\ m \in Nat /\ m <= n /\ n \in Nat
  BY DEF Functions
<1>1. /\ front \in Seq(Outs) /\ x \in Outs /\ Firsts(output, n) = Append(front, x)
  BY <1>0, FirstsGrow
<1>2. TextsOf(more) = TextsOf(Said(front)) /\ CallsOf(more) = CallsOf(Said(front))
  BY <1>1, SaidSorted
<1>3. Tally(s, n) /\ N \in 0..n
  <2>1. s.a.calls \in Numbered /\ Tally(s, m) /\ N \in 0..m
    BY DEF RelaySaid, Relays, Adapters
  <2>2. DOMAIN s.a.calls \in SUBSET Nat
    BY <1>0, <2>1, NumberedMore
  <2> HIDE DEF N
  <2> QED
    BY <1>0, <2>1, <2>2 DEF Tally
<1> HIDE DEF more, front
<1> QED
  BY <1>2, <1>3 DEF RelaySaid, more, front

\* All the items of a turn.
LEMMA TurnIsRelayed ==
    ASSUME NEW output \in Seq(Functions), NEW types \in Orders
    PROVE  /\ RelaySaid(Relayed(Begun(output, types, Len(output))), output, Len(output))
           /\ RelaySaid(Relayed(Closed(output, types, Len(output))), output, Len(output))
<1> DEFINE N == Len(output)
           G == {x \in (0..N) \X Seq(Live) : RelaySaid(Relayed(x[2]), output, x[1])}
<1>0. N \in Nat /\ DOMAIN output = 1..N /\ output \in Seq(Outs)
  BY DEF Functions
<1>1. \A n \in 0..N : \A events \in Seq(Live) : RelaySaid(Relayed(events), output, n) => <<n, events>> \in G
  OBVIOUS
<1>2. \A n, events : <<n, events>> \in G => RelaySaid(Relayed(events), output, n)
  OBVIOUS
<1> HIDE DEF G
<1>3. Opens(G)
  <2>1. Relayed(<<Created>>) = RelayStart /\ <<Created>> \in Seq(Live)
    <3>1. Created \in Live /\ Created.type = "created"
      BY CreatedTyped DEF Created, Event
    <3>2. Append(<<>>, Created) = <<Created>> /\ <<>> \in Seq(Live)
      OBVIOUS
    <3>3. Relayed(Append(<<>>, Created)) = Relay(RelayStart, Created) /\ Append(<<>>, Created) \in Seq(Live)
      BY <3>1, <3>2, LiveRelayed, RelayedNothing
    <3>4. Relay(RelayStart, Created) = RelayStart
      BY <3>1, QuietEvents, RelayStartTyped
    <3> QED
      BY <3>2, <3>3, <3>4
  <2>2. Said(Firsts(output, 0)) = <<>> /\ TextsOf(<<>>) = <<>> /\ CallsOf(<<>>) = <<>>
    BY <1>0, FirstsEnds, SaidNothing
  <2>3. /\ RelayStart \in Relays /\ DOMAIN RelayStart.a.calls = {} /\ RelayStart.c = NewClient
        /\ NewClient.blocks = <<>> /\ NewClient.texts = <<>> /\ NewClient \in Clients
    BY RelayStartTyped, NewClientTyped DEF NewClient
  <2>4. Cardinality({}) = 0 /\ 0..(0 - 1) = {} /\ DOMAIN <<>> = {}
    BY FS_EmptySet
  <2>5. Listed(<<>>, 0) = <<>>
    <3>1. <<>> \in Held
      BY <2>3 DEF Clients
    <3> QED
      BY <3>1, ListedGrows
  <2>6. ~RelayStart.a.completed /\ ~RelayStart.a.sawCall
    BY DEF RelayStart, NewChatStream
  <2>7. Tally(RelayStart, 0)
    BY <2>3, <2>4 DEF Tally
  <2>8. RelaySaid(RelayStart, output, 0)
    BY <2>2, <2>3, <2>4, <2>5, <2>6, <2>7 DEF RelaySaid
  <2>9. 0 \in 0..N
    BY <1>0
  <2>10. RelaySaid(Relayed(<<Created>>), output, 0)
    BY <2>1, <2>8
  <2>11. <<0, <<Created>>>> \in G
    BY <1>1, <2>1, <2>9, <2>10
  <2> QED
    BY <2>11 DEF Opens
<1>4. Recounts(G, output, types)
  <2> SUFFICES ASSUME NEW n \in 1..N, NEW base \in Seq(Live), <<n - 1, base>> \in G
               PROVE  <<n, base \o Burst(output, types, n)>> \in G
    BY DEF Recounts
  <2> DEFINE x == output[n]
             s == Relayed(base)
             more == base \o Burst(output, types, n)
             d == Relayed(more)
             text == Passed(s.a, Heard(s.c, PartOf(x)))
             full == Passed(Numbers(s.a, n - 1), Filled(s.c, Cardinality(DOMAIN s.a.calls), PartOf(x)))
  <2>1. RelaySaid(s, output, n - 1) /\ n \in DOMAIN output /\ n \in 0..N /\ Tally(s, n - 1)
    BY <1>0, <1>2 DEF RelaySaid
  <2>2. /\ more \in Seq(Live)
        /\ x.type = "message" => d = text
        /\ IsFunctionCall(x) => d = full
        /\ ~Shows(x) => d = s
    BY <1>0, <2>1, BurstPasses
  <2>3. x \in Functions /\ x.type \in {"message", "call", "reasoning"}
    BY <1>0, <2>1, OutTyped
  <2> HIDE DEF more, d, s, text, full
  <2>4. RelaySaid(d, output, n)
    <3>1. CASE x.type = "message"
      <4>1. RelaySaid(text, output, n)
        BY <2>1, <3>1, TextPassed DEF text
      <4> QED
        BY <2>2, <3>1, <4>1
    <3>2. CASE x.type = "call"
      <4>1. IsFunctionCall(x)
        BY <2>3, <3>2 DEF Functions, IsFunctionCall
      <4>2. RelaySaid(full, output, n)
        BY <2>1, <3>2, CallPassed DEF full
      <4> QED
        BY <2>2, <4>1, <4>2
    <3>3. CASE x.type = "reasoning"
      <4>1. d = s
        BY <2>2, <3>3 DEF Shows, IsFunctionCall
      <4> QED
        BY <2>1, <3>3, <4>1, NothingPassed
    <3> QED
      BY <2>3, <3>1, <3>2, <3>3
  <2> QED
    BY <1>1, <2>1, <2>2, <2>4 DEF more, d
<1>5. Closes(G, output)
  <2> SUFFICES ASSUME NEW n \in 1..N, NEW base \in Seq(Live), <<N, base>> \in G
               PROVE  <<N, base \o Burst(output, <<"done">>, n)>> \in G
    BY DEF Closes
  <2>1. RelaySaid(Relayed(base), output, N) /\ n \in DOMAIN output /\ N \in 0..N
    BY <1>0, <1>2
  <2>2. /\ base \o Burst(output, <<"done">>, n) \in Seq(Live)
        /\ Relayed(base \o Burst(output, <<"done">>, n)) = Relayed(base)
    BY <1>0, <2>1, DonePasses
  <2> QED
    BY <1>1, <2>1, <2>2
<1> HIDE DEF N
<1>6. /\ <<Len(output), Begun(output, types, Len(output))>> \in G
      /\ <<Len(output), Closed(output, types, Len(output))>> \in G
  BY <1>0, <1>3, <1>4, <1>5, StreamTold DEF N
<1> QED
  BY <1>2, <1>6
-----------------------------------------------------------------------------
(* A stream delivers what was said.                                         *)

\* A chat client that is told of the end has the texts and then the calls.
LEMMA EndPassed ==
    ASSUME MaxParts \in Nat, NEW output \in Seq(Functions), Len(output) <= MaxParts, NEW finish \in Finishes,
           NEW base \in Seq(Live), Whole(Relayed(base).c), RelaySaid(Relayed(base), output, Len(output)),
           NEW ev, ev = Append(base, Terminal(output, finish)), ChatStream(ev).stop # None
    PROVE  /\ ChatStream(ev).parts = TextsOf(Said(output)) \o CallsOf(Said(output))
           /\ ChatStream(ev).stop = IF CallsOf(Said(output)) # <<>> THEN "calls" ELSE "end"
<1> DEFINE last == Terminal(output, finish)
           s == Relayed(base)
           r == Relayed(ev)
           stop == Ending(s.a, last)
           N == Cardinality(DOMAIN s.a.calls)
           b == s.c.blocks
<1>0. output \in Seq(Outs) /\ Len(output) \in Nat
  BY DEF Functions
<1>1. last \in Happenings /\ last \in Ends /\ last.output = output
  <2>1. Status(finish) \in {"completed", "incomplete", "filtered"}
    BY DEF Finishes, Status
  <2>2. last \in Ends
    BY <1>0, <2>1 DEF Terminal, Event, Ends
  <2> QED
    BY <2>2 DEF Terminal, Event, Happenings
<1>2. base \in Seq(Happenings) /\ ev \in Seq(Happenings)
  <2>1. base \in Seq(Happenings)
    BY DEF Happenings
  <2> HIDE DEF last
  <2>2. Append(base, last) \in Seq(Happenings)
    BY <1>1, <2>1
  <2> QED
    BY <2>1, <2>2 DEF last
<1>3. Firsts(output, Len(output)) = output
  BY <1>0, FirstsEnds
<1>4. /\ s \in Relays /\ s.c \in Clients /\ N \in 0..Len(output)
      /\ s.a.sawCall => CallsOf(Said(output)) # <<>>
      /\ s.c.texts = TextsOf(Said(output)) /\ Listed(b, N) = CallsOf(Said(output)) /\ DOMAIN b = 0..(N - 1)
  BY <1>3 DEF RelaySaid, Relays, Tally
<1>5. stop = IF CallsOf(Said(output)) # <<>> THEN "calls" ELSE "end"
  <2>1. stop = IF s.a.sawCall \/ HasFunctionCall(output) THEN "calls" ELSE "end"
    BY <1>1 DEF Ending
  <2> QED
    BY <1>4, <2>1, CallsSaid
<1> HIDE DEF s, N, b, last
<1>6. r = Relay(s, last) /\ r.c \in Clients /\ ChatStream(ev) = Received(r.c)
  BY <1>1, <1>2, RelayedIs, RelayedAppend DEF last, s
<1> HIDE DEF r, stop
<1>7. r.c = s.c \/ r.c = Stopped(s.c, stop)
  BY <1>1, <1>4, <1>6, RelayedEnd DEF stop
<1>8. r.c.texts = s.c.texts /\ r.c.blocks = b /\ (r.c = s.c \/ r.c.stop = stop)
  BY <1>7 DEF Stopped, b
<1>9. s.c.stop = None
  BY RelayedUnended DEF s
<1>10. Whole(r.c)
  BY <1>8 DEF Whole, s, b
<1>11. ChatStream(ev).parts = r.c.texts \o Listed(b, MaxParts) /\ ChatStream(ev).stop = r.c.stop
  BY <1>6, <1>8, <1>10, ReceivedIs
<1>12. Listed(b, MaxParts) = Listed(b, N)
  <2>1. b \in Held
    BY <1>4 DEF Clients, b
  <2>2. N \in Nat /\ N <= MaxParts /\ DOMAIN b \subseteq 0..(N - 1)
    BY <1>0, <1>4
  <2> QED
    BY <2>1, <2>2, ListedBeyond
<1>13. ChatStream(ev).stop = stop
  BY <1>8, <1>9, <1>11
<1> QED
  BY <1>4, <1>5, <1>8, <1>11, <1>12, <1>13

\* A chat client that is told a stream has ended has the turn.
LEMMA ChatStreamDelivers ==
    ASSUME MaxParts \in Nat, AnswerDue, route.api = "chat", route.stream, NEW turn \in Turns,
           NEW manner \in {"each", "late", "twice"}, NEW finish \in Finishes,
           NEW cut \in Nat, cut < Len(Events(turn, manner, finish)),
           ChatStream(StreamedTo(turn, manner, finish, cut)).stop # None
    PROVE  LET received == ChatStream(StreamedTo(turn, manner, finish, cut))
           IN  Delivers(received, Spoken(turn), finish = "length") /\ InOrder(received)
<1> DEFINE ev == StreamedTo(turn, manner, finish, cut)
           output == Output(turn)
<1>0. /\ TurnTyped(turn) /\ output \in Seq(Functions) /\ output \in Seq(Outs) /\ InNumber(output)
      /\ Len(output) <= MaxParts /\ Spoken(turn) = Said(output)
  <2>1. TurnTyped(turn) /\ output \in Seq(Functions) /\ output \in Seq(Outs) /\ InNumber(output)
        /\ Len(output) <= MaxParts /\ Spoken(turn) = Said(Utterance(output))
    BY TurnSays
  <2> HIDE DEF output
  <2>2. Utterance(output) = output
    BY <2>1, UtteranceTyped
  <2> QED
    BY <2>1, <2>2
<1>1. requests \in Nat /\ ToolsTyped
  BY DEF AnswerDue
<1> DEFINE Whereto(types, last, base) ==
              /\ \/ base = Begun(output, types, Len(output))
                 \/ base = Closed(output, types, Len(output))
              /\ last = Terminal(output, finish)
              /\ ev = Append(base, last)
<1>2. ev \in Seq(Live) \/ \E types \in Orders, last \in Ends, base \in Seq(Live) : Whereto(types, last, base)
  <2>1. TurnTyped(turn)
    BY <1>0
  <2> QED
    BY <1>1, <2>1, StreamIs, SMTT(60)
<1> HIDE DEF ev
<1>3. ev \notin Seq(Live)
  <2> SUFFICES ASSUME ev \in Seq(Live) PROVE FALSE
    OBVIOUS
  <2>1. ev \in Seq(Happenings)
    BY DEF Happenings
  <2>2. ChatStream(ev).stop = Relayed(ev).c.stop
    <3>1. \A c : Received(c).stop = c.stop
      BY DEF Received
    <3> QED
      BY <2>1, <3>1, RelayedIs
  <2> QED
    BY <2>2, RelayedUnended DEF ev
<1>4. PICK types \in Orders, last \in Ends, base \in Seq(Live) : Whereto(types, last, base)
  BY <1>2, <1>3
<1>5. ChatWhole(base, Len(output)) /\ RelaySaid(Relayed(base), output, Len(output))
  BY <1>0, <1>1, <1>4, TurnRelayed, TurnIsRelayed
<1>6. ev = Append(base, Terminal(output, finish)) /\ Whole(Relayed(base).c) /\ ChatStream(ev).stop # None
  BY <1>4, <1>5 DEF ChatWhole, RelayWhole, ev
<1> HIDE DEF output
<1>7. /\ ChatStream(ev).parts = TextsOf(Said(output)) \o CallsOf(Said(output))
      /\ ChatStream(ev).stop = IF CallsOf(Said(output)) # <<>> THEN "calls" ELSE "end"
  BY <1>0, <1>5, <1>6, EndPassed
<1>8. Delivers(ChatStream(ev), Said(output), finish = "length") /\ InOrder(ChatStream(ev))
  <2> DEFINE received == ChatStream(ev)
             words == Said(output)
  <2> HIDE DEF received, words
  <2>1. received.stop \in EndingsOf(words, finish = "length")
    BY <1>7, EndingTold DEF received, words
  <2>2. received.parts = TextsOf(words) \o CallsOf(words)
    BY <1>7 DEF received, words
  <2> QED
    BY <1>0, <2>1, <2>2, SaidDelivers DEF received, words
<1> QED
  BY <1>0, <1>8 DEF ev

\* What holds of an answer that the client is told has ended: its calls have
\* rising ids, and it is the turn unless blocks were mixed up.
Fine(received, words, cut) ==
    received.stop # None =>
        /\ InOrder(received)
        /\ (route.api = "messages" /\ route.stream => Orderly(words)) => Delivers(received, words, cut)

\* An answer that is streamed is fine, wherever it is cut.
LEMMA StreamDelivers ==
    ASSUME AnswerDue, NEW turn \in Turns, NEW finish \in Finishes, NEW manner \in {"each", "late", "twice"},
           NEW cut \in Nat, AnswerStreamed(turn, manner, finish, cut)
    PROVE  \E received : Answered(turn, finish, received) /\ Fine(received, Spoken(turn), finish = "length")
<1> DEFINE ev == StreamedTo(turn, manner, finish, cut)
           received == CASE route.api = "messages"  -> AnthropicStream(ev)
                         [] route.api = "chat"      -> ChatStream(ev)
                         [] route.api = "responses" ->
                                IF cut = 0 THEN [parts |-> ItemParts(Output(turn)), stop |-> Status(finish)]
                                ELSE Nothing
<1>0. RouteTyped /\ route \in Routes /\ MaxParts \in Nat
  BY ConversationAssumption DEF AnswerDue
<1>1. cut < Len(Events(turn, manner, finish)) /\ Answered(turn, finish, received) /\ route.stream
  BY DEF AnswerStreamed, StreamedTo
<1>2. CASE route.api = "messages"
  <2>1. received = AnthropicStream(ev)
    BY <1>2
  <2> HIDE DEF received
  <2>2. Fine(received, Spoken(turn), finish = "length")
    BY <1>0, <1>1, <1>2, <2>1, AnthropicStreamDelivers DEF Fine
  <2> QED
    BY <1>1, <2>2
<1>3. CASE route.api = "chat"
  <2>1. received = ChatStream(ev)
    BY <1>3
  <2> HIDE DEF received
  <2>2. Fine(received, Spoken(turn), finish = "length")
    BY <1>0, <1>1, <1>3, <2>1, ChatStreamDelivers DEF Fine
  <2> QED
    BY <1>1, <2>2
<1>4. CASE route.api = "responses" /\ cut = 0
  <2> DEFINE output == Output(turn)
  <2>0. received.stop = Status(finish)
    BY <1>4
  <2>1. received.parts = ItemParts(output) /\ route.via = "chat"
    BY <1>0, <1>4, ConversationAssumption
  <2>2. output \in Seq(Outs) /\ InNumber(output) /\ Len(output) <= MaxParts /\ Spoken(turn) = Said(output)
    <3>1. output \in Seq(Outs) /\ InNumber(output) /\ Len(output) <= MaxParts /\ Spoken(turn) = Said(Utterance(output))
      BY TurnSays
    <3> HIDE DEF output
    <3>2. Utterance(output) = output
      BY <1>4, <3>1, UtteranceTyped
    <3> QED
      BY <3>1, <3>2
  <2>3. ItemParts(output) = Said(output)
    BY <2>1, <2>2, ChatItems, ItemsAreSaid
  <2> HIDE DEF output, received
  <2>4. Delivers(received, Said(output), finish = "length") /\ InOrder(received)
    <3>1. received.stop \in EndingsOf(Said(output), finish = "length")
      BY <1>4, <2>0, EndingTold
    <3> QED
      BY <1>4, <2>1, <2>2, <2>3, <3>1, SaidDelivers
  <2> QED
    BY <1>1, <2>2, <2>4 DEF Fine
<1>5. CASE route.api = "responses" /\ cut # 0
  <2>1. received = Nothing
    BY <1>5
  <2> HIDE DEF received
  <2>2. Fine(received, Spoken(turn), finish = "length")
    BY <2>1 DEF Fine, Nothing
  <2> QED
    BY <1>1, <2>2
<1> QED
  BY <1>0, <1>2, <1>3, <1>4, <1>5 DEF RouteTyped, Apis
-----------------------------------------------------------------------------
(* Every answer delivers what was said.                                     *)

\* What is known of the answers, beside ConversationInv.
DeliveryInv ==
    /\ route \in Routes /\ tools \in ToolLists[route.api]
    /\ requests = 0 => phase = "compose"
    /\ phase \in {"asked", "answered"} /\ route.via = "chat" => Registered.ok
    /\ phase = "answered" => Fine(got, said, truncated)

\* In the state after a request an answer is due.
LEMMA DueWhenAsked ==
    ASSUME ConversationInv, DeliveryInv, phase = "asked"
    PROVE  AnswerDue
BY DEF ConversationInv, DeliveryInv, AnswerDue

\* Fine looks at the route and at the number of the request.
LEMMA FineLater ==
    ASSUME UNCHANGED <<route, requests>>, Fine(got', said', truncated')
    PROVE  Fine(got, said, truncated)'
<1>1. Id(0)' = Id(0) /\ Id(MaxParts)' = Id(MaxParts)
  BY DEF Id
<1>2. InOrder(got') => InOrder(got)'
  BY <1>1 DEF InOrder, Rising
<1>3. Delivers(got', said', truncated') => Delivers(got, said, truncated)'
  BY DEF Delivers, EndingsOf
<1> QED
  BY <1>2, <1>3 DEF Fine

\* Every answer is fine.
LEMMA AnswerIsFine ==
    ASSUME ConversationInv, DeliveryInv, phase = "asked", Answer
    PROVE  DeliveryInv'
<1>1. AnswerDue
  BY DueWhenAsked
<1>2. PICK turn \in Turns, finish \in Finishes :
         \/ AnswerWhole(turn, finish)
         \/ \E manner \in Manners, cut \in Breaks \union {0} : AnswerStreamed(turn, manner, finish, cut)
  BY DEF Answer
<1>3. \E received : Answered(turn, finish, received) /\ Fine(received, Spoken(turn), finish = "length")
  <2>1. CASE AnswerWhole(turn, finish)
    <3>1. PICK received : Answered(turn, finish, received) /\ Delivers(received, Spoken(turn), finish = "length") /\ InOrder(received)
      BY <1>1, <2>1, WholeDelivers
    <3> QED
      BY <3>1 DEF Fine
  <2>2. CASE \E manner \in Manners, cut \in Breaks \union {0} : AnswerStreamed(turn, manner, finish, cut)
    <3>1. PICK manner \in Manners, cut \in Breaks \union {0} : AnswerStreamed(turn, manner, finish, cut)
      BY <2>2
    <3>2. manner \in {"each", "late", "twice"} /\ cut \in Nat
      BY ConversationAssumption DEF Manners
    <3> QED
      BY <1>1, <3>1, <3>2, StreamDelivers
  <2> QED
    BY <1>2, <2>1, <2>2
<1>4. PICK received : Answered(turn, finish, received) /\ Fine(received, Spoken(turn), finish = "length")
  BY <1>3
<1>5. /\ got' = received /\ said' = Spoken(turn) /\ truncated' = (finish = "length") /\ phase' = "answered"
      /\ UNCHANGED <<route, tools, requests>>
  BY <1>4 DEF Answered
<1>6. Fine(got, said, truncated)'
  BY <1>4, <1>5, FineLater
<1>7. (Registered.ok)' <=> Registered.ok
  BY <1>5 DEF Registered
<1> QED
  BY <1>1, <1>5, <1>6, <1>7 DEF DeliveryInv, AnswerDue

\* Every step keeps what is known of the answers.
LEMMA NextDelivery ==
    ASSUME ConversationInv, DeliveryInv, [Next]_vars
    PROVE  DeliveryInv'
<1>1. CASE Ask
  <2>1. PICK messages : Request(messages)
    BY <1>1, AskTyped
  <2>2. /\ UNCHANGED <<route, tools>> /\ requests' = requests + 1 /\ phase' \in {"asked", "rejected", "badtools"}
        /\ phase' = "asked" /\ route.via = "chat" => Registered.ok
    BY <2>1 DEF Request
  <2>3. requests' # 0
    BY <2>2 DEF ConversationInv
  <2>4. (Registered.ok)' <=> Registered.ok
    BY <2>2 DEF Registered
  <2> QED
    BY <2>2, <2>3, <2>4 DEF DeliveryInv
<1>2. CASE Retry
  <2>1. UNCHANGED <<route, tools, requests>> /\ phase = "answered" /\ phase' = "asked"
    BY <1>2 DEF Retry
  <2>2. (Registered.ok)' <=> Registered.ok
    BY <2>1 DEF Registered
  <2> QED
    BY <2>1, <2>2 DEF DeliveryInv
<1>3. CASE phase = "asked" /\ Answer
  BY <1>3, AnswerIsFine
<1>4. CASE UNCHANGED vars
  <2>1. UNCHANGED <<route, tools, phase, said, truncated, got, requests>>
    BY <1>4 DEF vars
  <2>2. (Registered.ok)' <=> Registered.ok
    BY <2>1 DEF Registered
  <2>3. phase = "answered" => Fine(got, said, truncated)'
    <3> SUFFICES ASSUME phase = "answered" PROVE Fine(got, said, truncated)'
      OBVIOUS
    <3>1. Fine(got', said', truncated')
      BY <2>1 DEF DeliveryInv
    <3> QED
      BY <2>1, <3>1, FineLater
  <2> QED
    BY <2>1, <2>2, <2>3 DEF DeliveryInv
<1> QED
  BY <1>1, <1>2, <1>3, <1>4 DEF Next

\* Whoever is told that a turn has ended has the turn, whichever formats it went
\* through, whole or streamed, with events repeated or closed late.
THEOREM DeliveredAsSaidHolds == Spec => []DeliveredAsSaid
<1>1. Init => ConversationInv /\ DeliveryInv
  <2> SUFFICES ASSUME Init PROVE DeliveryInv
    BY InitConversation
  <2> QED
    BY DEF Init, DeliveryInv
<1>2. ConversationInv /\ DeliveryInv /\ [Next]_vars => ConversationInv' /\ DeliveryInv'
  BY NextConversation, NextDelivery
<1>3. ConversationInv /\ DeliveryInv => DeliveredAsSaid
  <2>1. Endings = EndingsOf(said, truncated)
    BY DEF Endings, EndingsOf
  <2> QED
    BY <2>1 DEF DeliveryInv, Fine, Orderly, Delivers, DeliveredAsSaid
<1> QED
  BY <1>1, <1>2, <1>3, PTL DEF Spec
-----------------------------------------------------------------------------
(* The calls and results of a conversation, and the rules they keep.        *)

\* The ids of the calls, and of the results, among lines; what waits for its result.
CallsIn(lines)   == {lines[i].id : i \in {k \in DOMAIN lines : lines[k].kind = "call"}}
ResultsIn(lines) == {lines[i].id : i \in {k \in DOMAIN lines : lines[k].kind = "result"}}
Waiting(lines)   == CallsIn(lines) \ ResultsIn(lines)

\* Lines that translate_input_items takes: no id is used twice, a result has its
\* call before it, and between a call and its result there are at most other
\* results and, right behind it, further calls.
CalledOnce(lines) ==
    \A i, j \in DOMAIN lines : lines[i].kind = "call" /\ lines[j].kind = "call" /\ lines[i].id = lines[j].id => i = j
AnsweredOnce(lines) ==
    \A i, j \in DOMAIN lines : lines[i].kind = "result" /\ lines[j].kind = "result" /\ lines[i].id = lines[j].id => i = j
AnsweredLater(lines) ==
    \A j \in DOMAIN lines : lines[j].kind = "result" =>
        \E i \in DOMAIN lines : i < j /\ lines[i].kind = "call" /\ lines[i].id = lines[j].id
AnsweredFirst(lines) ==
    \A i, j \in DOMAIN lines : i < j /\ lines[i].kind = "call" /\ lines[j].kind # "result" =>
        \/ \E k \in DOMAIN lines : k < j /\ lines[k].kind = "result" /\ lines[k].id = lines[i].id
        \/ lines[j].kind = "call" /\ \A k \in DOMAIN lines : i <= k /\ k <= j => lines[k].kind = "call"
Obeys(lines) == CalledOnce(lines) /\ AnsweredOnce(lines) /\ AnsweredLater(lines) /\ AnsweredFirst(lines)

\* One sequence behind another, place by place.
Behind(both, one, two) ==
    /\ Len(one) \in Nat /\ DOMAIN one = 1..Len(one)
    /\ Len(two) \in Nat /\ DOMAIN two = 1..Len(two)
    /\ DOMAIN both = 1..(Len(one) + Len(two))
    /\ \A i \in 1..Len(one) : both[i] = one[i]
    /\ \A i \in 1..Len(two) : both[Len(one) + i] = two[i]
    /\ \A i \in (Len(one) + 1)..(Len(one) + Len(two)) : i - Len(one) \in 1..Len(two) /\ both[i] = two[i - Len(one)]

\* A sequence with another one behind it.
LEMMA IsBehind ==
    ASSUME NEW S, NEW one \in Seq(S), NEW two \in Seq(S)
    PROVE  Behind(one \o two, one, two)
<1>1. /\ Len(one) \in Nat /\ DOMAIN one = 1..Len(one)
      /\ Len(two) \in Nat /\ DOMAIN two = 1..Len(two)
  OBVIOUS
<1>2. /\ DOMAIN (one \o two) = 1..(Len(one) + Len(two))
      /\ \A i \in 1..(Len(one) + Len(two)) : (one \o two)[i] = IF i <= Len(one) THEN one[i] ELSE two[i - Len(one)]
  OBVIOUS
<1> DEFINE both == one \o two
           m == Len(one)
           n == Len(two)
<1>3. /\ m \in Nat /\ n \in Nat /\ DOMAIN both = 1..(m + n)
      /\ \A i \in 1..(m + n) : both[i] = IF i <= m THEN one[i] ELSE two[i - m]
  BY <1>1, <1>2
<1> HIDE DEF both, m, n
<1>4. \A i \in 1..m : both[i] = one[i]
  BY <1>3
<1>5. \A i \in 1..n : both[m + i] = two[i]
  <2> TAKE i \in 1..n
  <2>1. m + i \in 1..(m + n) /\ ~(m + i <= m) /\ m + i - m = i
    BY <1>3
  <2> QED
    BY <1>3, <2>1
<1>6. \A i \in (m + 1)..(m + n) : i - m \in 1..n /\ both[i] = two[i - m]
  <2> TAKE i \in (m + 1)..(m + n)
  <2>1. i \in 1..(m + n) /\ ~(i <= m) /\ i - m \in 1..n
    BY <1>3
  <2> QED
    BY <1>3, <2>1
<1> QED
  BY <1>1, <1>3, <1>4, <1>5, <1>6 DEF Behind, both, m, n

\* The ids in two parts.
LEMMA IdsBehind ==
    ASSUME NEW both, NEW one, NEW two, Behind(both, one, two)
    PROVE  /\ CallsIn(both) = CallsIn(one) \union CallsIn(two)
           /\ ResultsIn(both) = ResultsIn(one) \union ResultsIn(two)
<1> DEFINE Ids(s, kind) == {s[i].id : i \in {k \in DOMAIN s : s[k].kind = kind}}
<1>1. ASSUME NEW kind PROVE Ids(both, kind) = Ids(one, kind) \union Ids(two, kind)
  <2>1. ASSUME NEW x \in Ids(both, kind) PROVE x \in Ids(one, kind) \union Ids(two, kind)
    <3>1. PICK i \in DOMAIN both : both[i].kind = kind /\ x = both[i].id
      BY <2>1
    <3>2. CASE i \in 1..Len(one)
      BY <3>1, <3>2 DEF Behind
    <3>3. CASE i \notin 1..Len(one)
      <4>1. i \in (Len(one) + 1)..(Len(one) + Len(two))
        BY <3>3 DEF Behind
      <4>2. i - Len(one) \in DOMAIN two /\ both[i] = two[i - Len(one)]
        BY <4>1 DEF Behind
      <4> QED
        BY <3>1, <4>2
    <3> QED
      BY <3>2, <3>3
  <2>2. ASSUME NEW x \in Ids(one, kind) PROVE x \in Ids(both, kind)
    <3>1. PICK i \in DOMAIN one : one[i].kind = kind /\ x = one[i].id
      BY <2>2
    <3>2. i \in DOMAIN both /\ both[i] = one[i]
      BY DEF Behind
    <3> QED
      BY <3>1, <3>2
  <2>3. ASSUME NEW x \in Ids(two, kind) PROVE x \in Ids(both, kind)
    <3>1. PICK i \in DOMAIN two : two[i].kind = kind /\ x = two[i].id
      BY <2>3
    <3>2. Len(one) + i \in DOMAIN both /\ both[Len(one) + i] = two[i]
      BY DEF Behind
    <3> QED
      BY <3>1, <3>2
  <2> QED
    BY <2>1, <2>2, <2>3
<1> QED
  BY <1>1 DEF CallsIn, ResultsIn

\* What comes first obeys as well.
LEMMA ObeysBefore ==
    ASSUME NEW both, NEW one, NEW two, Behind(both, one, two), Obeys(both)
    PROVE  Obeys(one)
<1>1. \A i \in DOMAIN one : i \in DOMAIN both /\ both[i] = one[i] /\ i \in Nat
  BY DEF Behind
<1>2. \A i \in DOMAIN one, k \in DOMAIN both : k <= i => k \in DOMAIN one
  BY DEF Behind
<1>3. CalledOnce(one) /\ AnsweredOnce(one)
  BY <1>1 DEF Obeys, CalledOnce, AnsweredOnce
<1>4. AnsweredLater(one)
  <2> SUFFICES ASSUME NEW j \in DOMAIN one, one[j].kind = "result"
               PROVE  \E i \in DOMAIN one : i < j /\ one[i].kind = "call" /\ one[i].id = one[j].id
    BY DEF AnsweredLater
  <2>1. PICK i \in DOMAIN both : i < j /\ both[i].kind = "call" /\ both[i].id = both[j].id
    BY <1>1 DEF Obeys, AnsweredLater
  <2>2. i \in DOMAIN one
    BY <2>1 DEF Behind
  <2> QED
    BY <1>1, <2>1, <2>2
<1>5. AnsweredFirst(one)
  <2> SUFFICES ASSUME NEW i \in DOMAIN one, NEW j \in DOMAIN one,
                      i < j, one[i].kind = "call", one[j].kind # "result"
               PROVE  \/ \E k \in DOMAIN one : k < j /\ one[k].kind = "result" /\ one[k].id = one[i].id
                      \/ one[j].kind = "call" /\ \A k \in DOMAIN one : i <= k /\ k <= j => one[k].kind = "call"
    BY DEF AnsweredFirst
  <2>1. \/ \E k \in DOMAIN both : k < j /\ both[k].kind = "result" /\ both[k].id = both[i].id
        \/ both[j].kind = "call" /\ \A k \in DOMAIN both : i <= k /\ k <= j => both[k].kind = "call"
    BY <1>1 DEF Obeys, AnsweredFirst
  <2>2. CASE \E k \in DOMAIN both : k < j /\ both[k].kind = "result" /\ both[k].id = both[i].id
    <3>1. PICK k \in DOMAIN both : k < j /\ both[k].kind = "result" /\ both[k].id = both[i].id
      BY <2>2
    <3>2. k \in DOMAIN one
      BY <3>1 DEF Behind
    <3> QED
      BY <1>1, <3>1, <3>2
  <2>3. CASE both[j].kind = "call" /\ \A k \in DOMAIN both : i <= k /\ k <= j => both[k].kind = "call"
    BY <1>1, <2>3
  <2> QED
    BY <2>1, <2>2, <2>3
<1> QED
  BY <1>3, <1>4, <1>5 DEF Obeys
-----------------------------------------------------------------------------
(* What the next item may be, and what it changes.                          *)

\* The lines of an item.
LEMMA ItemLinesKind ==
    ASSUME NEW item \in Items
    PROVE  /\ ItemLines(item) \in Seq(Words)
           /\ item \in CallItems => /\ Len(ItemLines(item)) = 1 /\ ItemLines(item)[1].kind = "call"
                                    /\ ItemLines(item)[1].id = item.id
           /\ item \in OutputItems => /\ Len(ItemLines(item)) = 1 /\ ItemLines(item)[1].kind = "result"
                                      /\ ItemLines(item)[1].id = item.id
           /\ item \in MessageItems => /\ Len(ItemLines(item)) # 0
                                       /\ \A i \in DOMAIN ItemLines(item) : ItemLines(item)[i].kind = "text"
<1>1. ItemLines(item) \in Seq(Words)
  BY ItemWordsTyped DEF ItemWords
<1>2. CASE item \in CallItems
  <2>1. item.type = "call" /\ item.id \in Nat /\ item.tool \in AnyTools
    BY <1>2 DEF CallItems
  <2>2. ItemLines(item) = Lines("assistant", <<Call(item.id, item.tool)>>)
    BY <2>1 DEF ItemLines
  <2>3. ItemLines(item) = <<Line("assistant", Call(item.id, item.tool))>>
    BY <2>1, <2>2, PartTyped, OneLine DEF Roles
  <2>4. Line("assistant", Call(item.id, item.tool)).kind = "call" /\ Line("assistant", Call(item.id, item.tool)).id = item.id
    BY DEF Line, Call
  <2>5. item \notin OutputItems /\ item \notin MessageItems
    BY <2>1 DEF OutputItems, MessageItems
  <2> QED
    BY <1>1, <2>3, <2>4, <2>5
<1>3. CASE item \in OutputItems
  <2>1. item.type = "output" /\ item.id \in Nat
    BY <1>3 DEF OutputItems
  <2>2. ItemLines(item) = Lines("tool", <<Result(item.id)>>)
    BY <2>1 DEF ItemLines
  <2>3. ItemLines(item) = <<Line("tool", Result(item.id))>>
    BY <2>1, <2>2, PartTyped, OneLine DEF Roles
  <2>4. Line("tool", Result(item.id)).kind = "result" /\ Line("tool", Result(item.id)).id = item.id
    BY DEF Line, Result
  <2>5. item \notin CallItems /\ item \notin MessageItems
    BY <2>1 DEF CallItems, MessageItems
  <2> QED
    BY <1>1, <2>3, <2>4, <2>5
<1>4. CASE item \in MessageItems
  <2>1. item.type = "message" /\ item.role \in Roles /\ item.texts \in Seq(Nat) /\ item.texts # <<>>
    BY <1>4 DEF MessageItems, Roles
  <2> DEFINE parts == Each(Text, item.texts)
  <2>2. ItemLines(item) = Lines(item.role, parts)
    BY <2>1 DEF ItemLines
  <2>3. parts \in Seq(Texts) /\ parts \in Seq(Parts) /\ Len(parts) = Len(item.texts) /\ Len(item.texts) # 0
    <3>1. Len(item.texts) \in Nat /\ DOMAIN item.texts = 1..Len(item.texts) /\ Len(item.texts) # 0
      BY <2>1
    <3>2. DOMAIN parts = 1..Len(item.texts)
      BY <3>1 DEF Each
    <3>3. parts \in Seq(Texts) /\ parts \in Seq(Parts)
      BY <2>1, NamedTyped
    <3> HIDE DEF parts
    <3> QED
      BY <3>1, <3>2, <3>3
  <2> HIDE DEF parts
  <2>4. Len(ItemLines(item)) = Len(parts) /\ \A i \in DOMAIN parts : ItemLines(item)[i] = Line(item.role, parts[i])
    BY ZenonT(30), <2>1, <2>2, <2>3, SpokenBy
  <2>5. DOMAIN ItemLines(item) = DOMAIN parts
    <3>1. DOMAIN ItemLines(item) = 1..Len(ItemLines(item))
      BY <1>1
    <3>2. DOMAIN parts = 1..Len(parts)
      BY <2>3
    <3> QED
      BY <2>4, <3>1, <3>2
  <2>6. \A i \in DOMAIN parts : Line(item.role, parts[i]).kind = "text"
    <3>1. \A i \in DOMAIN parts : parts[i] \in Texts
      BY <2>3
    <3> QED
      BY <3>1 DEF Line, Texts
  <2>7. item \notin CallItems /\ item \notin OutputItems
    BY <2>1 DEF CallItems, OutputItems
  <2> QED
    BY <1>1, <2>3, <2>4, <2>5, <2>6, <2>7
<1> QED
  BY <1>2, <1>3, <1>4 DEF Items
-----------------------------------------------------------------------------
\* A further call behind lines: its id is new, and what waits waits since the latest calls.
LEMMA CallBehind ==
    ASSUME NEW lines, NEW more, NEW both, Behind(both, lines, more), Obeys(both),
           Len(more) = 1, more[1].kind = "call"
    PROVE  /\ more[1].id \notin CallsIn(lines)
           /\ CallsIn(both) = CallsIn(lines) \union {more[1].id}
           /\ Waiting(both) = Waiting(lines) \union {more[1].id}
           /\ \A i, k \in DOMAIN lines : i < k /\ lines[i].kind = "call" /\ lines[k].kind # "call"
                                            => lines[i].id \notin Waiting(lines)
<1> DEFINE n == Len(lines)
           x == more[1].id
<1>1. /\ n \in Nat /\ DOMAIN lines = 1..n /\ DOMAIN both = 1..(n + 1) /\ DOMAIN more = {1}
      /\ both[n + 1] = more[1] /\ \A i \in 1..n : both[i] = lines[i]
  BY DEF Behind
<1>2. CallsIn(more) = {x} /\ ResultsIn(more) = {}
  BY <1>1 DEF CallsIn, ResultsIn
<1>3. CallsIn(both) = CallsIn(lines) \union {x} /\ ResultsIn(both) = ResultsIn(lines)
  BY <1>2, IdsBehind
<1> HIDE DEF n
<1>4. x \notin CallsIn(lines)
  <2> SUFFICES ASSUME NEW i \in 1..n, lines[i].kind = "call", lines[i].id = x PROVE FALSE
    BY <1>1 DEF CallsIn
  <2>1. i \in DOMAIN both /\ n + 1 \in DOMAIN both /\ i # n + 1
    BY <1>1
  <2> QED
    BY <1>1, <2>1 DEF Obeys, CalledOnce
<1>5. x \notin ResultsIn(lines)
  <2> SUFFICES ASSUME NEW j \in 1..n, lines[j].kind = "result", lines[j].id = x PROVE FALSE
    BY <1>1 DEF ResultsIn
  <2>1. j \in DOMAIN both /\ both[j] = lines[j]
    BY <1>1
  <2>2. PICK i \in DOMAIN both : i < j /\ both[i].kind = "call" /\ both[i].id = both[j].id
    BY <2>1 DEF Obeys, AnsweredLater
  <2>3. n + 1 \in DOMAIN both /\ i # n + 1
    BY <1>1, <2>2
  <2> QED
    BY <1>1, <2>1, <2>2, <2>3 DEF Obeys, CalledOnce
<1>6. \A i, k \in DOMAIN lines : i < k /\ lines[i].kind = "call" /\ lines[k].kind # "call" => lines[i].id \in ResultsIn(lines)
  <2> SUFFICES ASSUME NEW i \in 1..n, NEW k \in 1..n, i < k, lines[i].kind = "call", lines[k].kind # "call"
               PROVE  lines[i].id \in ResultsIn(lines)
    BY <1>1
  <2>1. i \in DOMAIN both /\ n + 1 \in DOMAIN both /\ i < n + 1 /\ k \in DOMAIN both /\ i <= k /\ k <= n + 1
    BY <1>1
  <2>2. both[i].kind = "call" /\ both[n + 1].kind # "result" /\ both[k].kind # "call"
    BY <1>1
  <2>3. PICK l \in DOMAIN both : l < n + 1 /\ both[l].kind = "result" /\ both[l].id = both[i].id
    BY <2>1, <2>2 DEF Obeys, AnsweredFirst
  <2>4. l \in 1..n /\ lines[l].kind = "result" /\ lines[l].id = lines[i].id
    BY <1>1, <2>3
  <2> QED
    BY <1>1, <2>4 DEF ResultsIn
<1> QED
  BY <1>3, <1>4, <1>5, <1>6 DEF Waiting

\* A further result: its call is waiting, and then no more.
LEMMA ResultBehind ==
    ASSUME NEW lines, NEW more, NEW both, Behind(both, lines, more), Obeys(both),
           Len(more) = 1, more[1].kind = "result"
    PROVE  /\ more[1].id \in Waiting(lines)
           /\ CallsIn(both) = CallsIn(lines)
           /\ Waiting(both) = Waiting(lines) \ {more[1].id}
<1> DEFINE n == Len(lines)
           x == more[1].id
<1>1. /\ n \in Nat /\ DOMAIN lines = 1..n /\ DOMAIN both = 1..(n + 1) /\ DOMAIN more = {1}
      /\ both[n + 1] = more[1] /\ \A i \in 1..n : both[i] = lines[i]
  BY DEF Behind
<1>2. CallsIn(more) = {} /\ ResultsIn(more) = {x}
  BY <1>1 DEF CallsIn, ResultsIn
<1>3. CallsIn(both) = CallsIn(lines) /\ ResultsIn(both) = ResultsIn(lines) \union {x}
  BY <1>2, IdsBehind
<1> HIDE DEF n
<1>4. x \in CallsIn(lines)
  <2>1. n + 1 \in DOMAIN both
    BY <1>1
  <2>2. PICK i \in DOMAIN both : i < n + 1 /\ both[i].kind = "call" /\ both[i].id = both[n + 1].id
    BY <1>1, <2>1 DEF Obeys, AnsweredLater
  <2>3. i \in 1..n /\ lines[i].kind = "call" /\ lines[i].id = x
    BY <1>1, <2>2
  <2> QED
    BY <1>1, <2>3 DEF CallsIn
<1>5. x \notin ResultsIn(lines)
  <2> SUFFICES ASSUME NEW i \in 1..n, lines[i].kind = "result", lines[i].id = x PROVE FALSE
    BY <1>1 DEF ResultsIn
  <2>1. i \in DOMAIN both /\ n + 1 \in DOMAIN both /\ i # n + 1
    BY <1>1
  <2> QED
    BY <1>1, <2>1 DEF Obeys, AnsweredOnce
<1> QED
  BY <1>3, <1>4, <1>5 DEF Waiting

\* A text: nothing is waiting.
LEMMA TextsBehind ==
    ASSUME NEW lines, NEW more, NEW both, Behind(both, lines, more), Obeys(both),
           Len(more) # 0, \A i \in DOMAIN more : more[i].kind = "text"
    PROVE  Waiting(lines) = {} /\ CallsIn(both) = CallsIn(lines) /\ Waiting(both) = {}
<1> DEFINE n == Len(lines)
<1>1. /\ n \in Nat /\ DOMAIN lines = 1..n /\ n + 1 \in DOMAIN both /\ 1 \in DOMAIN more
      /\ both[n + 1] = more[1] /\ \A i \in 1..n : i \in DOMAIN both /\ both[i] = lines[i]
  BY DEF Behind
<1>2. CallsIn(more) = {} /\ ResultsIn(more) = {}
  BY DEF CallsIn, ResultsIn
<1>3. CallsIn(both) = CallsIn(lines) /\ ResultsIn(both) = ResultsIn(lines)
  <2>1. /\ CallsIn(both) = CallsIn(lines) \union CallsIn(more)
        /\ ResultsIn(both) = ResultsIn(lines) \union ResultsIn(more)
    BY IdsBehind
  <2> QED
    BY <1>2, <2>1
<1> HIDE DEF n
<1>4. ASSUME NEW i \in 1..n, lines[i].kind = "call" PROVE lines[i].id \in ResultsIn(lines)
  <2>1. i < n + 1 /\ both[i].kind = "call" /\ both[n + 1].kind = "text"
    BY <1>1, <1>4
  <2>2. PICK l \in DOMAIN both : l < n + 1 /\ both[l].kind = "result" /\ both[l].id = both[i].id
    BY <1>1, <2>1 DEF Obeys, AnsweredFirst
  <2>3. l \in 1..n
    BY <1>1, <2>2 DEF Behind
  <2> QED
    BY <1>1, <1>4, <2>2, <2>3 DEF ResultsIn
<1>5. Waiting(lines) = {}
  BY <1>1, <1>4 DEF Waiting, CallsIn
<1> QED
  BY <1>3, <1>5 DEF Waiting
-----------------------------------------------------------------------------
(* translate_input_items takes what keeps to the rules.                     *)

\* What translate_input_items has of lines that it has not refused.
CalledIn(s) == {s.pending[i].id : i \in DOMAIN s.pending}
Outlived(lines, x) ==
    \E i, k \in DOMAIN lines : i < k /\ lines[i].kind = "call" /\ lines[i].id = x /\ lines[k].kind # "call"
Holds(s, lines) ==
    /\ s \in ChatStates /\ s.ok
    /\ s.known = CallsIn(lines)
    /\ s.outstanding \union CalledIn(s) = Waiting(lines)
    /\ \A x \in s.outstanding : Outlived(lines, x)

\* The waiting calls go out.
LEMMA HeldFlushed ==
    ASSUME NEW s, NEW lines, Holds(s, lines)
    PROVE  /\ FlushToolCalls(s) \in ChatStates /\ FlushToolCalls(s).ok /\ FlushToolCalls(s).pending = <<>>
           /\ FlushToolCalls(s).known = CallsIn(lines)
           /\ FlushToolCalls(s).outstanding = Waiting(lines)
<1> DEFINE f == FlushToolCalls(s)
<1>1. f \in ChatStates /\ f.ok = s.ok /\ f.pending = <<>> /\ s \in ChatStates /\ s.ok
  BY CallsFlushed DEF Holds
<1>2. f.known = s.known /\ f.outstanding = s.outstanding \union CalledIn(s)
  <2>1. CASE s.pending = <<>>
    <3>1. f = s
      BY <2>1 DEF FlushToolCalls
    <3>2. CalledIn(s) = {}
      BY <2>1 DEF CalledIn
    <3> HIDE DEF f
    <3> QED
      BY <3>1, <3>2
  <2>2. CASE s.pending # <<>>
    <3> DEFINE m == Append(s.messages, ChatMessage("assistant", <<>>, s.pending))
    <3>1. f = [s EXCEPT !.messages = m, !.outstanding = @ \union {s.pending[i].id : i \in DOMAIN s.pending}, !.pending = <<>>]
      BY <2>2 DEF FlushToolCalls
    <3> HIDE DEF m, f
    <3>2. f = [ok |-> s.ok, messages |-> m, pending |-> <<>>, outstanding |-> s.outstanding \union CalledIn(s),
               known |-> s.known]
      BY <1>1, <3>1 DEF ChatStates, CalledIn
    <3> QED
      BY <3>2
  <2> QED
    BY <2>1, <2>2
<1> HIDE DEF f
<1> QED
  BY <1>1, <1>2 DEF Holds, f

\* Lines stay behind what they outlive.
LEMMA OutlivedLater ==
    ASSUME NEW lines, NEW more, NEW both, Behind(both, lines, more), NEW x
    PROVE  /\ Outlived(lines, x) => Outlived(both, x)
           /\ x \in CallsIn(lines) /\ Len(more) # 0 /\ more[1].kind # "call" => Outlived(both, x)
<1> DEFINE n == Len(lines)
<1>1. n \in Nat /\ DOMAIN lines = 1..n /\ \A i \in 1..n : i \in DOMAIN both /\ both[i] = lines[i]
  BY DEF Behind
<1>2. Len(more) # 0 => n + 1 \in DOMAIN both /\ both[n + 1] = more[1]
  BY DEF Behind
<1> HIDE DEF n
<1>3. ASSUME Outlived(lines, x) PROVE Outlived(both, x)
  BY <1>1, <1>3 DEF Outlived
<1>4. ASSUME x \in CallsIn(lines), Len(more) # 0, more[1].kind # "call" PROVE Outlived(both, x)
  <2>1. PICK i \in 1..n : lines[i].kind = "call" /\ lines[i].id = x
    BY <1>1, <1>4 DEF CallsIn
  <2>2. i < n + 1 /\ n + 1 \in DOMAIN both /\ both[n + 1].kind # "call"
    BY <1>1, <1>2, <1>4
  <2> QED
    BY <1>1, <2>1, <2>2 DEF Outlived
<1> QED
  BY <1>3, <1>4

\* A call: it waits, with those right in front of it.
LEMMA CallHeld ==
    ASSUME NEW s, NEW lines, Holds(s, lines), NEW item \in CallItems,
           NEW both, Behind(both, lines, ItemLines(item)), Obeys(both)
    PROVE  Holds(AddItem(s, item), both)
<1> DEFINE r == AddCall(s, item)
           more == ItemLines(item)
           c == Call(item.id, [NoTool EXCEPT !.name = item.tool.name])
<1>1. item \in Items /\ item.type = "call"
  BY DEF Items, CallItems
<1>2. Len(more) = 1 /\ more[1].kind = "call" /\ more[1].id = item.id
  BY <1>1, ItemLinesKind
<1>3. s \in ChatStates /\ s.ok /\ s.known = CallsIn(lines) /\ s.outstanding \union CalledIn(s) = Waiting(lines)
      /\ \A x \in s.outstanding : Outlived(lines, x)
  BY DEF Holds
<1> HIDE DEF more
<1>4. /\ item.id \notin CallsIn(lines)
      /\ CallsIn(both) = CallsIn(lines) \union {item.id}
      /\ Waiting(both) = Waiting(lines) \union {item.id}
      /\ \A i, k \in DOMAIN lines : i < k /\ lines[i].kind = "call" /\ lines[k].kind # "call"
                                            => lines[i].id \notin Waiting(lines)
  BY <1>2, CallBehind DEF more
<1>5. s.outstanding = {}
  BY <1>3, <1>4 DEF Outlived
<1>6. AddItem(s, item) = r
  BY <1>1, <1>3 DEF AddItem
<1>7. r \in ChatStates
  <2>1. Tells(s, AddItem(s, item), item)
    BY <1>1, <1>3, ItemTells
  <2> QED
    BY <1>6, <2>1 DEF Tells
<1>8. r = [s EXCEPT !.known = @ \union {item.id}, !.pending = Append(@, c)]
  BY <1>3, <1>4, <1>5 DEF AddCall
<1>9. c.id = item.id
  BY DEF Call
<1> HIDE DEF r, c
<1> DEFINE pending == Append(s.pending, c)
<1>10. r = [ok |-> s.ok, messages |-> s.messages, pending |-> pending, outstanding |-> s.outstanding,
            known |-> s.known \union {item.id}]
  BY <1>3, <1>8 DEF ChatStates
<1>11. {pending[i].id : i \in DOMAIN pending} = CalledIn(s) \union {item.id}
  <2>1. s.pending \in Seq(Calls)
    BY <1>3, StatesTyped
  <2> DEFINE n == Len(s.pending)
  <2>2. n \in Nat /\ DOMAIN s.pending = 1..n /\ DOMAIN pending = 1..(n + 1) /\ pending[n + 1] = c
        /\ \A i \in 1..n : pending[i] = s.pending[i]
    BY <2>1
  <2> HIDE DEF n, pending
  <2>3. \A i \in 1..(n + 1) : i \in 1..n \/ i = n + 1
    BY <2>2
  <2>4. n + 1 \in 1..(n + 1) /\ \A i \in 1..n : i \in 1..(n + 1)
    BY <2>2
  <2> QED
    BY <1>9, <2>2, <2>3, <2>4 DEF CalledIn
<1> HIDE DEF pending
<1>12. /\ r.ok = s.ok /\ r.pending = pending /\ r.outstanding = s.outstanding /\ r.known = s.known \union {item.id}
  BY <1>10
<1>13. CalledIn(r) = CalledIn(s) \union {item.id}
  BY <1>11, <1>12 DEF CalledIn
<1>14. r.outstanding \union CalledIn(r) = Waiting(both)
  BY <1>3, <1>4, <1>12, <1>13
<1> QED
  BY <1>3, <1>4, <1>5, <1>6, <1>7, <1>12, <1>14 DEF Holds

\* A message: nothing waited, and nothing waits.
LEMMA MessageHeld ==
    ASSUME NEW s, NEW lines, Holds(s, lines), NEW item \in MessageItems,
           NEW both, Behind(both, lines, ItemLines(item)), Obeys(both)
    PROVE  Holds(AddItem(s, item), both)
<1> DEFINE r == AddMessage(s, item)
           f == FlushToolCalls(s)
           more == ItemLines(item)
<1>1. item \in Items /\ item.type = "message" /\ s \in ChatStates /\ s.ok
  BY DEF Items, MessageItems, Holds
<1>2. Len(more) # 0 /\ \A i \in DOMAIN more : more[i].kind = "text"
  BY <1>1, ItemLinesKind
<1>3. Waiting(lines) = {} /\ CallsIn(both) = CallsIn(lines) /\ Waiting(both) = {}
  <2> HIDE DEF more
  <2> QED
    BY <1>2, TextsBehind DEF more
<1>4. f \in ChatStates /\ f.ok /\ f.pending = <<>> /\ f.known = CallsIn(lines) /\ f.outstanding = {}
  BY <1>3, HeldFlushed
<1>5. AddItem(s, item) = r
  BY <1>1 DEF AddItem
<1>6. r \in ChatStates
  <2>1. Tells(s, AddItem(s, item), item)
    BY <1>1, ItemTells
  <2> QED
    BY <1>5, <2>1 DEF Tells
<1>7. r = [f EXCEPT !.messages = Append(@, ChatMessage(item.role, item.texts, <<>>))]
  BY <1>4 DEF AddMessage
<1> HIDE DEF r, f
<1>8. r.ok = f.ok /\ r.pending = f.pending /\ r.known = f.known /\ r.outstanding = f.outstanding
  BY <1>4, <1>7 DEF ChatStates
<1>9. CalledIn(r) = {}
  BY <1>4, <1>8 DEF CalledIn
<1> QED
  BY <1>3, <1>4, <1>5, <1>6, <1>8, <1>9 DEF Holds

\* An output: its call waits no more.
LEMMA OutputHeld ==
    ASSUME NEW s, NEW lines, Holds(s, lines), NEW item \in OutputItems,
           NEW both, Behind(both, lines, ItemLines(item)), Obeys(both)
    PROVE  Holds(AddItem(s, item), both)
<1> DEFINE r == AddOutput(s, item)
           f == FlushToolCalls(s)
           more == ItemLines(item)
<1>1. item \in Items /\ item.type = "output" /\ s \in ChatStates /\ s.ok
  BY DEF Items, OutputItems, Holds
<1>2. Len(more) = 1 /\ more[1].kind = "result" /\ more[1].id = item.id
  BY <1>1, ItemLinesKind
<1>3. /\ item.id \in Waiting(lines)
      /\ CallsIn(both) = CallsIn(lines)
      /\ Waiting(both) = Waiting(lines) \ {item.id}
  <2> HIDE DEF more
  <2> QED
    BY <1>2, ResultBehind DEF more
<1>4. f \in ChatStates /\ f.ok /\ f.pending = <<>> /\ f.known = CallsIn(lines) /\ f.outstanding = Waiting(lines)
  BY HeldFlushed
<1>5. AddItem(s, item) = r
  BY <1>1 DEF AddItem
<1>6. r \in ChatStates
  <2>1. Tells(s, AddItem(s, item), item)
    BY <1>1, ItemTells
  <2> QED
    BY <1>5, <2>1 DEF Tells
<1>7. r = [f EXCEPT !.messages = Append(@, ToolMessage(item.id)), !.outstanding = @ \ {item.id}]
  BY <1>3, <1>4 DEF AddOutput
<1> HIDE DEF r, f
<1>8. r.ok = f.ok /\ r.pending = f.pending /\ r.known = f.known /\ r.outstanding = f.outstanding \ {item.id}
  BY <1>4, <1>7 DEF ChatStates
<1>9. CalledIn(r) = {}
  BY <1>4, <1>8 DEF CalledIn
<1>10. \A x \in Waiting(both) : Outlived(both, x)
  <2> HIDE DEF more
  <2>1. Len(more) # 0 /\ more[1].kind # "call"
    BY <1>2
  <2>2. \A x \in CallsIn(lines) : Outlived(both, x)
    BY <2>1, OutlivedLater DEF more
  <2> QED
    BY <1>3, <2>2 DEF Waiting
<1> QED
  BY <1>3, <1>4, <1>5, <1>6, <1>8, <1>9, <1>10 DEF Holds

\* Item by item.
LEMMA ItemHeld ==
    ASSUME NEW s, NEW lines, Holds(s, lines), NEW item \in Items,
           NEW both, Behind(both, lines, ItemLines(item)), Obeys(both)
    PROVE  Holds(AddItem(s, item), both)
  BY CallHeld, MessageHeld, OutputHeld DEF Items
-----------------------------------------------------------------------------
\* Lines whose calls all have their results.
Accepts(lines) == Obeys(lines) /\ Waiting(lines) = {}

\* Items that say such lines are taken.
LEMMA ItemsAccepted ==
    ASSUME NEW items \in Seq(Items), Accepts(ItemsSaid(items))
    PROVE  TranslateInputItems(items).ok
<1> DEFINE start == [ok |-> TRUE, messages |-> <<>>, pending |-> <<>>, outstanding |-> {}, known |-> {}]
           F(s) == Folded(ItemStep, start, s)
           T == {s \in Seq(Items) : Obeys(ItemsSaid(s)) => Holds(F(s), ItemsSaid(s))}
<1>1. start \in ChatStates /\ Holds(start, <<>>)
  <2>1. start \in ChatStates
    <3>1. <<>> \in Seq(ChatMessages) /\ <<>> \in Seq(Calls) /\ {} \in SUBSET Nat /\ TRUE \in BOOLEAN
      OBVIOUS
    <3> QED
      BY <3>1, StateOf
  <2>2. CallsIn(<<>>) = {} /\ Waiting(<<>>) = {}
    BY DEF CallsIn, Waiting
  <2>3. start.ok /\ start.known = {} /\ start.outstanding = {} /\ CalledIn(start) = {}
    BY DEF CalledIn
  <2> HIDE DEF start
  <2> QED
    BY <2>1, <2>2, <2>3 DEF Holds
<1> HIDE DEF start
<1>2. <<>> \in T
  <2>1. F(<<>>) = start /\ <<>> \in Seq(Items)
    BY <1>1, ItemsSteps, FoldedEmpty
  <2> HIDE DEF F
  <2> QED
    BY <1>1, <2>1, ItemsSaidEmpty
<1>3. ASSUME NEW s \in Seq(Items), NEW x \in Items, s \in T PROVE Append(s, x) \in T
  <2> DEFINE more == Append(s, x)
  <2>1. F(s) \in ChatStates /\ F(more) = ItemStep[<<F(s), x>>]
    BY <1>1, ItemsSteps, FoldedTyped, FoldedAppend
  <2> HIDE DEF F
  <2>2. F(more) = AddItem(F(s), x)
    BY <2>1 DEF ItemStep
  <2>3. ItemsSaid(more) = ItemsSaid(s) \o ItemLines(x)
    BY ItemsSaidAppend
  <2>4. Behind(ItemsSaid(more), ItemsSaid(s), ItemLines(x))
    BY <2>3, ItemsSaidTyped, ItemLinesKind, IsBehind
  <2>5. more \in Seq(Items)
    OBVIOUS
  <2> HIDE DEF more
  <2>6. ASSUME Obeys(ItemsSaid(more)) PROVE Holds(F(more), ItemsSaid(more))
    <3>1. Obeys(ItemsSaid(s))
      BY <2>4, <2>6, ObeysBefore
    <3>2. Holds(F(s), ItemsSaid(s))
      BY <1>3, <3>1
    <3> QED
      BY <2>2, <2>4, <2>6, <3>2, ItemHeld
  <2> QED
    BY <2>5, <2>6 DEF more
<1> HIDE DEF T
<1>4. items \in T
  BY <1>2, <1>3, SequencesGrow
<1> DEFINE f == F(items)
           end == FlushToolCalls(f)
<1>5. f \in ChatStates /\ FoldLeft(AddItem, start, items) = f
  BY <1>1, ItemsSteps, FoldedTyped, ItemsFolded
<1>6. TranslateInputItems(items).ok = (end.ok /\ end.outstanding = {})
  BY <1>5 DEF TranslateInputItems, start
<1>7. Holds(f, ItemsSaid(items))
  BY <1>4 DEF T, Accepts
<1> HIDE DEF f
<1>8. end.ok /\ end.outstanding = Waiting(ItemsSaid(items))
  BY <1>7, HeldFlushed
<1> HIDE DEF end
<1> QED
  BY <1>6, <1>8 DEF Accepts
-----------------------------------------------------------------------------
(* Two conversations that are accepted, one behind the other.               *)

\* The places of two sequences, one behind the other.
LEMMA PlaceBehind ==
    ASSUME NEW both, NEW one, NEW two, Behind(both, one, two), NEW i \in DOMAIN both
    PROVE  /\ i \in Nat
           /\ \/ i \in DOMAIN one /\ both[i] = one[i]
              \/ i - Len(one) \in DOMAIN two /\ both[i] = two[i - Len(one)] /\ i > Len(one)
<1>1. CASE i \in 1..Len(one)
  BY <1>1 DEF Behind
<1>2. CASE i \notin 1..Len(one)
  <2>1. i \in (Len(one) + 1)..(Len(one) + Len(two))
    BY <1>2 DEF Behind
  <2> QED
    BY <2>1 DEF Behind
<1> QED
  BY <1>1, <1>2

\* And where the members of either are found.
LEMMA BehindPlace ==
    ASSUME NEW both, NEW one, NEW two, Behind(both, one, two)
    PROVE  /\ Len(one) \in Nat
           /\ \A i \in DOMAIN one : i \in Nat /\ i <= Len(one) /\ i \in DOMAIN both /\ both[i] = one[i]
           /\ \A i \in DOMAIN two : /\ i \in Nat /\ i >= 1
                                    /\ Len(one) + i \in DOMAIN both /\ both[Len(one) + i] = two[i]
  BY DEF Behind

\* Whatever is called or answered is among the ids.
LEMMA IdsIn ==
    ASSUME NEW lines, NEW i \in DOMAIN lines
    PROVE  /\ lines[i].kind = "call" => lines[i].id \in CallsIn(lines)
           /\ lines[i].kind = "result" => lines[i].id \in ResultsIn(lines)
  BY DEF CallsIn, ResultsIn

\* Conversations that are accepted, one behind the other, if no id comes twice.
LEMMA AcceptedBehind ==
    ASSUME NEW both, NEW one, NEW two, Behind(both, one, two), Accepts(one), Accepts(two),
           CallsIn(one) \intersect CallsIn(two) = {}
    PROVE  Accepts(both)
<1> DEFINE n == Len(one)
<1>1. \A i \in DOMAIN both : /\ i \in Nat
                             /\ \/ i \in DOMAIN one /\ both[i] = one[i]
                                \/ i - n \in DOMAIN two /\ both[i] = two[i - n] /\ i > n
  BY PlaceBehind
<1>2. /\ n \in Nat
      /\ \A i \in DOMAIN one : i \in Nat /\ i <= n /\ i \in DOMAIN both /\ both[i] = one[i]
      /\ \A i \in DOMAIN two : i \in Nat /\ i >= 1 /\ n + i \in DOMAIN both /\ both[n + i] = two[i]
  BY BehindPlace
<1>3. ResultsIn(one) \subseteq CallsIn(one) /\ ResultsIn(two) \subseteq CallsIn(two)
  <2>1. \A s : AnsweredLater(s) => ResultsIn(s) \subseteq CallsIn(s)
    BY DEF AnsweredLater, ResultsIn, CallsIn
  <2> QED
    BY <2>1 DEF Accepts, Obeys
<1>4. CallsIn(one) \subseteq ResultsIn(one)
  BY DEF Accepts, Waiting
<1>5. Waiting(both) = {}
  <2>1. CallsIn(both) = CallsIn(one) \union CallsIn(two) /\ ResultsIn(both) = ResultsIn(one) \union ResultsIn(two)
    BY IdsBehind
  <2> QED
    BY <2>1 DEF Accepts, Waiting
<1> HIDE DEF n
<1>6. CalledOnce(both)
  <2> SUFFICES ASSUME NEW i \in DOMAIN both, NEW j \in DOMAIN both,
                      both[i].kind = "call", both[j].kind = "call", both[i].id = both[j].id
               PROVE  i = j
    BY DEF CalledOnce
  <2>1. CASE i \in DOMAIN one /\ both[i] = one[i] /\ j \in DOMAIN one /\ both[j] = one[j]
    BY <2>1 DEF Accepts, Obeys, CalledOnce
  <2>2. CASE i - n \in DOMAIN two /\ both[i] = two[i - n] /\ j - n \in DOMAIN two /\ both[j] = two[j - n]
    <3>1. i - n = j - n
      BY <2>2 DEF Accepts, Obeys, CalledOnce
    <3> QED
      BY <1>1, <1>2, <3>1
  <2>3. CASE i \in DOMAIN one /\ both[i] = one[i] /\ j - n \in DOMAIN two /\ both[j] = two[j - n]
    BY <2>3, IdsIn
  <2>4. CASE j \in DOMAIN one /\ both[j] = one[j] /\ i - n \in DOMAIN two /\ both[i] = two[i - n]
    BY <2>4, IdsIn
  <2> QED
    BY <1>1, <2>1, <2>2, <2>3, <2>4
<1>7. AnsweredOnce(both)
  <2> SUFFICES ASSUME NEW i \in DOMAIN both, NEW j \in DOMAIN both,
                      both[i].kind = "result", both[j].kind = "result", both[i].id = both[j].id
               PROVE  i = j
    BY DEF AnsweredOnce
  <2>1. CASE i \in DOMAIN one /\ both[i] = one[i] /\ j \in DOMAIN one /\ both[j] = one[j]
    BY <2>1 DEF Accepts, Obeys, AnsweredOnce
  <2>2. CASE i - n \in DOMAIN two /\ both[i] = two[i - n] /\ j - n \in DOMAIN two /\ both[j] = two[j - n]
    <3>1. i - n = j - n
      BY <2>2 DEF Accepts, Obeys, AnsweredOnce
    <3> QED
      BY <1>1, <1>2, <3>1
  <2>3. CASE i \in DOMAIN one /\ both[i] = one[i] /\ j - n \in DOMAIN two /\ both[j] = two[j - n]
    <3>1. both[i].id \in ResultsIn(one) /\ both[j].id \in ResultsIn(two)
      BY <2>3, IdsIn
    <3> QED
      BY <1>3, <3>1
  <2>4. CASE j \in DOMAIN one /\ both[j] = one[j] /\ i - n \in DOMAIN two /\ both[i] = two[i - n]
    <3>1. both[j].id \in ResultsIn(one) /\ both[i].id \in ResultsIn(two)
      BY <2>4, IdsIn
    <3> QED
      BY <1>3, <3>1
  <2> QED
    BY <1>1, <2>1, <2>2, <2>3, <2>4
<1>8. AnsweredLater(both)
  <2> SUFFICES ASSUME NEW j \in DOMAIN both, both[j].kind = "result"
               PROVE  \E i \in DOMAIN both : i < j /\ both[i].kind = "call" /\ both[i].id = both[j].id
    BY DEF AnsweredLater
  <2>1. CASE j \in DOMAIN one /\ both[j] = one[j]
    <3>1. PICK i \in DOMAIN one : i < j /\ one[i].kind = "call" /\ one[i].id = one[j].id
      BY <2>1 DEF Accepts, Obeys, AnsweredLater
    <3> QED
      BY <1>2, <2>1, <3>1
  <2>2. CASE j - n \in DOMAIN two /\ both[j] = two[j - n]
    <3>1. PICK i \in DOMAIN two : i < j - n /\ two[i].kind = "call" /\ two[i].id = two[j - n].id
      BY <2>2 DEF Accepts, Obeys, AnsweredLater
    <3>2. n + i < j /\ n + i \in DOMAIN both /\ both[n + i] = two[i]
      BY <1>1, <1>2, <3>1
    <3> QED
      BY <2>2, <3>1, <3>2
  <2> QED
    BY <1>1, <2>1, <2>2
<1>9. AnsweredFirst(both)
  <2> SUFFICES ASSUME NEW i \in DOMAIN both, NEW j \in DOMAIN both,
                      i < j, both[i].kind = "call", both[j].kind # "result"
               PROVE  \/ \E k \in DOMAIN both : k < j /\ both[k].kind = "result" /\ both[k].id = both[i].id
                      \/ both[j].kind = "call" /\ \A k \in DOMAIN both : i <= k /\ k <= j => both[k].kind = "call"
    BY DEF AnsweredFirst
  <2>0. i \in Nat /\ j \in Nat
    BY <1>1
  <2>1. CASE i \in DOMAIN one /\ both[i] = one[i] /\ j \in DOMAIN one /\ both[j] = one[j]
    <3>1. CASE \E k \in DOMAIN one : k < j /\ one[k].kind = "result" /\ one[k].id = one[i].id
      BY <1>2, <2>1, <3>1
    <3>2. CASE one[j].kind = "call" /\ \A k \in DOMAIN one : i <= k /\ k <= j => one[k].kind = "call"
      <4>1. ASSUME NEW k \in DOMAIN both, i <= k, k <= j PROVE both[k].kind = "call"
        <5>1. j <= n /\ k \in Nat
          BY <1>1, <1>2, <2>1
        <5>2. k \in DOMAIN one /\ both[k] = one[k]
          BY <1>1, <1>2, <4>1, <5>1, <2>0
        <5> QED
          BY <3>2, <4>1, <5>2
      <4> QED
        BY <2>1, <3>2, <4>1
    <3> QED
      BY <2>1, <3>1, <3>2 DEF Accepts, Obeys, AnsweredFirst
  <2>2. CASE i \in DOMAIN one /\ both[i] = one[i] /\ j - n \in DOMAIN two /\ j > n
    <3>1. both[i].id \in ResultsIn(one)
      BY <1>4, <2>2, IdsIn
    <3>2. PICK k \in DOMAIN one : one[k].kind = "result" /\ one[k].id = both[i].id
      BY <3>1 DEF ResultsIn
    <3>3. k \in DOMAIN both /\ both[k] = one[k] /\ k < j
      BY <1>2, <2>0, <2>2, <3>2
    <3> QED
      BY <3>2, <3>3
  <2>3. CASE /\ i - n \in DOMAIN two /\ both[i] = two[i - n] /\ i > n
             /\ j - n \in DOMAIN two /\ both[j] = two[j - n] /\ j > n
    <3>0. i - n < j - n
      BY <1>2, <2>0
    <3>1. CASE \E k \in DOMAIN two : k < j - n /\ two[k].kind = "result" /\ two[k].id = two[i - n].id
      <4>1. PICK k \in DOMAIN two : k < j - n /\ two[k].kind = "result" /\ two[k].id = two[i - n].id
        BY <3>1
      <4>2. n + k \in DOMAIN both /\ both[n + k] = two[k] /\ n + k < j
        BY <1>2, <2>0, <4>1
      <4> QED
        BY <2>3, <4>1, <4>2
    <3>2. CASE two[j - n].kind = "call" /\ \A k \in DOMAIN two : i - n <= k /\ k <= j - n => two[k].kind = "call"
      <4>1. ASSUME NEW k \in DOMAIN both, i <= k, k <= j PROVE both[k].kind = "call"
        <5>1. k \in Nat /\ k > n
          BY <1>1, <1>2, <2>0, <2>3, <4>1
        <5>2. k - n \in DOMAIN two /\ both[k] = two[k - n]
          BY <1>1, <1>2, <5>1
        <5>3. i - n <= k - n /\ k - n <= j - n
          BY <1>2, <2>0, <4>1, <5>1
        <5> QED
          BY <3>2, <5>2, <5>3
      <4> QED
        BY <2>3, <3>2, <4>1
    <3> QED
      BY <2>3, <3>0, <3>1, <3>2 DEF Accepts, Obeys, AnsweredFirst
  <2>4. CASE i - n \in DOMAIN two /\ i > n /\ j \in DOMAIN one
    BY <1>2, <2>0, <2>4
  <2> QED
    BY <1>1, <2>1, <2>2, <2>3, <2>4
<1> QED
  BY <1>5, <1>6, <1>7, <1>8, <1>9 DEF Accepts, Obeys
-----------------------------------------------------------------------------
(* One turn and the answer to it.                                           *)

\* What a model says in a turn of which it says nothing after its calls, and
\* what a client says that answers all of them first.
Proposes(lines) ==
    /\ CalledOnce(lines)
    /\ \A i \in DOMAIN lines : lines[i].kind \in {"text", "call"}
    /\ \A i, j \in DOMAIN lines : i < j /\ lines[i].kind = "call" => lines[j].kind = "call"
Responds(lines) ==
    /\ AnsweredOnce(lines)
    /\ \A i \in DOMAIN lines : lines[i].kind \in {"text", "result"}
    /\ \A i, j \in DOMAIN lines : i < j /\ lines[j].kind = "result" => lines[i].kind = "result"

\* Together they are accepted, if it is these calls that are answered.
LEMMA TurnAccepted ==
    ASSUME NEW both, NEW one, NEW two, Behind(both, one, two), Proposes(one), Responds(two),
           ResultsIn(two) = CallsIn(one)
    PROVE  Accepts(both) /\ CallsIn(both) = CallsIn(one)
<1> DEFINE n == Len(one)
<1>1. \A i \in DOMAIN both : /\ i \in Nat
                             /\ \/ i \in DOMAIN one /\ both[i] = one[i]
                                \/ i - n \in DOMAIN two /\ both[i] = two[i - n] /\ i > n
  BY PlaceBehind
<1>2. /\ n \in Nat
      /\ \A i \in DOMAIN one : i \in Nat /\ i <= n /\ i \in DOMAIN both /\ both[i] = one[i]
      /\ \A i \in DOMAIN two : i \in Nat /\ i >= 1 /\ n + i \in DOMAIN both /\ both[n + i] = two[i]
  BY BehindPlace
<1>3. CallsIn(two) = {} /\ ResultsIn(one) = {}
  <2>1. (\A i \in DOMAIN two : two[i].kind # "call") /\ (\A i \in DOMAIN one : one[i].kind # "result")
    BY DEF Proposes, Responds
  <2> QED
    BY <2>1 DEF CallsIn, ResultsIn
<1>4. CallsIn(both) = CallsIn(one) /\ ResultsIn(both) = ResultsIn(two)
  <2>1. CallsIn(both) = CallsIn(one) \union CallsIn(two) /\ ResultsIn(both) = ResultsIn(one) \union ResultsIn(two)
    BY IdsBehind
  <2> QED
    BY <1>3, <2>1
<1> HIDE DEF n
<1>5. Waiting(both) = {}
  BY <1>4 DEF Waiting
<1>6. \A i \in DOMAIN both : /\ both[i].kind = "call" => i \in DOMAIN one /\ both[i] = one[i]
                             /\ both[i].kind = "result" => i - n \in DOMAIN two /\ both[i] = two[i - n] /\ i > n
  <2> TAKE i \in DOMAIN both
  <2>1. CASE i \in DOMAIN one /\ both[i] = one[i]
    BY <2>1 DEF Proposes
  <2>2. CASE i - n \in DOMAIN two /\ both[i] = two[i - n] /\ i > n
    BY <2>2 DEF Responds
  <2> QED
    BY <1>1, <2>1, <2>2
<1>7. CalledOnce(both)
  BY <1>6 DEF Proposes, CalledOnce
<1>8. AnsweredOnce(both)
  <2> SUFFICES ASSUME NEW i \in DOMAIN both, NEW j \in DOMAIN both,
                      both[i].kind = "result", both[j].kind = "result", both[i].id = both[j].id
               PROVE  i = j
    BY DEF AnsweredOnce
  <2>1. i - n = j - n
    BY <1>6 DEF Responds, AnsweredOnce
  <2> QED
    BY SMTT(30), <1>1, <1>2, <2>1
<1>9. AnsweredLater(both)
  <2> SUFFICES ASSUME NEW j \in DOMAIN both, both[j].kind = "result"
               PROVE  \E i \in DOMAIN both : i < j /\ both[i].kind = "call" /\ both[i].id = both[j].id
    BY DEF AnsweredLater
  <2>1. j - n \in DOMAIN two /\ both[j] = two[j - n] /\ j > n /\ j \in Nat
    BY <1>1, <1>6
  <2>2. both[j].id \in CallsIn(one)
    BY <2>1, IdsIn
  <2>3. PICK i \in DOMAIN one : one[i].kind = "call" /\ one[i].id = both[j].id
    BY <2>2 DEF CallsIn
  <2>4. i \in DOMAIN both /\ both[i] = one[i] /\ i < j
    BY <1>2, <2>1
  <2> QED
    BY <2>3, <2>4
<1>10. AnsweredFirst(both)
  <2> SUFFICES ASSUME NEW i \in DOMAIN both, NEW j \in DOMAIN both,
                      i < j, both[i].kind = "call", both[j].kind # "result"
               PROVE  \/ \E k \in DOMAIN both : k < j /\ both[k].kind = "result" /\ both[k].id = both[i].id
                      \/ both[j].kind = "call" /\ \A k \in DOMAIN both : i <= k /\ k <= j => both[k].kind = "call"
    BY DEF AnsweredFirst
  <2>0. i \in DOMAIN one /\ both[i] = one[i] /\ i \in Nat /\ j \in Nat /\ one[i].kind = "call"
    BY <1>1, <1>6
  <2>1. CASE j \in DOMAIN one /\ both[j] = one[j]
    <3>1. ASSUME NEW k \in DOMAIN both, i <= k, k <= j PROVE both[k].kind = "call"
      <4>1. k \in Nat /\ k <= n
        BY <1>1, <1>2, <2>0, <2>1, <3>1
      <4>2. k \in DOMAIN one /\ both[k] = one[k]
        BY <1>1, <1>2, <4>1
      <4>3. i = k \/ i < k
        BY <2>0, <3>1, <4>1
      <4> QED
        BY <2>0, <4>2, <4>3 DEF Proposes
    <3> QED
      BY <2>0, <2>1, <3>1
  <2>2. CASE j - n \in DOMAIN two /\ both[j] = two[j - n] /\ j > n
    <3>1. both[i].id \in ResultsIn(two)
      BY <2>0, IdsIn
    <3>2. PICK k \in DOMAIN two : two[k].kind = "result" /\ two[k].id = both[i].id
      BY <3>1 DEF ResultsIn
    <3>3. k < j - n
      <4>1. two[j - n].kind # "result" /\ k \in Nat /\ j - n \in Nat
        BY <1>2, <2>2
      <4>2. ~(j - n < k) /\ k # j - n
        BY <2>2, <3>2, <4>1 DEF Responds
      <4> QED
        BY <4>1, <4>2
    <3>4. n + k \in DOMAIN both /\ both[n + k] = two[k] /\ n + k < j
      BY <1>2, <2>0, <3>3
    <3> QED
      BY <3>2, <3>4
  <2> QED
    BY <1>1, <2>1, <2>2
<1> QED
  BY <1>4, <1>5, <1>7, <1>8, <1>9, <1>10 DEF Accepts, Obeys
-----------------------------------------------------------------------------
\* A model that says nothing right behind a call.
CallThenText(lines) ==
    \E i \in DOMAIN lines : i + 1 \in DOMAIN lines /\ lines[i].kind = "call"
                            /\ lines[i + 1].kind = "text" /\ lines[i + 1].role = "assistant"

\* If one part comes behind a call that is none, one comes right behind a call.
LEMMA CallsLast ==
    ASSUME NEW lines \in Seq(Words), \A i \in DOMAIN lines : lines[i].kind \in {"text", "call"} /\ lines[i].role = "assistant",
           ~CallThenText(lines)
    PROVE  \A i, j \in DOMAIN lines : i < j /\ lines[i].kind = "call" => lines[j].kind = "call"
<1> DEFINE n == Len(lines)
<1>0. n \in Nat /\ DOMAIN lines = 1..n
  OBVIOUS
<1> HIDE DEF n
<1> SUFFICES ASSUME NEW i \in 1..n, NEW j \in 1..n, i < j, lines[i].kind = "call", lines[j].kind # "call" PROVE FALSE
  BY <1>0
<1> DEFINE K == {k \in 1..n : i < k /\ lines[k].kind # "call"}
<1>1. K \in SUBSET Nat /\ j \in K
  OBVIOUS
<1>2. PICK m \in K : \A k \in K : m <= k
  <2> HIDE DEF K
  <2> QED
    BY <1>1, LeastNat
<1>3. m - 1 \in 1..n /\ m = (m - 1) + 1 /\ (i = m - 1 \/ i < m - 1)
  BY <1>0, <1>2
<1>4. lines[m - 1].kind = "call"
  <2>1. m - 1 \notin K
    BY <1>2, <1>3
  <2> QED
    BY <1>3, <2>1
<1>5. m \in 1..n /\ lines[m].kind = "text" /\ lines[m].role = "assistant"
  BY <1>0, <1>2
<1> QED
  BY <1>0, <1>3, <1>4, <1>5 DEF CallThenText

\* It shows in any conversation that they are part of.
LEMMA CallThenTextWithin ==
    ASSUME NEW both, NEW one, NEW two, Behind(both, one, two)
    PROVE  CallThenText(one) \/ CallThenText(two) => CallThenText(both)
<1>1. /\ Len(one) \in Nat
      /\ \A i \in DOMAIN one : i \in Nat /\ i <= Len(one) /\ i \in DOMAIN both /\ both[i] = one[i]
      /\ \A i \in DOMAIN two : i \in Nat /\ i >= 1 /\ Len(one) + i \in DOMAIN both /\ both[Len(one) + i] = two[i]
  BY BehindPlace
<1>2. ASSUME CallThenText(one) PROVE CallThenText(both)
  BY <1>1, <1>2 DEF CallThenText
<1>3. ASSUME CallThenText(two) PROVE CallThenText(both)
  <2>1. PICK i \in DOMAIN two : i + 1 \in DOMAIN two /\ two[i].kind = "call"
                                /\ two[i + 1].kind = "text" /\ two[i + 1].role = "assistant"
    BY <1>3 DEF CallThenText
  <2> DEFINE k == Len(one) + i
  <2>2. k \in DOMAIN both /\ both[k] = two[i]
    BY <1>1
  <2>3. Len(one) + (i + 1) \in DOMAIN both /\ both[Len(one) + (i + 1)] = two[i + 1] /\ Len(one) + (i + 1) = k + 1
    BY <1>1, <2>1
  <2> HIDE DEF k
  <2> QED
    BY <2>1, <2>2, <2>3 DEF CallThenText
<1> QED
  BY <1>2, <1>3
-----------------------------------------------------------------------------
(* Parts as items and as messages of the tool.                              *)

\* Parts as items, one by one: each says what it is.
ItemsBySide(role) == [p \in Blocks(role) |-> AsItem(role, p)]

\* One part as an item.
LEMMA AsItemSays ==
    ASSUME NEW role \in {"user", "assistant"}, NEW p \in Blocks(role)
    PROVE  AsItem(role, p) \in Items /\ ItemLines(AsItem(role, p)) = <<Line(role, p)>>
<1>1. p \in Parts /\ (p \in Calls => role = "assistant")
  BY BlocksParts
<1>2. AsItem(role, p) \in Items
  BY <1>1, AsItemSpeaks
<1>3. CASE p \in Texts
  <2>1. AsItem(role, p) = Message(role, <<p.id>>) /\ p.id \in Nat /\ Text(p.id) = p
    BY <1>3 DEF AsItem, Texts, Text
  <2>2. <<p.id>> \in Seq(Nat) \ {<<>>}
    BY <2>1
  <2>3. ItemLines(AsItem(role, p)) = Lines(role, Each(Text, <<p.id>>))
    BY <2>1, <2>2, ItemLinesOf
  <2>4. Each(Text, <<p.id>>) = <<Text(p.id)>>
    BY <2>1, TextAlone
  <2> QED
    BY <1>1, <1>2, <2>1, <2>3, <2>4, OneLine DEF Roles
<1>4. CASE p \in Calls
  <2>1. p.kind = "call" /\ p.id \in Nat /\ p.tool \in AnyTools /\ Call(p.id, p.tool) = p /\ role = "assistant"
    BY <1>1, <1>4 DEF Calls, Call
  <2>2. AsItem(role, p) = CallItem(p.id, p.tool)
    BY <2>1 DEF AsItem
  <2>3. ItemLines(AsItem(role, p)) = Lines("assistant", <<Call(p.id, p.tool)>>)
    BY <2>1, <2>2, ItemLinesOf
  <2> QED
    BY <1>1, <1>2, <2>1, <2>3, OneLine DEF Roles
<1>5. CASE p \in Results
  <2>1. p.kind = "result" /\ p.id \in Nat /\ Result(p.id) = p
    BY <1>5 DEF Results, Result
  <2>2. AsItem(role, p) = OutputItem(p.id)
    BY <2>1 DEF AsItem
  <2>3. ItemLines(AsItem(role, p)) = Lines("tool", <<Result(p.id)>>)
    BY <2>1, <2>2, ItemLinesOf
  <2>4. Lines("tool", <<p>>) = <<Line("tool", p)>>
    BY <1>1, OneLine DEF Roles
  <2>5. Line("tool", p) = Line(role, p)
    BY <2>1 DEF Line
  <2> QED
    BY <1>2, <2>1, <2>3, <2>4, <2>5
<1> QED
  BY <1>1, <1>3, <1>4, <1>5 DEF Parts

\* And all that one side says.
LEMMA ItemsSideSay ==
    ASSUME NEW role \in {"user", "assistant"}, NEW parts \in Seq(Blocks(role))
    PROVE  Mapped(ItemsBySide(role), parts) \in Seq(Items) /\ ItemsSaid(Mapped(ItemsBySide(role), parts)) = Lines(role, parts)
<1> DEFINE S == Blocks(role)
           g == ItemsBySide(role)
           T == {s \in Seq(S) : ItemsSaid(Mapped(g, s)) = Lines(role, s)}
<1>0. S \subseteq Parts /\ role \in Roles
  BY BlocksParts DEF Roles
<1>1. /\ g \in [S -> Items]
      /\ \A p \in S : ItemLines(g[p]) = <<Line(role, p)>> /\ p \in Parts
  <2>1. \A p \in S : g[p] \in Items /\ ItemLines(g[p]) = <<Line(role, p)>>
    BY AsItemSays DEF ItemsBySide
  <2> QED
    BY <1>0, <2>1 DEF ItemsBySide
<1> HIDE DEF g, S
<1>2. <<>> \in T
  <2>1. ItemsSaid(Mapped(g, <<>>)) = <<>> /\ Lines(role, <<>>) = <<>>
    BY MappedEmpty, ItemsSaidEmpty, LinesEmpty
  <2>2. <<>> \in Seq(S)
    OBVIOUS
  <2> QED
    BY <2>1, <2>2
<1>3. ASSUME NEW s \in Seq(S), NEW p \in S, s \in T PROVE Append(s, p) \in T
  <2>1. Mapped(g, s) \in Seq(Items) /\ Mapped(g, Append(s, p)) = Append(Mapped(g, s), g[p]) /\ g[p] \in Items
    BY ZenonT(30), <1>1, MappedAppend, MappedTyped
  <2>2. ItemsSaid(Mapped(g, Append(s, p))) = ItemsSaid(Mapped(g, s)) \o <<Line(role, p)>>
    <3> DEFINE items == Mapped(g, s)
               x == g[p]
    <3> HIDE DEF items, x
    <3>1. ItemsSaid(Append(items, x)) = ItemsSaid(items) \o ItemLines(x)
      BY <2>1, ItemsSaidAppend DEF items, x
    <3> QED
      BY <1>1, <2>1, <3>1 DEF items, x
  <2>3. s \in Seq(Parts) /\ p \in Parts
    BY <1>0, <1>1, Widened
  <2>4. Lines(role, Append(s, p)) = Append(Lines(role, s), Line(role, p)) /\ Lines(role, s) \in Seq(Words) /\ Line(role, p) \in Words
    BY <1>0, <2>3, LinesAppend, LinesTyped, LineTyped
  <2> DEFINE ls == Lines(role, s)
             l == Line(role, p)
  <2> HIDE DEF ls, l
  <2>5. ls \o <<l>> = Append(ls, l)
    BY <2>4 DEF ls, l
  <2>6. ItemsSaid(Mapped(g, Append(s, p))) = Lines(role, Append(s, p))
    BY <1>3, <2>2, <2>4, <2>5 DEF ls, l
  <2>7. Append(s, p) \in Seq(S)
    OBVIOUS
  <2> QED
    BY <2>6, <2>7
<1> HIDE DEF T
<1>4. parts \in T
  <2>1. parts \in Seq(S)
    BY DEF S
  <2> QED
    BY <1>2, <1>3, <2>1, SequencesGrow
<1>5. Mapped(g, parts) \in Seq(Items)
  BY <1>1, MappedTyped DEF S
<1> QED
  BY <1>4, <1>5 DEF T, g

\* The ids of texts name them.
LEMMA NamedAgain ==
    ASSUME NEW texts \in Seq(Texts)
    PROVE  Each(LAMBDA p : p.id, texts) \in Seq(Nat) /\ Each(Text, Each(LAMBDA p : p.id, texts)) = texts
<1> DEFINE m == [role |-> "system", blocks |-> texts]
<1>1. m \in SystemMessages /\ m.blocks = texts
  BY DEF SystemMessages
<1> HIDE DEF m
<1>2. IdsOf(m) \in Seq(Nat) /\ Each(Text, IdsOf(m)) = texts
  BY <1>1, IdsNamed
<1>3. IdsOf(m) = Each(LAMBDA p : p.id, texts)
  BY <1>1 DEF IdsOf
<1> QED
  BY <1>2, <1>3

\* Results as messages of the tool.
ToolAnswer == [p \in Results |-> ToolMessage(p.id)]

\* They say the results, one by one.
LEMMA ToolAnswersSay ==
    ASSUME NEW results \in Seq(Results)
    PROVE  Mapped(ToolAnswer, results) \in Seq(ChatMessages) /\ ChatSaid(Mapped(ToolAnswer, results)) = Lines("user", results)
<1> DEFINE g == ToolAnswer
           T == {s \in Seq(Results) : ChatSaid(Mapped(g, s)) = Lines("user", s)}
<1>1. /\ g \in [Results -> ChatMessages]
      /\ \A p \in Results : ChatLines(g[p]) = <<Line("user", p)>> /\ p \in Parts
  <2>1. ASSUME NEW p \in Results PROVE g[p] \in ChatMessages /\ ChatLines(g[p]) = <<Line("user", p)>> /\ p \in Parts
    <3>1. p.id \in Nat /\ p.kind = "result" /\ Result(p.id) = p /\ p \in Parts
      BY DEF Results, Result, Parts
    <3>2. g[p] = [role |-> "tool", texts |-> <<>>, calls |-> <<>>, id |-> p.id]
      BY DEF ToolAnswer, ToolMessage
    <3>3. g[p] \in ChatMessages /\ g[p].role = "tool" /\ g[p].id = p.id
      BY <3>1, <3>2 DEF ChatMessages, Answers
    <3> HIDE DEF g
    <3>4. ChatLines(g[p]) = Lines("tool", <<p>>)
      BY <3>1, <3>3, ChatLinesOf
    <3>5. Lines("tool", <<p>>) = <<Line("tool", p)>>
      BY <3>1, OneLine DEF Roles
    <3>6. Line("tool", p) = Line("user", p)
      BY <3>1 DEF Line
    <3> QED
      BY <3>1, <3>3, <3>4, <3>5, <3>6
  <2> QED
    BY <2>1 DEF ToolAnswer
<1> HIDE DEF g
<1>2. <<>> \in T
  <2>1. ChatSaid(Mapped(g, <<>>)) = <<>> /\ Lines("user", <<>>) = <<>>
    BY MappedEmpty, ChatSaidEmpty, LinesEmpty
  <2>2. <<>> \in Seq(Results)
    OBVIOUS
  <2> QED
    BY <2>1, <2>2
<1>3. ASSUME NEW s \in Seq(Results), NEW p \in Results, s \in T PROVE Append(s, p) \in T
  <2>1. Mapped(g, s) \in Seq(ChatMessages) /\ Mapped(g, Append(s, p)) = Append(Mapped(g, s), g[p]) /\ g[p] \in ChatMessages
    BY <1>1, MappedAppend, MappedTyped
  <2>2. ChatSaid(Mapped(g, Append(s, p))) = ChatSaid(Mapped(g, s)) \o <<Line("user", p)>>
    <3> DEFINE ms == Mapped(g, s)
               x == g[p]
    <3> HIDE DEF ms, x
    <3>1. ChatSaid(Append(ms, x)) = ChatSaid(ms) \o ChatLines(x)
      BY <2>1, ChatSaidAppend DEF ms, x
    <3> QED
      BY <1>1, <2>1, <3>1 DEF ms, x
  <2>3. s \in Seq(Parts) /\ p \in Parts /\ "user" \in Roles
    <3>1. Results \subseteq Parts
      BY DEF Parts
    <3> QED
      BY <3>1, Widened DEF Roles
  <2>4. Lines("user", Append(s, p)) = Append(Lines("user", s), Line("user", p)) /\ Lines("user", s) \in Seq(Words) /\ Line("user", p) \in Words
    BY <2>3, LinesAppend, LinesTyped, LineTyped
  <2> DEFINE ls == Lines("user", s)
             l == Line("user", p)
  <2> HIDE DEF ls, l
  <2>5. ls \o <<l>> = Append(ls, l)
    BY <2>4 DEF ls, l
  <2>6. ChatSaid(Mapped(g, Append(s, p))) = Lines("user", Append(s, p))
    BY <1>3, <2>2, <2>4, <2>5 DEF ls, l
  <2>7. Append(s, p) \in Seq(Results)
    OBVIOUS
  <2> QED
    BY <2>6, <2>7
<1> HIDE DEF T
<1>4. results \in T
  BY <1>2, <1>3, SequencesGrow
<1>5. Mapped(g, results) \in Seq(ChatMessages)
  BY <1>1, MappedTyped
<1> QED
  BY <1>4, <1>5 DEF T, g
-----------------------------------------------------------------------------
(* What is recorded of either side is what it said.                         *)

\* Nothing said is nothing recorded.
LEMMA NothingRecorded ==
    ASSUME RouteTyped, NEW role
    PROVE  HistorySaid(Recorded(role, <<>>)) = Lines(role, <<>>)
<1>1. Recorded(role, <<>>) = <<>>
  BY DEF Recorded
<1> QED
  BY <1>1, BlocksSaidEmpty, ChatSaidEmpty, ItemsSaidEmpty, LinesEmpty DEF HistorySaid, RouteTyped, Apis

\* With /v1/messages and with /v1/responses what is recorded is what was said.
LEMMA SideRecorded ==
    ASSUME RouteTyped, NEW role \in {"user", "assistant"}, NEW parts \in Seq(Blocks(role)), parts # <<>>
    PROVE  route.api # "chat" => HistorySaid(Recorded(role, parts)) = Lines(role, parts)
<1>0. parts \in Seq(Parts) /\ role \in Roles
  BY BlocksParts, Widened DEF Roles
<1>1. CASE route.api = "messages"
  <2> DEFINE m == [role |-> role, blocks |-> parts]
  <2>1. Recorded(role, parts) = <<m>> /\ m.role = role /\ m.blocks = parts
    BY <1>1 DEF Recorded
  <2>2. m \in BlockMessages
    BY DEF BlockMessages, Turned, UserMessages, AssistantMessages, Blocks
  <2> HIDE DEF m
  <2> QED
    BY <1>1, <2>1, <2>2, OneMessage DEF HistorySaid
<1>2. CASE route.api = "responses"
  <2>1. Recorded(role, parts) = [i \in DOMAIN parts |-> AsItem(role, parts[i])]
    BY <1>0, <1>2, RecordedItems
  <2>2. Mapped(ItemsBySide(role), parts) = [i \in DOMAIN parts |-> AsItem(role, parts[i])]
    <3>1. \A i \in DOMAIN parts : parts[i] \in Blocks(role)
      OBVIOUS
    <3> QED
      BY <3>1 DEF Mapped, ItemsBySide
  <2>3. Recorded(role, parts) = Mapped(ItemsBySide(role), parts)
    BY <2>1, <2>2
  <2>4. ItemsSaid(Mapped(ItemsBySide(role), parts)) = Lines(role, parts)
    BY ItemsSideSay
  <2> QED
    BY <1>2, <2>3, <2>4 DEF HistorySaid
<1> QED
  BY <1>1, <1>2 DEF RouteTyped, Apis

\* The model's turn is recorded as it was received.
LEMMA AssistantSays ==
    ASSUME RouteTyped, NEW parts \in Seq(Spoke), route.api = "chat" => parts = TextsOf(parts) \o CallsOf(parts)
    PROVE  HistorySaid(Recorded("assistant", parts)) = Lines("assistant", parts)
<1>0. parts \in Seq(Parts) /\ "assistant" \in {"user", "assistant"} /\ "assistant" \in Roles
  BY SpokenHeard DEF Roles
<1>1. CASE parts = <<>>
  BY <1>1, NothingRecorded
<1>2. CASE parts # <<>> /\ route.api # "chat"
  <2>1. Blocks("assistant") = Spoke
    BY DEF Blocks, Spoke
  <2> QED
    BY <1>0, <1>2, <2>1, SideRecorded
<1>3. CASE parts # <<>> /\ route.api = "chat"
  <2> DEFINE rec == Recorded("assistant", parts)
             results == Kept(Parts, Results, parts)
             texts == Each(LAMBDA p : p.id, TextsOf(parts))
             calls == CallsOf(parts)
             m == ChatMessage("assistant", texts, calls)
  <2>1. results = <<>>
    <3>1. Spoke \subseteq Parts \ Results
      BY DEF Spoke, Parts, Texts, Calls, Results
    <3>2. parts \in Seq(Parts \ Results)
      BY <3>1, Widened
    <3> QED
      BY <1>0, <3>2, KeptNone
  <2>2. rec = Each(LAMBDA p : ToolMessage(p.id), results)
                  \o (IF results # <<>> /\ texts = <<>> THEN <<>> ELSE <<m>>)
    BY <1>0, <1>3, RecordedMessages
  <2>3. Each(LAMBDA p : ToolMessage(p.id), results) = <<>>
    BY <2>1 DEF Each
  <2>4. rec = <<m>>
    <3> HIDE DEF m, texts, results
    <3>1. <<>> \o <<m>> = <<m>>
      OBVIOUS
    <3> QED
      BY <2>1, <2>2, <2>3, <3>1
  <2>5. m.role = "assistant" /\ m.texts = texts /\ m.calls = calls
    BY DEF ChatMessage
  <2>6. m \in ChatMessages
    <3>1. SaysAs("assistant", parts)
      BY DEF SaysAs
    <3>2. rec \in Seq(Recorder(route.api))
      BY <3>1, RecordTyped
    <3>3. rec \in Seq(ChatRecords)
      BY <1>3, <3>2 DEF Recorder
    <3> HIDE DEF m, rec
    <3>4. m \in ChatRecords
      BY <2>4, <3>3
    <3> QED
      BY <3>4, RecordsSubset
  <2>7. TextsOf(parts) \in Seq(Texts)
    BY <1>0, PartsSorted
  <2>8. Each(Text, texts) = TextsOf(parts)
    BY <2>7, NamedAgain
  <2> HIDE DEF m, rec, texts, calls
  <2>9. ChatLines(m) = Lines("assistant", Each(Text, texts) \o calls)
    BY <2>5, <2>6, ChatLinesOf
  <2>10. ChatLines(m) = Lines("assistant", parts)
    BY <1>3, <2>8, <2>9 DEF calls
  <2>11. ChatSaid(<<m>>) = ChatLines(m)
    <3>1. <<>> \in Seq(ChatMessages) /\ Append(<<>>, m) = <<m>>
      OBVIOUS
    <3>2. ChatSaid(<<m>>) = <<>> \o ChatLines(m)
      BY <2>6, <3>1, ChatSaidAppend, ChatSaidEmpty
    <3>3. ChatLines(m) \in Seq(Words)
      BY <2>6, ChatWordsTyped DEF ChatWords
    <3> QED
      BY <3>2, <3>3
  <2> QED
    BY <1>3, <2>4, <2>10, <2>11 DEF HistorySaid, rec
<1> QED
  BY <1>1, <1>2, <1>3

\* So is what the client says to it, the results first.
LEMMA UserSays ==
    ASSUME RouteTyped, NEW results \in Seq(Results), NEW more \in Seq(Texts)
    PROVE  HistorySaid(Recorded("user", results \o more)) = Lines("user", results \o more)
<1> DEFINE parts == results \o more
<1>0. /\ results \in Seq(Wrote) /\ more \in Seq(Wrote) /\ results \in Seq(Parts) /\ more \in Seq(Parts)
      /\ "user" \in {"user", "assistant"} /\ "user" \in Roles
  <2>1. Results \subseteq Wrote /\ Texts \subseteq Wrote /\ Results \subseteq Parts /\ Texts \subseteq Parts
    BY DEF Wrote, Parts
  <2> QED
    BY <2>1, Widened DEF Roles
<1>1. parts \in Seq(Wrote) /\ parts \in Seq(Parts)
  BY <1>0
<1>2. CASE parts = <<>>
  BY <1>2, NothingRecorded
<1>3. CASE parts # <<>> /\ route.api # "chat"
  <2>1. Blocks("user") = Wrote
    BY DEF Blocks, Wrote
  <2> HIDE DEF parts
  <2>2. HistorySaid(Recorded("user", parts)) = Lines("user", parts)
    BY <1>0, <1>1, <1>3, <2>1, SideRecorded
  <2> QED
    BY <2>2 DEF parts
<1>4. CASE parts # <<>> /\ route.api = "chat"
  <2> DEFINE rec == Recorded("user", parts)
             texts == Each(LAMBDA p : p.id, TextsOf(parts))
             m == ChatMessage("user", texts, CallsOf(parts))
  <2>1. Kept(Parts, Results, parts) = results
    <3>1. Results = Parts \intersect Results /\ Texts \subseteq Parts \ Results
      BY DEF Parts, Results, Texts, Calls
    <3>2. Kept(Parts, Results, results) = results
      BY <3>1, KeptAll
    <3>3. Kept(Parts, Results, more) = <<>>
      <4>1. more \in Seq(Parts \ Results)
        BY <3>1, Widened
      <4> QED
        BY <4>1, KeptNone
    <3>4. Kept(Parts, Results, parts) = results \o <<>>
      <4>1. Kept(Parts, Results, results \o more) = Kept(Parts, Results, results) \o Kept(Parts, Results, more)
        <5> HIDE DEF parts, rec, texts, m
        <5> QED
          BY <1>0, KeptConcat
      <4> QED
        BY <3>2, <3>3, <4>1
    <3> QED
      BY <3>4
  <2>2. TextsOf(parts) = more
    <3>1. Texts = Parts \intersect Texts /\ Results \subseteq Parts \ Texts
      BY DEF Parts, Results, Texts, Calls
    <3>2. Kept(Parts, Texts, more) = more
      BY <3>1, KeptAll
    <3>3. Kept(Parts, Texts, results) = <<>>
      <4>1. results \in Seq(Parts \ Texts)
        BY <3>1, Widened
      <4> QED
        BY <4>1, KeptNone
    <3>4. Kept(Parts, Texts, parts) = <<>> \o more
      <4>1. Kept(Parts, Texts, results \o more) = Kept(Parts, Texts, results) \o Kept(Parts, Texts, more)
        <5> HIDE DEF parts, rec, texts, m
        <5> QED
          BY <1>0, KeptConcat
      <4> QED
        BY <3>2, <3>3, <4>1
    <3>5. TextsOf(parts) = Kept(Parts, Texts, parts)
      BY <1>1, PartsSorted
    <3> QED
      BY <3>4, <3>5
  <2>3. CallsOf(parts) = <<>>
    <3>1. CallsOf(parts) = Kept(Parts, Calls, parts)
      BY <1>1, PartsSorted
    <3> QED
      BY <1>1, <3>1, SpokenHeard
  <2>4. rec = Each(LAMBDA p : ToolMessage(p.id), results)
                  \o (IF results # <<>> /\ texts = <<>> THEN <<>> ELSE <<m>>)
    <3> HIDE DEF parts
    <3> QED
      BY <1>0, <1>1, <1>4, <2>1, RecordedMessages
  <2> DEFINE answers == Mapped(ToolAnswer, results)
  <2>5. Each(LAMBDA p : ToolMessage(p.id), results) = answers
    <3>1. \A i \in DOMAIN results : results[i] \in Results
      OBVIOUS
    <3> QED
      BY <3>1 DEF Each, Mapped, ToolAnswer
  <2>6. answers \in Seq(ChatMessages) /\ ChatSaid(answers) = Lines("user", results)
    BY ToolAnswersSay
  <2>7. texts \in Seq(Nat) /\ Each(Text, texts) = more /\ (texts = <<>> <=> more = <<>>)
    <3>1. Each(LAMBDA p : p.id, more) \in Seq(Nat) /\ Each(Text, Each(LAMBDA p : p.id, more)) = more
      BY NamedAgain
    <3>2. Each(LAMBDA p : p.id, more) = <<>> <=> more = <<>>
      BY DEF Each
    <3> HIDE DEF parts
    <3> QED
      BY <2>2, <3>1, <3>2
  <2>8. m.role = "user" /\ m.texts = texts /\ m.calls = <<>>
    BY <2>3 DEF ChatMessage
  <2>9. ASSUME more # <<>> PROVE m \in ChatMessages /\ ChatLines(m) = Lines("user", more)
    <3>1. m = [role |-> "user", texts |-> texts, calls |-> <<>>, id |-> 0]
      BY <2>3 DEF ChatMessage
    <3> HIDE DEF texts, m
    <3>2. m \in ChatMessages
      BY <2>7, <2>9, <3>1 DEF ChatMessages, Remarks
    <3>3. ChatLines(m) = Lines("user", Each(Text, texts) \o <<>>)
      BY <2>8, <3>2, ChatLinesOf
    <3>4. more \o <<>> = more
      OBVIOUS
    <3> QED
      BY <2>7, <3>2, <3>3, <3>4
  <2> HIDE DEF answers, texts, m
  <2>10. Lines("user", results \o more) = Lines("user", results) \o Lines("user", more)
    BY <1>0, LinesConcat
  <2>11. CASE more = <<>>
    <3>1. results # <<>>
      BY <1>4, <2>11
    <3>2. rec = answers \o <<>>
      BY <2>4, <2>5, <2>7, <2>11, <3>1
    <3>3. answers \o <<>> = answers
      BY <2>6
    <3>4. results \o more = results
      BY <2>11
    <3> QED
      BY <1>4, <2>6, <3>2, <3>3, <3>4 DEF HistorySaid, rec
  <2>12. CASE more # <<>>
    <3>1. rec = answers \o <<m>>
      BY <2>4, <2>5, <2>7, <2>12
    <3>2. answers \o <<m>> = Append(answers, m)
      BY <2>6, <2>9, <2>12
    <3>3. ChatSaid(Append(answers, m)) = ChatSaid(answers) \o ChatLines(m)
      BY <2>6, <2>9, <2>12, ChatSaidAppend
    <3> HIDE DEF rec
    <3>4. ChatSaid(rec) = Lines("user", results) \o Lines("user", more)
      BY <2>6, <2>9, <2>12, <3>1, <3>2, <3>3
    <3> QED
      BY <1>4, <2>10, <3>4 DEF HistorySaid, rec
  <2> QED
    BY <2>11, <2>12
<1> QED
  BY <1>2, <1>3, <1>4
-----------------------------------------------------------------------------
(* The client answers and the model calls by the rules.                     *)

\* An order of the members of a finite set has each of them, once.
LEMMA OrderOnce ==
    ASSUME NEW S, IsFiniteSet(S), NEW order \in SetToSeqs(S)
    PROVE  \E n \in Nat : /\ order \in [1..n -> S]
                          /\ \A i, j \in 1..n : order[i] = order[j] => i = j
                          /\ \A x \in S : \E i \in 1..n : order[i] = x
<1> DEFINE n == Cardinality(S)
<1>1. n \in Nat
  BY FS_CardinalityType
<1>2. order \in [1..n -> S] /\ \A i, j \in 1..n : i # j => order[i] # order[j]
  BY DEF SetToSeqs
<1>3. Cardinality(1..n) = n
  <2> HIDE DEF n
  <2>1. 1 \in Int /\ n \in Int
    BY <1>1
  <2>2. Cardinality(1..n) = IF 1 > n THEN 0 ELSE n - 1 + 1
    BY <2>1, FS_Interval
  <2> QED
    BY <1>1, <2>2
<1> HIDE DEF n
<1>4. order \in Injection(1..n, S)
  BY <1>2 DEF Injection, IsInjective
<1>5. order \in Surjection(1..n, S)
  <2>1. Cardinality(1..n) = Cardinality(S) <=> order \in Surjection(1..n, S)
    BY <1>4, FS_Injection
  <2> QED
    BY <1>3, <2>1 DEF n
<1>6. \A x \in S : \E i \in 1..n : order[i] = x
  BY <1>5 DEF Surjection
<1> QED
  BY <1>1, <1>2, <1>6

\* The calls of a turn are finitely many.
LEMMA AskedFinite ==
    ASSUME NEW parts \in Seq(Spoke)
    PROVE  IsFiniteSet(AskedIn(parts))
<1> DEFINE asked == {k \in DOMAIN parts : parts[k].kind = "call"}
           f == [i \in asked |-> parts[i].id]
<1>1. IsFiniteSet(asked)
  <2>1. DOMAIN parts = 1..Len(parts) /\ 1 \in Int /\ Len(parts) \in Int
    OBVIOUS
  <2>2. IsFiniteSet(DOMAIN parts)
    BY <2>1, FS_Interval
  <2> QED
    BY <2>2, FS_Subset
<1>2. f \in Surjection(asked, AskedIn(parts))
  BY DEF Surjection, AskedIn
<1> HIDE DEF f, asked
<1> QED
  BY <1>1, <1>2, FS_Surjection

\* A result and the call that it answers.
LEMMA ResultIs == \A id : Result(id).kind = "result" /\ Result(id).id = id
  BY DEF Result

\* A client answers all the calls of a turn before it says anything else.
LEMMA ClientResponds ==
    ASSUME NEW parts \in Seq(Spoke), NEW order \in SetToSeqs(AskedIn(parts)),
           Each(Result, order) \in Seq(Results), NEW more \in Seq(Texts)
    PROVE  /\ Lines("user", Each(Result, order) \o more) \in Seq(Words)
           /\ Responds(Lines("user", Each(Result, order) \o more))
           /\ ResultsIn(Lines("user", Each(Result, order) \o more)) = AskedIn(parts)
<1> DEFINE results == Each(Result, order)
           all == results \o more
           lines == Lines("user", all)
<1>1. PICK n \in Nat : /\ order \in [1..n -> AskedIn(parts)]
                       /\ \A i, j \in 1..n : order[i] = order[j] => i = j
                       /\ \A x \in AskedIn(parts) : \E i \in 1..n : order[i] = x
  BY AskedFinite, OrderOnce
<1>2. /\ DOMAIN results = 1..n /\ Len(results) = n
      /\ \A i \in 1..n : results[i].kind = "result" /\ results[i].id = order[i]
  <2>1. DOMAIN results = 1..n /\ \A i \in 1..n : results[i] = Result(order[i])
    BY <1>1 DEF Each
  <2>2. Len(results) = n
    <3> HIDE DEF results
    <3>1. Len(results) \in Nat /\ DOMAIN results = 1..Len(results)
      BY DEF results
    <3> QED
      BY <2>1, <3>1
  <2>3. \A id : Result(id).kind = "result" /\ Result(id).id = id
    BY ResultIs
  <2> HIDE DEF results
  <2> QED
    BY <2>1, <2>2, <2>3
<1>3. all \in Seq(Parts)
  <2>1. Results \subseteq Parts /\ Texts \subseteq Parts
    BY DEF Parts
  <2>2. results \in Seq(Results)
    OBVIOUS
  <2> HIDE DEF results
  <2>3. results \in Seq(Parts)
    BY <2>1, <2>2, Widened
  <2>4. more \in Seq(Parts)
    BY <2>1, Widened
  <2>5. results \o more \in Seq(Parts)
    BY <2>3, <2>4
  <2> QED
    BY <2>5
<1>4. Behind(all, results, more)
  <2>1. results \in Seq(Results)
    OBVIOUS
  <2> HIDE DEF results
  <2>2. Results \subseteq Results \union Texts /\ Texts \subseteq Results \union Texts
    OBVIOUS
  <2>3. results \in Seq(Results \union Texts)
    BY <2>1, <2>2, Widened
  <2>4. more \in Seq(Results \union Texts)
    BY <2>2, Widened
  <2> QED
    BY <2>3, <2>4, IsBehind
<1> HIDE DEF results, all
<1>5. \A i \in DOMAIN all : /\ i \in Nat
                            /\ \/ i \in 1..n /\ all[i].kind = "result" /\ all[i].id = order[i]
                               \/ i > n /\ all[i].kind = "text"
  <2>1. \A i \in DOMAIN more : more[i].kind = "text"
    <3>1. \A i \in DOMAIN more : more[i] \in Texts
      OBVIOUS
    <3> QED
      BY <3>1 DEF Texts
  <2>2. \A i \in DOMAIN all : /\ i \in Nat
                              /\ \/ i \in DOMAIN results /\ all[i] = results[i]
                                 \/ i - Len(results) \in DOMAIN more /\ all[i] = more[i - Len(results)] /\ i > Len(results)
    BY <1>4, PlaceBehind
  <2> QED
    BY <1>2, <2>1, <2>2
<1>6. \A i \in 1..n : i \in DOMAIN all
  BY <1>2, <1>4 DEF Behind
<1>7. /\ lines \in Seq(Words) /\ DOMAIN lines = DOMAIN all
      /\ \A i \in DOMAIN all : lines[i].kind = all[i].kind /\ lines[i].id = all[i].id
  <2>1. "user" \in Roles
    BY DEF Roles
  <2>2. lines \in Seq(Words) /\ Len(lines) = Len(all) /\ \A i \in DOMAIN all : lines[i] = Line("user", all[i])
    BY <1>3, <2>1, SpokenBy
  <2> HIDE DEF lines
  <2>3. DOMAIN lines = 1..Len(lines) /\ DOMAIN all = 1..Len(all)
    BY <1>3, <2>2
  <2> QED
    BY <2>2, <2>3 DEF Line
<1> HIDE DEF lines
<1>8. Responds(lines)
  <2>1. AnsweredOnce(lines)
    BY <1>1, <1>5, <1>7 DEF AnsweredOnce
  <2>2. \A i \in DOMAIN lines : lines[i].kind \in {"text", "result"}
    BY <1>5, <1>7
  <2>3. ASSUME NEW i \in DOMAIN lines, NEW j \in DOMAIN lines, i < j, lines[j].kind = "result"
        PROVE  lines[i].kind = "result"
    <3>1. j \in 1..n /\ i \in Nat /\ j \in Nat
      BY <1>5, <1>7, <2>3
    <3>2. ~(i > n)
      BY <2>3, <3>1
    <3> QED
      BY <1>5, <1>7, <3>2
  <2> QED
    BY <2>1, <2>2, <2>3 DEF Responds
<1>9. ResultsIn(lines) = AskedIn(parts)
  <2>1. ASSUME NEW x \in ResultsIn(lines) PROVE x \in AskedIn(parts)
    <3>1. PICK i \in DOMAIN lines : lines[i].kind = "result" /\ lines[i].id = x
      BY <2>1 DEF ResultsIn
    <3>2. i \in 1..n /\ order[i] = x
      BY <1>5, <1>7, <3>1
    <3> QED
      BY <1>1, <3>2
  <2>2. ASSUME NEW x \in AskedIn(parts) PROVE x \in ResultsIn(lines)
    <3>1. PICK i \in 1..n : order[i] = x
      BY <1>1, <2>2
    <3>2. i \in DOMAIN all /\ ~(i > n)
      BY <1>1, <1>6, <3>1
    <3>3. i \in DOMAIN lines /\ lines[i].kind = "result" /\ lines[i].id = x
      BY <1>5, <1>7, <3>1, <3>2
    <3> QED
      BY <3>3 DEF ResultsIn
  <2> QED
    BY <2>1, <2>2
<1> QED
  BY <1>7, <1>8, <1>9 DEF lines, all, results

\* A model that has each of its calls once and says nothing behind them.
LEMMA ModelProposes ==
    ASSUME requests \in Nat, NEW parts \in Seq(Spoke), NEW b \in Nat, Rising(parts, b),
           ~CallThenText(Lines("assistant", parts))
    PROVE  /\ Lines("assistant", parts) \in Seq(Words)
           /\ Proposes(Lines("assistant", parts))
           /\ CallsIn(Lines("assistant", parts)) = AskedIn(parts)
           /\ CallsIn(Lines("assistant", parts)) \subseteq (Id(0) + 1)..b
<1> DEFINE lines == Lines("assistant", parts)
<1>1. /\ lines \in Seq(Words) /\ DOMAIN lines = DOMAIN parts
      /\ \A i \in DOMAIN parts : lines[i].kind = parts[i].kind /\ lines[i].id = parts[i].id
      /\ \A i \in DOMAIN parts : lines[i].role = "assistant" /\ parts[i].kind \in {"text", "call"}
  <2>1. "assistant" \in Roles /\ parts \in Seq(Parts)
    BY SpokenHeard DEF Roles
  <2>2. lines \in Seq(Words) /\ Len(lines) = Len(parts) /\ \A i \in DOMAIN parts : lines[i] = Line("assistant", parts[i])
    BY <2>1, SpokenBy
  <2> HIDE DEF lines
  <2>3. DOMAIN lines = 1..Len(lines) /\ DOMAIN parts = 1..Len(parts)
    BY <2>1, <2>2
  <2>4. \A i \in DOMAIN parts : parts[i].kind \in {"text", "call"}
    <3>1. \A i \in DOMAIN parts : parts[i] \in Spoke
      OBVIOUS
    <3> QED
      BY <3>1 DEF Spoke, Texts, Calls
  <2> QED
    BY <2>2, <2>3, <2>4 DEF Line
<1> HIDE DEF lines
<1>2. CallsIn(lines) = AskedIn(parts)
  BY <1>1 DEF CallsIn, AskedIn
<1>3. AskedIn(parts) \subseteq (Id(0) + 1)..b
  BY DEF AskedIn, Rising
<1>4. CalledOnce(lines)
  <2> SUFFICES ASSUME NEW i \in DOMAIN lines, NEW j \in DOMAIN lines,
                      lines[i].kind = "call", lines[j].kind = "call", lines[i].id = lines[j].id
               PROVE  i = j
    BY DEF CalledOnce
  <2>1. i \in Nat /\ j \in Nat
    BY <1>1
  <2>2. parts[i].kind = "call" /\ parts[j].kind = "call" /\ parts[i].id = parts[j].id
    BY <1>1
  <2>3. (i < j => parts[i].id < parts[j].id) /\ (j < i => parts[j].id < parts[i].id)
    BY <1>1, <2>2 DEF Rising
  <2>4. parts[i].id \in (Id(0) + 1)..b
    BY <1>1, <2>2 DEF Rising
  <2>5. parts[i].id \in Int
    BY <2>4
  <2> QED
    BY <2>1, <2>2, <2>3, <2>5
<1>5. \A i, j \in DOMAIN lines : i < j /\ lines[i].kind = "call" => lines[j].kind = "call"
  BY <1>1, CallsLast DEF lines
<1>6. Proposes(lines)
  BY <1>1, <1>4, <1>5 DEF Proposes
<1> QED
  BY <1>1, <1>2, <1>3, <1>6 DEF lines
-----------------------------------------------------------------------------
(* What a request adds to the lines of its history.                         *)

\* With nothing behind it a sequence is what it was.
LEMMA NothingBehind ==
    ASSUME NEW S, NEW s \in Seq(S)
    PROVE  s \o <<>> = s
  OBVIOUS

\* What is said in front of, by, between and behind two speakers: to the system
\* belongs what was said between them, and to the others the rest.
LEMMA OthersLater ==
    ASSUME NEW hs \in Seq(Words), NEW as \in Seq(Plain), NEW ns \in Seq(SystemWords), NEW us \in Seq(Plain)
    PROVE  /\ OthersOf(((hs \o as) \o ns) \o us) = OthersOf(hs) \o (as \o us)
           /\ as \o us \in Seq(Words) /\ OthersOf(hs) \in Seq(Words)
<1>1. as \in Seq(Words) /\ ns \in Seq(Words) /\ us \in Seq(Words)
  <2>1. Plain \subseteq Words /\ SystemWords \subseteq Words
    BY DEF Plain, SystemWords
  <2> QED
    BY <2>1, Widened
<1>2. OthersOf(as) = as /\ OthersOf(us) = us
  BY SystemLinesSplit DEF Plain
<1>3. OthersOf(ns) = <<>>
  BY SystemLinesKept
<1>4. OthersOf(hs) \in Seq(Words)
  BY SplitTyped
<1>5. hs \o as \in Seq(Words) /\ OthersOf(hs \o as) = OthersOf(hs) \o as
  <2>1. OthersOf(hs \o as) = OthersOf(hs) \o OthersOf(as)
    BY <1>1, SplitConcat
  <2>2. hs \o as \in Seq(Words)
    BY <1>1, OneOfTwo
  <2>3. OthersOf(hs) \o OthersOf(as) = OthersOf(hs) \o as
    BY <1>2
  <2> QED
    BY <2>1, <2>2, <2>3
<1>6. (hs \o as) \o ns \in Seq(Words) /\ OthersOf((hs \o as) \o ns) = OthersOf(hs) \o as
  <2> DEFINE front == hs \o as
  <2>1. front \in Seq(Words)
    BY <1>5
  <2> HIDE DEF front
  <2>2. front \o ns \in Seq(Words) /\ OthersOf(front \o ns) = OthersOf(front) \o OthersOf(ns)
    BY <1>1, <2>1, SplitConcat, OneOfTwo
  <2>3. OthersOf(front) \in Seq(Words)
    BY <2>1, SplitTyped
  <2>4. OthersOf(front) \o <<>> = OthersOf(front)
    BY <2>3, NothingBehind
  <2>5. OthersOf(front \o ns) = OthersOf(front)
    BY <1>3, <2>2, <2>4
  <2> QED
    BY <1>5, <2>2, <2>5 DEF front
<1>7. OthersOf(((hs \o as) \o ns) \o us) = (OthersOf(hs) \o as) \o us
  <2> DEFINE front == (hs \o as) \o ns
  <2>1. front \in Seq(Words) /\ OthersOf(front) = OthersOf(hs) \o as
    BY <1>6
  <2> HIDE DEF front
  <2>2. OthersOf(front \o us) = OthersOf(front) \o OthersOf(us)
    BY <1>1, <2>1, SplitConcat
  <2>3. OthersOf(front \o us) = (OthersOf(hs) \o as) \o us
    BY <1>2, <2>1, <2>2
  <2> QED
    BY <2>3 DEF front
<1>8. Associate(OthersOf(hs), as, us)
  BY <1>1, <1>4, Associates
<1>9. as \o us \in Seq(Words)
  BY <1>1, OneOfTwo
<1> QED
  BY <1>4, <1>7, <1>8, <1>9 DEF Associate

\* What a model says right behind a call stays so.
LEMMA CallThenTextStays ==
    ASSUME NEW hs \in Seq(Words), NEW as \in Seq(Words), NEW ns \in Seq(Words), NEW us \in Seq(Words),
           CallThenText(hs) \/ CallThenText(as)
    PROVE  CallThenText(((hs \o as) \o ns) \o us)
<1>1. hs \o as \in Seq(Words) /\ CallThenText(hs \o as)
  <2>1. hs \o as \in Seq(Words)
    BY OneOfTwo
  <2>2. Behind(hs \o as, hs, as)
    BY IsBehind
  <2> QED
    BY <2>1, <2>2, CallThenTextWithin
<1> DEFINE one == hs \o as
<1> HIDE DEF one
<1>2. one \in Seq(Words) /\ CallThenText(one)
  BY <1>1 DEF one
<1>3. one \o ns \in Seq(Words) /\ CallThenText(one \o ns)
  <2>1. one \o ns \in Seq(Words)
    BY <1>2, OneOfTwo
  <2>2. Behind(one \o ns, one, ns)
    BY <1>2, IsBehind
  <2> QED
    BY <1>2, <2>1, <2>2, CallThenTextWithin
<1> DEFINE two == one \o ns
<1> HIDE DEF two
<1>4. two \in Seq(Words) /\ CallThenText(two)
  BY <1>3 DEF two
<1>5. Behind(two \o us, two, us)
  BY <1>4, IsBehind
<1>6. CallThenText(two \o us)
  BY <1>4, <1>5, CallThenTextWithin
<1> QED
  BY <1>6 DEF one, two

\* What is recorded in four steps is said in four steps.
SaidInSteps(h, one, note, two) ==
    HistorySaid(h \o one \o note \o two)
       = ((HistorySaid(h) \o HistorySaid(one)) \o HistorySaid(note)) \o HistorySaid(two)

\* Each of the steps is in the format of the route.
LEMMA RequestSays ==
    ASSUME RouteTyped, NEW h \in Seq(Recorder(route.api)), NEW one \in Seq(Recorder(route.api)),
           NEW note \in Seq(Recorder(route.api)), NEW two \in Seq(Recorder(route.api))
    PROVE  /\ h \o one \o note \o two \in Seq(Recorder(route.api))
           /\ HistorySaid(h) \in Seq(Words) /\ HistorySaid(note) \in Seq(Words)
           /\ SaidInSteps(h, one, note, two)
<1>1. h \o one \in Seq(Recorder(route.api)) /\ HistorySaid(h \o one) = HistorySaid(h) \o HistorySaid(one)
      /\ HistorySaid(h) \in Seq(Words)
  BY HistorySaidConcat
<1>2. (h \o one) \o note \in Seq(Recorder(route.api))
      /\ HistorySaid((h \o one) \o note) = HistorySaid(h \o one) \o HistorySaid(note)
      /\ HistorySaid(note) \in Seq(Words)
  BY <1>1, HistorySaidConcat
<1>3. ((h \o one) \o note) \o two \in Seq(Recorder(route.api))
      /\ HistorySaid(((h \o one) \o note) \o two) = HistorySaid((h \o one) \o note) \o HistorySaid(two)
  BY <1>2, HistorySaidConcat
<1> QED
  BY <1>1, <1>2, <1>3 DEF SaidInSteps
-----------------------------------------------------------------------------
(* What a further line may be.                                              *)

\* The line that is behind lines.
LEMMA NewestLine ==
    ASSUME NEW both, NEW lines, NEW more, Behind(both, lines, more), Len(more) = 1
    PROVE  \E n \in Nat : /\ n \in DOMAIN both /\ both[n] = more[1]
                          /\ \A i \in DOMAIN both : /\ i \in Nat
                                                    /\ \/ i \in DOMAIN lines /\ both[i] = lines[i] /\ i < n
                                                       \/ i = n
                          /\ \A i \in DOMAIN lines : i \in Nat /\ i < n /\ i \in DOMAIN both /\ both[i] = lines[i]
<1> DEFINE n == Len(lines) + 1
<1>1. /\ Len(lines) \in Nat
      /\ \A i \in DOMAIN lines : i \in Nat /\ i <= Len(lines) /\ i \in DOMAIN both /\ both[i] = lines[i]
      /\ \A i \in DOMAIN more : i \in Nat /\ i >= 1 /\ Len(lines) + i \in DOMAIN both /\ both[Len(lines) + i] = more[i]
  BY BehindPlace
<1>2. DOMAIN more = {1}
  BY DEF Behind
<1>3. n \in Nat /\ n \in DOMAIN both /\ both[n] = more[1]
  BY <1>1, <1>2
<1>4. ASSUME NEW i \in DOMAIN both PROVE i \in Nat /\ ((i \in DOMAIN lines /\ both[i] = lines[i] /\ i < n) \/ i = n)
  <2>1. i \in Nat /\ ((i \in DOMAIN lines /\ both[i] = lines[i]) \/ i - Len(lines) \in DOMAIN more)
    BY PlaceBehind
  <2>2. CASE i \in DOMAIN lines /\ both[i] = lines[i]
    BY <1>1, <2>1, <2>2
  <2>3. CASE i - Len(lines) \in DOMAIN more
    <3>1. i - Len(lines) = 1
      BY <1>2, <2>3
    <3> QED
      BY <1>1, <2>1, <3>1
  <2> QED
    BY <2>1, <2>2, <2>3
<1>5. \A i \in DOMAIN lines : i \in Nat /\ i < n /\ i \in DOMAIN both /\ both[i] = lines[i]
  BY <1>1
<1> HIDE DEF n
<1> QED
  BY <1>3, <1>4, <1>5

\* A further call obeys if its id is new and calls that wait are the latest lines.
LEMMA CallObeys ==
    ASSUME NEW both, NEW lines, NEW more, Behind(both, lines, more), Obeys(lines),
           Len(more) = 1, more[1].kind = "call", more[1].id \notin CallsIn(lines),
           \A i, k \in DOMAIN lines : lines[i].kind = "call" /\ lines[i].id \in Waiting(lines) /\ i <= k
                                         => lines[k].kind = "call"
    PROVE  Obeys(both)
<1>1. PICK n \in Nat : /\ n \in DOMAIN both /\ both[n] = more[1]
                       /\ \A i \in DOMAIN both : /\ i \in Nat
                                                 /\ \/ i \in DOMAIN lines /\ both[i] = lines[i] /\ i < n
                                                    \/ i = n
                       /\ \A i \in DOMAIN lines : i \in Nat /\ i < n /\ i \in DOMAIN both /\ both[i] = lines[i]
  BY NewestLine
<1>2. CalledOnce(both)
  <2>1. \A i \in DOMAIN lines : lines[i].kind = "call" => lines[i].id # more[1].id
    BY IdsIn
  <2> QED
    BY <1>1, <2>1 DEF CalledOnce, Obeys
<1>3. AnsweredOnce(both)
  BY <1>1 DEF AnsweredOnce, Obeys
<1>4. AnsweredLater(both)
  <2> SUFFICES ASSUME NEW j \in DOMAIN both, both[j].kind = "result"
               PROVE  \E i \in DOMAIN both : i < j /\ both[i].kind = "call" /\ both[i].id = both[j].id
    BY DEF AnsweredLater
  <2>1. j \in DOMAIN lines /\ both[j] = lines[j]
    BY <1>1
  <2>2. PICK i \in DOMAIN lines : i < j /\ lines[i].kind = "call" /\ lines[i].id = lines[j].id
    BY <2>1 DEF Obeys, AnsweredLater
  <2> QED
    BY <1>1, <2>1, <2>2
<1>5. AnsweredFirst(both)
  <2> SUFFICES ASSUME NEW i \in DOMAIN both, NEW j \in DOMAIN both, i < j, both[i].kind = "call", both[j].kind # "result"
               PROVE  \/ \E k \in DOMAIN both : k < j /\ both[k].kind = "result" /\ both[k].id = both[i].id
                      \/ both[j].kind = "call" /\ \A k \in DOMAIN both : i <= k /\ k <= j => both[k].kind = "call"
    BY DEF AnsweredFirst
  <2>1. i \in DOMAIN lines /\ both[i] = lines[i] /\ i \in Nat /\ j \in Nat
    BY <1>1
  <2>2. CASE j \in DOMAIN lines
    <3>1. \/ \E k \in DOMAIN lines : k < j /\ lines[k].kind = "result" /\ lines[k].id = lines[i].id
          \/ lines[j].kind = "call" /\ \A k \in DOMAIN lines : i <= k /\ k <= j => lines[k].kind = "call"
      BY <1>1, <2>1, <2>2 DEF Obeys, AnsweredFirst
    <3>2. \A k \in DOMAIN both : k <= j => k \in DOMAIN lines
      BY <1>1, <2>2
    <3> QED
      BY <1>1, <2>1, <2>2, <3>1, <3>2
  <2>3. CASE j = n
    <3>1. CASE lines[i].id \in Waiting(lines)
      BY <1>1, <2>1, <2>3, <3>1
    <3>2. CASE lines[i].id \notin Waiting(lines)
      <4>1. lines[i].id \in ResultsIn(lines)
        BY <2>1, <3>2, IdsIn DEF Waiting
      <4>2. PICK k \in DOMAIN lines : lines[k].kind = "result" /\ lines[k].id = lines[i].id
        BY <4>1 DEF ResultsIn
      <4> QED
        BY <1>1, <2>1, <2>3, <4>2
    <3> QED
      BY <3>1, <3>2
  <2> QED
    BY <1>1, <2>2, <2>3
<1> QED
  BY <1>2, <1>3, <1>4, <1>5 DEF Obeys

\* A further result obeys if its call waits.
LEMMA ResultObeys ==
    ASSUME NEW both, NEW lines, NEW more, Behind(both, lines, more), Obeys(lines),
           Len(more) = 1, more[1].kind = "result", more[1].id \in Waiting(lines)
    PROVE  Obeys(both)
<1>1. PICK n \in Nat : /\ n \in DOMAIN both /\ both[n] = more[1]
                       /\ \A i \in DOMAIN both : /\ i \in Nat
                                                 /\ \/ i \in DOMAIN lines /\ both[i] = lines[i] /\ i < n
                                                    \/ i = n
                       /\ \A i \in DOMAIN lines : i \in Nat /\ i < n /\ i \in DOMAIN both /\ both[i] = lines[i]
  BY NewestLine
<1>2. CalledOnce(both)
  BY <1>1 DEF CalledOnce, Obeys
<1>3. AnsweredOnce(both)
  <2>1. \A i \in DOMAIN lines : lines[i].kind = "result" => lines[i].id # more[1].id
    BY IdsIn DEF Waiting
  <2> QED
    BY <1>1, <2>1 DEF AnsweredOnce, Obeys
<1>4. AnsweredLater(both)
  <2> SUFFICES ASSUME NEW j \in DOMAIN both, both[j].kind = "result"
               PROVE  \E i \in DOMAIN both : i < j /\ both[i].kind = "call" /\ both[i].id = both[j].id
    BY DEF AnsweredLater
  <2>1. CASE j \in DOMAIN lines /\ both[j] = lines[j]
    <3>1. PICK i \in DOMAIN lines : i < j /\ lines[i].kind = "call" /\ lines[i].id = lines[j].id
      BY <2>1 DEF Obeys, AnsweredLater
    <3> QED
      BY <1>1, <2>1, <3>1
  <2>2. CASE j = n
    <3>1. PICK i \in DOMAIN lines : lines[i].kind = "call" /\ lines[i].id = more[1].id
      BY DEF Waiting, CallsIn
    <3> QED
      BY <1>1, <2>2, <3>1
  <2> QED
    BY <1>1, <2>1, <2>2
<1>5. AnsweredFirst(both)
  <2> SUFFICES ASSUME NEW i \in DOMAIN both, NEW j \in DOMAIN both, i < j, both[i].kind = "call", both[j].kind # "result"
               PROVE  \/ \E k \in DOMAIN both : k < j /\ both[k].kind = "result" /\ both[k].id = both[i].id
                      \/ both[j].kind = "call" /\ \A k \in DOMAIN both : i <= k /\ k <= j => both[k].kind = "call"
    BY DEF AnsweredFirst
  <2>1. /\ i \in DOMAIN lines /\ both[i] = lines[i] /\ j \in DOMAIN lines /\ both[j] = lines[j]
        /\ \A k \in DOMAIN both : k <= j => k \in DOMAIN lines
    BY <1>1
  <2>2. \/ \E k \in DOMAIN lines : k < j /\ lines[k].kind = "result" /\ lines[k].id = lines[i].id
        \/ lines[j].kind = "call" /\ \A k \in DOMAIN lines : i <= k /\ k <= j => lines[k].kind = "call"
    BY <2>1 DEF Obeys, AnsweredFirst
  <2> QED
    BY <1>1, <2>1, <2>2
<1> QED
  BY <1>2, <1>3, <1>4, <1>5 DEF Obeys

\* Texts obey if nothing waits.
LEMMA TextsObey ==
    ASSUME NEW both, NEW lines, NEW more, Behind(both, lines, more), Obeys(lines),
           \A i \in DOMAIN more : more[i].kind = "text", Waiting(lines) = {}
    PROVE  Obeys(both)
<1>1. \A i \in DOMAIN both : /\ i \in Nat
                             /\ \/ i \in DOMAIN lines /\ both[i] = lines[i]
                                \/ i > Len(lines) /\ both[i].kind = "text"
  BY PlaceBehind
<1>2. Len(lines) \in Nat /\ \A i \in DOMAIN lines : i \in Nat /\ i <= Len(lines) /\ i \in DOMAIN both /\ both[i] = lines[i]
  BY BehindPlace
<1>3. CalledOnce(both) /\ AnsweredOnce(both)
  BY <1>1 DEF CalledOnce, AnsweredOnce, Obeys
<1>4. AnsweredLater(both)
  <2> SUFFICES ASSUME NEW j \in DOMAIN both, both[j].kind = "result"
               PROVE  \E i \in DOMAIN both : i < j /\ both[i].kind = "call" /\ both[i].id = both[j].id
    BY DEF AnsweredLater
  <2>1. j \in DOMAIN lines /\ both[j] = lines[j]
    BY <1>1
  <2>2. PICK i \in DOMAIN lines : i < j /\ lines[i].kind = "call" /\ lines[i].id = lines[j].id
    BY <2>1 DEF Obeys, AnsweredLater
  <2> QED
    BY <1>2, <2>1, <2>2
<1>5. AnsweredFirst(both)
  <2> SUFFICES ASSUME NEW i \in DOMAIN both, NEW j \in DOMAIN both, i < j, both[i].kind = "call", both[j].kind # "result"
               PROVE  \/ \E k \in DOMAIN both : k < j /\ both[k].kind = "result" /\ both[k].id = both[i].id
                      \/ both[j].kind = "call" /\ \A k \in DOMAIN both : i <= k /\ k <= j => both[k].kind = "call"
    BY DEF AnsweredFirst
  <2>1. i \in DOMAIN lines /\ both[i] = lines[i]
    BY <1>1
  <2>2. CASE j \in DOMAIN lines /\ both[j] = lines[j]
    <3>1. \/ \E k \in DOMAIN lines : k < j /\ lines[k].kind = "result" /\ lines[k].id = lines[i].id
          \/ lines[j].kind = "call" /\ \A k \in DOMAIN lines : i <= k /\ k <= j => lines[k].kind = "call"
      BY <2>1, <2>2 DEF Obeys, AnsweredFirst
    <3>2. \A k \in DOMAIN both : k <= j => k \in DOMAIN lines
      BY <1>1, <1>2, <2>2
    <3> QED
      BY <1>2, <2>1, <2>2, <3>1, <3>2
  <2>3. CASE j > Len(lines)
    <3>1. lines[i].id \in ResultsIn(lines)
      BY <2>1, IdsIn DEF Waiting
    <3>2. PICK k \in DOMAIN lines : lines[k].kind = "result" /\ lines[k].id = lines[i].id
      BY <3>1 DEF ResultsIn
    <3>3. k < j
      BY <1>1, <1>2, <2>3
    <3> QED
      BY <1>2, <2>1, <3>2, <3>3
  <2> QED
    BY <1>1, <2>2, <2>3
<1> QED
  BY <1>3, <1>4, <1>5 DEF Obeys
-----------------------------------------------------------------------------
(* translate_input_items takes only what keeps to the rules.                *)

\* While translate_input_items refuses nothing it has read lines that obey, and
\* the calls that are pending are the latest of them.
Keeps(s, lines) ==
    s.ok => /\ Obeys(lines)
            /\ s.known = CallsIn(lines)
            /\ s.outstanding \union CalledIn(s) = Waiting(lines)
            /\ \A i, k \in DOMAIN lines : lines[i].kind = "call" /\ lines[i].id \in CalledIn(s) /\ i <= k
                                             => lines[k].kind = "call"

\* When the pending calls go out all that waits is outstanding.
LEMMA KeptFlushed ==
    ASSUME NEW s \in ChatStates, s.ok, NEW lines, Keeps(s, lines)
    PROVE  /\ FlushToolCalls(s) \in ChatStates /\ FlushToolCalls(s).ok /\ FlushToolCalls(s).pending = <<>>
           /\ FlushToolCalls(s).known = CallsIn(lines)
           /\ FlushToolCalls(s).outstanding = Waiting(lines)
<1>1. FlushToolCalls(s) \in ChatStates /\ FlushToolCalls(s).ok /\ FlushToolCalls(s).pending = <<>>
  BY CallsFlushed
<1>2. s.known = CallsIn(lines) /\ s.outstanding \union CalledIn(s) = Waiting(lines)
  BY DEF Keeps
<1>3. CASE s.pending = <<>>
  <2>1. CalledIn(s) = {}
    BY <1>3 DEF CalledIn
  <2> QED
    BY <1>1, <1>2, <1>3, <2>1 DEF FlushToolCalls
<1>4. CASE s.pending # <<>>
  <2>1. FlushToolCalls(s) = [s EXCEPT !.messages = Append(@, ChatMessage("assistant", <<>>, s.pending)),
                                      !.outstanding = @ \union CalledIn(s), !.pending = <<>>]
    BY <1>4 DEF FlushToolCalls, CalledIn
  <2>2. FlushToolCalls(s).known = s.known /\ FlushToolCalls(s).outstanding = s.outstanding \union CalledIn(s)
    BY <2>1 DEF ChatStates
  <2> QED
    BY <1>1, <1>2, <2>2
<1> QED
  BY <1>3, <1>4

\* A call that is taken.
LEMMA CallKept ==
    ASSUME NEW s \in ChatStates, s.ok, NEW lines, Keeps(s, lines), NEW item \in CallItems,
           NEW both, Behind(both, lines, ItemLines(item)), AddItem(s, item).ok
    PROVE  Keeps(AddItem(s, item), both)
<1> DEFINE r == AddItem(s, item)
           more == ItemLines(item)
           c == Call(item.id, [NoTool EXCEPT !.name = item.tool.name])
           pending == Append(s.pending, c)
<1>1. item \in Items /\ item.type = "call"
  BY DEF Items, CallItems
<1>2. Len(more) = 1 /\ more[1].kind = "call" /\ more[1].id = item.id
  BY <1>1, ItemLinesKind
<1>3. /\ Obeys(lines) /\ s.known = CallsIn(lines) /\ s.outstanding \union CalledIn(s) = Waiting(lines)
      /\ \A i, k \in DOMAIN lines : lines[i].kind = "call" /\ lines[i].id \in CalledIn(s) /\ i <= k
                                       => lines[k].kind = "call"
  BY DEF Keeps
<1>4. r = AddCall(s, item)
  BY <1>1 DEF AddItem
<1>5. s.outstanding = {} /\ item.id \notin s.known
  BY <1>4 DEF AddCall, Rejected, ChatStates
<1>6. r = [s EXCEPT !.known = @ \union {item.id}, !.pending = pending]
  BY <1>4, <1>5 DEF AddCall
<1>7. r.known = s.known \union {item.id} /\ r.pending = pending /\ r.outstanding = {}
  BY <1>5, <1>6 DEF ChatStates
<1>8. c.id = item.id /\ s.pending \in Seq(Calls)
  BY StatesTyped DEF Call
<1> HIDE DEF r, c, more
<1>9. CalledIn(r) = CalledIn(s) \union {item.id}
  <2> DEFINE n == Len(s.pending)
  <2>1. n \in Nat /\ DOMAIN s.pending = 1..n /\ DOMAIN pending = 1..(n + 1) /\ pending[n + 1] = c
        /\ \A i \in 1..n : pending[i] = s.pending[i]
    BY <1>8
  <2> HIDE DEF n, pending
  <2>2. \A i \in 1..(n + 1) : i \in 1..n \/ i = n + 1
    BY <2>1
  <2>3. n + 1 \in 1..(n + 1) /\ \A i \in 1..n : i \in 1..(n + 1)
    BY <2>1
  <2>4. {pending[i].id : i \in DOMAIN pending} = CalledIn(s) \union {item.id}
    BY <1>8, <2>1, <2>2, <2>3 DEF CalledIn
  <2> QED
    BY <1>7, <2>4 DEF CalledIn
<1> HIDE DEF pending
<1>10. Behind(both, lines, more)
  BY DEF more
<1>11. more[1].id \notin CallsIn(lines)
  BY <1>2, <1>3, <1>5
<1>12. CalledIn(s) = Waiting(lines)
  BY <1>3, <1>5
<1>13. Obeys(both)
  BY <1>2, <1>3, <1>10, <1>11, <1>12, CallObeys
<1>14. CallsIn(both) = CallsIn(lines) \union {item.id} /\ Waiting(both) = Waiting(lines) \union {item.id}
  BY <1>2, <1>10, <1>13, CallBehind
<1>15. ASSUME NEW i \in DOMAIN both, NEW k \in DOMAIN both,
              both[i].kind = "call", both[i].id \in CalledIn(r), i <= k
       PROVE  both[k].kind = "call"
  <2>1. PICK n \in Nat : /\ n \in DOMAIN both /\ both[n] = more[1]
                         /\ \A j \in DOMAIN both : /\ j \in Nat
                                                   /\ \/ j \in DOMAIN lines /\ both[j] = lines[j] /\ j < n
                                                      \/ j = n
                         /\ \A j \in DOMAIN lines : j \in Nat /\ j < n /\ j \in DOMAIN both /\ both[j] = lines[j]
    BY <1>2, <1>10, NewestLine
  <2>2. CASE k = n
    BY <1>2, <2>1, <2>2
  <2>3. CASE k \in DOMAIN lines /\ both[k] = lines[k] /\ k < n
    <3>1. i \in DOMAIN lines /\ both[i] = lines[i]
      BY <1>15, <2>1, <2>3
    <3>2. lines[i].id \in CallsIn(lines)
      BY <1>15, <3>1, IdsIn
    <3>3. lines[i].id \in CalledIn(s)
      BY <1>2, <1>9, <1>11, <1>15, <3>1, <3>2
    <3> QED
      BY <1>3, <1>15, <2>3, <3>1, <3>3
  <2> QED
    BY <2>1, <2>2, <2>3
<1>16. r.known = CallsIn(both) /\ r.outstanding \union CalledIn(r) = Waiting(both)
  BY <1>3, <1>7, <1>9, <1>12, <1>14
<1>17. Keeps(r, both)
  BY <1>13, <1>15, <1>16 DEF Keeps
<1> QED
  BY <1>17 DEF r

\* A message that is taken.
LEMMA MessageKept ==
    ASSUME NEW s \in ChatStates, s.ok, NEW lines, Keeps(s, lines), NEW item \in MessageItems,
           NEW both, Behind(both, lines, ItemLines(item)), AddItem(s, item).ok
    PROVE  Keeps(AddItem(s, item), both)
<1> DEFINE r == AddItem(s, item)
           f == FlushToolCalls(s)
           more == ItemLines(item)
<1>1. item \in Items /\ item.type = "message"
  BY DEF Items, MessageItems
<1>2. Len(more) # 0 /\ \A i \in DOMAIN more : more[i].kind = "text"
  BY <1>1, ItemLinesKind
<1>3. f \in ChatStates /\ f.ok /\ f.pending = <<>> /\ f.known = CallsIn(lines) /\ f.outstanding = Waiting(lines)
  BY KeptFlushed
<1>4. r = AddMessage(s, item)
  BY <1>1 DEF AddItem
<1>5. r = IF f.outstanding # {} THEN Rejected(f)
          ELSE [f EXCEPT !.messages = Append(@, ChatMessage(item.role, item.texts, <<>>))]
  BY <1>4 DEF AddMessage
<1>6. Behind(both, lines, more) /\ r.ok
  OBVIOUS
<1> HIDE DEF f, r, more
<1>7. f.outstanding = {}
  BY <1>3, <1>5, <1>6 DEF Rejected, ChatStates
<1>8. r.known = f.known /\ r.pending = f.pending /\ r.outstanding = f.outstanding
  BY <1>3, <1>5, <1>7 DEF ChatStates
<1>9. Obeys(lines) /\ Waiting(lines) = {}
  BY <1>3, <1>7 DEF Keeps
<1>10. Obeys(both)
  BY <1>2, <1>6, <1>9, TextsObey
<1>11. CallsIn(both) = CallsIn(lines) /\ Waiting(both) = {}
  BY <1>2, <1>6, <1>10, TextsBehind
<1>12. CalledIn(r) = {}
  BY <1>3, <1>8 DEF CalledIn
<1>13. Keeps(r, both)
  BY <1>3, <1>7, <1>8, <1>10, <1>11, <1>12 DEF Keeps
<1> QED
  BY <1>13 DEF r

\* An output that is taken.
LEMMA OutputKept ==
    ASSUME NEW s \in ChatStates, s.ok, NEW lines, Keeps(s, lines), NEW item \in OutputItems,
           NEW both, Behind(both, lines, ItemLines(item)), AddItem(s, item).ok
    PROVE  Keeps(AddItem(s, item), both)
<1> DEFINE r == AddItem(s, item)
           f == FlushToolCalls(s)
           more == ItemLines(item)
<1>1. item \in Items /\ item.type = "output"
  BY DEF Items, OutputItems
<1>2. Len(more) = 1 /\ more[1].kind = "result" /\ more[1].id = item.id
  BY <1>1, ItemLinesKind
<1>3. f \in ChatStates /\ f.ok /\ f.pending = <<>> /\ f.known = CallsIn(lines) /\ f.outstanding = Waiting(lines)
  BY KeptFlushed
<1>4. r = AddOutput(s, item)
  BY <1>1 DEF AddItem
<1>5. r = IF item.id \notin f.outstanding THEN Rejected(f)
          ELSE [f EXCEPT !.messages = Append(@, ToolMessage(item.id)), !.outstanding = @ \ {item.id}]
  BY <1>4 DEF AddOutput
<1>6. Behind(both, lines, more) /\ r.ok
  OBVIOUS
<1> HIDE DEF f, r, more
<1>7. item.id \in f.outstanding
  BY <1>3, <1>5, <1>6 DEF Rejected, ChatStates
<1>8. r.known = f.known /\ r.pending = f.pending /\ r.outstanding = f.outstanding \ {item.id}
  BY <1>3, <1>5, <1>7 DEF ChatStates
<1>9. Obeys(lines) /\ more[1].id \in Waiting(lines)
  BY <1>2, <1>3, <1>7 DEF Keeps
<1>10. Obeys(both)
  BY <1>2, <1>6, <1>9, ResultObeys
<1>11. CallsIn(both) = CallsIn(lines) /\ Waiting(both) = Waiting(lines) \ {item.id}
  BY <1>2, <1>6, <1>10, ResultBehind
<1>12. CalledIn(r) = {}
  BY <1>3, <1>8 DEF CalledIn
<1>13. Keeps(r, both)
  BY <1>3, <1>8, <1>10, <1>11, <1>12 DEF Keeps
<1> QED
  BY <1>13 DEF r

\* Item by item, whatever it is.
LEMMA ItemKept ==
    ASSUME NEW s \in ChatStates, NEW lines, Keeps(s, lines), NEW item \in Items,
           NEW both, Behind(both, lines, ItemLines(item))
    PROVE  Keeps(AddItem(s, item), both)
<1>1. CASE ~AddItem(s, item).ok
  BY <1>1 DEF Keeps
<1>2. CASE AddItem(s, item).ok
  <2>1. s.ok
    BY <1>2 DEF AddItem
  <2> QED
    BY <1>2, <2>1, CallKept, MessageKept, OutputKept DEF Items
<1> QED
  BY <1>1, <1>2

\* Only items that say such lines are taken.
LEMMA OnlyAccepted ==
    ASSUME NEW items \in Seq(Items), TranslateInputItems(items).ok
    PROVE  Accepts(ItemsSaid(items))
<1> DEFINE start == [ok |-> TRUE, messages |-> <<>>, pending |-> <<>>, outstanding |-> {}, known |-> {}]
           F(s) == Folded(ItemStep, start, s)
           T == {s \in Seq(Items) : Keeps(F(s), ItemsSaid(s))}
<1>1. start \in ChatStates /\ Keeps(start, <<>>)
  <2>1. start \in ChatStates
    <3>1. <<>> \in Seq(ChatMessages) /\ <<>> \in Seq(Calls) /\ {} \in SUBSET Nat /\ TRUE \in BOOLEAN
      OBVIOUS
    <3> QED
      BY <3>1, StateOf
  <2>2. CallsIn(<<>>) = {} /\ Waiting(<<>>) = {}
    BY DEF CallsIn, Waiting
  <2>3. start.ok /\ start.known = {} /\ start.outstanding = {} /\ CalledIn(start) = {}
    BY DEF CalledIn
  <2>4. DOMAIN <<>> = {}
    OBVIOUS
  <2>5. Obeys(<<>>)
    BY <2>4 DEF Obeys, CalledOnce, AnsweredOnce, AnsweredLater, AnsweredFirst
  <2> HIDE DEF start
  <2> QED
    BY <2>1, <2>2, <2>3, <2>4, <2>5 DEF Keeps
<1> HIDE DEF start
<1>2. <<>> \in T
  <2>1. F(<<>>) = start /\ <<>> \in Seq(Items)
    BY <1>1, ItemsSteps, FoldedEmpty
  <2> HIDE DEF F
  <2> QED
    BY <1>1, <2>1, ItemsSaidEmpty
<1>3. ASSUME NEW s \in Seq(Items), NEW x \in Items, s \in T PROVE Append(s, x) \in T
  <2> DEFINE more == Append(s, x)
  <2>1. F(s) \in ChatStates /\ F(more) = ItemStep[<<F(s), x>>]
    BY <1>1, ItemsSteps, FoldedTyped, FoldedAppend
  <2> HIDE DEF F
  <2>2. F(more) = AddItem(F(s), x)
    BY <2>1 DEF ItemStep
  <2>3. ItemsSaid(more) = ItemsSaid(s) \o ItemLines(x)
    BY ItemsSaidAppend
  <2>4. Behind(ItemsSaid(more), ItemsSaid(s), ItemLines(x))
    BY <2>3, ItemsSaidTyped, ItemLinesKind, IsBehind
  <2>5. more \in Seq(Items)
    OBVIOUS
  <2> HIDE DEF more
  <2>6. Keeps(F(more), ItemsSaid(more))
    BY <1>3, <2>1, <2>2, <2>4, ItemKept
  <2> QED
    BY <2>5, <2>6 DEF more
<1> HIDE DEF T
<1>4. items \in T
  BY <1>2, <1>3, SequencesGrow
<1> DEFINE f == F(items)
           end == FlushToolCalls(f)
<1>5. f \in ChatStates /\ FoldLeft(AddItem, start, items) = f
  BY <1>1, ItemsSteps, FoldedTyped, ItemsFolded
<1>6. end.ok /\ end.outstanding = {}
  BY <1>5 DEF TranslateInputItems, start
<1>7. Keeps(f, ItemsSaid(items))
  BY <1>4 DEF T
<1> HIDE DEF f
<1>8. f.ok
  BY <1>5, <1>6, CallsFlushed
<1>9. end.outstanding = Waiting(ItemsSaid(items))
  BY <1>5, <1>7, <1>8, KeptFlushed
<1> HIDE DEF end
<1> QED
  BY <1>6, <1>7, <1>8, <1>9 DEF Accepts, Keeps

\* translate_input_items (src/local/responses.rs) takes a request if and only if
\* no call and no result has another one's id, each result has its call in front
\* of it and each call its result behind it, and between the two there are only
\* other results and, right behind the call, further calls.
THEOREM TakenIfAccepted ==
    ASSUME NEW items \in Seq(Items)
    PROVE  TranslateInputItems(items).ok <=> Accepts(ItemsSaid(items))
  BY ItemsAccepted, OnlyAccepted
-----------------------------------------------------------------------------
(* Text behind a call, with and without the system's words.                 *)

\* The system says texts only.
Utterances == {l \in Words : l.role = "system" => l.kind = "text"}

\* The lines of a system message are such lines.
LEMMA SystemTexts ==
    ASSUME NEW parts \in Seq(Texts)
    PROVE  Lines("system", parts) \in Seq(Utterances)
<1> DEFINE lines == Lines("system", parts)
<1>1. parts \in Seq(Parts)
  <2>1. Texts \subseteq Parts
    BY DEF Parts
  <2> QED
    BY <2>1, Widened
<1>2. "system" \in Roles
  BY DEF Roles
<1>3. /\ lines \in Seq(Words) /\ Len(lines) = Len(parts)
      /\ \A i \in DOMAIN parts : lines[i] = Line("system", parts[i])
  BY <1>1, <1>2, SpokenBy
<1> HIDE DEF lines
<1>4. DOMAIN lines = 1..Len(lines) /\ DOMAIN parts = 1..Len(parts)
  BY <1>1, <1>3
<1>5. \A i \in DOMAIN parts : parts[i] \in Texts
  OBVIOUS
<1>6. \A i \in DOMAIN lines : lines[i] \in Words
  BY <1>3
<1>7. \A i \in DOMAIN lines : lines[i].kind = "text"
  <2>1. \A p \in Texts : p.kind = "text"
    BY DEF Texts
  <2>2. \A p : Line("system", p).kind = p.kind
    BY DEF Line
  <2> QED
    BY <1>3, <1>4, <1>5, <2>1, <2>2
<1>8. \A i \in DOMAIN lines : lines[i] \in Utterances
  BY <1>6, <1>7 DEF Utterances
<1>9. lines \in [1..Len(lines) -> Utterances] /\ Len(lines) \in Nat
  BY <1>3, <1>4, <1>8
<1>10. lines \in Seq(Utterances)
  BY <1>9, IsSequence
<1> QED
  BY <1>10 DEF lines

\* Whatever a client records, calls in it are not the system's.
LEMMA SystemWrites ==
    ASSUME RouteTyped, NEW h \in Seq(Recorder(route.api))
    PROVE  HistorySaid(h) \in Seq(Utterances)
<1>0. Plain \subseteq Utterances
  BY DEF Plain, Utterances, SystemWords
<1>1. CASE route.api = "messages"
  <2>1. h \in Seq(BlockMessages) /\ HistorySaid(h) = BlocksSaid(h)
    BY <1>1 DEF Recorder, HistorySaid
  <2>2. ASSUME NEW m \in BlockMessages PROVE Lines(m.role, m.blocks) \in Seq(Utterances)
    <3>1. CASE m \in SystemMessages
      <4>1. m.role = "system" /\ m.blocks \in Seq(Texts)
        BY <3>1 DEF SystemMessages
      <4> QED
        BY <4>1, SystemTexts
    <3>2. CASE m \in Turned
      <4>1. m.role \in {"user", "assistant"}
        BY <3>2, TurnedTyped
      <4>2. m.blocks \in Seq(Parts)
        BY BlocksTyped
      <4>3. Lines(m.role, m.blocks) \in Seq(Plain)
        BY <4>1, <4>2, LinesOthers DEF Plain
      <4> QED
        BY <1>0, <4>3, Widened
    <3> QED
      BY <3>1, <3>2 DEF BlockMessages
  <2>3. BlockWords \in [BlockMessages -> Seq(Utterances)]
    BY <2>2 DEF BlockWords
  <2>4. Joint(BlockWords, h) \in Seq(Utterances)
    BY <2>1, <2>3, JointTyped
  <2> QED
    BY <2>1, <2>4, BlocksSaidJoint
<1>2. CASE route.api = "chat"
  <2>1. h \in Seq(ChatRecords) /\ HistorySaid(h) = ChatSaid(h)
    BY <1>2 DEF Recorder, HistorySaid
  <2>2. ChatSaid(h) \in Seq(Plain)
    BY <2>1, RecordsPlain
  <2> QED
    BY <1>0, <2>1, <2>2, Widened
<1>3. CASE route.api = "responses"
  <2>1. h \in Seq(Items) /\ HistorySaid(h) = ItemsSaid(h)
    BY <1>3 DEF Recorder, HistorySaid
  <2>2. ItemsSaid(h) \in Seq(Plain)
    BY <2>1, ItemsPlain
  <2> QED
    BY <1>0, <2>1, <2>2, Widened
<1> QED
  BY <1>1, <1>2, <1>3 DEF RouteTyped, Apis

\* A further line.
LEMMA CallThenTextGrows ==
    ASSUME NEW s \in Seq(Words), NEW x \in Words
    PROVE  /\ CallThenText(s) => CallThenText(Append(s, x))
           /\ CallThenText(Append(s, x)) =>
                 \/ CallThenText(s)
                 \/ s # <<>> /\ Last(s).kind = "call" /\ x.kind = "text" /\ x.role = "assistant"
           /\ s # <<>> /\ Last(s).kind = "call" /\ x.kind = "text" /\ x.role = "assistant"
                 => CallThenText(Append(s, x))
<1> DEFINE n == Len(s)
           t == Append(s, x)
<1>1. /\ n \in Nat /\ DOMAIN s = 1..n /\ DOMAIN t = 1..(n + 1) /\ t[n + 1] = x
      /\ \A i \in 1..n : t[i] = s[i]
  OBVIOUS
<1>2. (s # <<>> <=> n # 0) /\ Last(s) = s[n]
  BY DEF Last
<1> HIDE DEF n, t
<1>3. CallThenText(s) => CallThenText(t)
  <2> SUFFICES ASSUME CallThenText(s) PROVE CallThenText(t)
    OBVIOUS
  <2>1. PICK i \in DOMAIN s : i + 1 \in DOMAIN s /\ s[i].kind = "call" /\ s[i + 1].kind = "text" /\ s[i + 1].role = "assistant"
    BY DEF CallThenText
  <2>2. i \in DOMAIN t /\ i + 1 \in DOMAIN t /\ t[i] = s[i] /\ t[i + 1] = s[i + 1]
    BY <1>1, <2>1
  <2> QED
    BY <2>1, <2>2 DEF CallThenText
<1>4. ASSUME CallThenText(t)
      PROVE  CallThenText(s) \/ (n # 0 /\ s[n].kind = "call" /\ x.kind = "text" /\ x.role = "assistant")
  <2>1. PICK i \in DOMAIN t : i + 1 \in DOMAIN t /\ t[i].kind = "call" /\ t[i + 1].kind = "text" /\ t[i + 1].role = "assistant"
    BY <1>4 DEF CallThenText
  <2>2. CASE i + 1 = n + 1
    <3>1. i = n /\ n # 0 /\ t[i] = s[n]
      BY <1>1, <2>1, <2>2
    <3> QED
      BY <1>1, <2>1, <2>2, <3>1
  <2>3. CASE i + 1 # n + 1
    <3>1. i \in DOMAIN s /\ i + 1 \in DOMAIN s /\ t[i] = s[i] /\ t[i + 1] = s[i + 1]
      BY <1>1, <2>1, <2>3
    <3> QED
      BY <2>1, <3>1 DEF CallThenText
  <2> QED
    BY <2>2, <2>3
<1>5. ASSUME n # 0, s[n].kind = "call", x.kind = "text", x.role = "assistant" PROVE CallThenText(t)
  <2>1. n \in DOMAIN t /\ n + 1 \in DOMAIN t /\ t[n] = s[n] /\ t[n + 1] = x
    BY <1>1, <1>5
  <2> QED
    BY <1>5, <2>1 DEF CallThenText
<1> QED
  BY <1>2, <1>3, <1>4, <1>5 DEF t

\* What a model says right behind a call is so also without the system's words.
LEMMA SpokenStays ==
    ASSUME NEW lines \in Seq(Utterances), CallThenText(lines)
    PROVE  CallThenText(OthersOf(lines))
<1> DEFINE T == {s \in Seq(Utterances) : CallThenText(s) => CallThenText(OthersOf(s))}
<1>0. Utterances \subseteq Words
  BY DEF Utterances
<1>1. <<>> \in T
  <2>1. DOMAIN <<>> = {} /\ <<>> \in Seq(Utterances)
    OBVIOUS
  <2> QED
    BY <2>1 DEF CallThenText
<1>2. ASSUME NEW s \in Seq(Utterances), NEW x \in Utterances, s \in T PROVE Append(s, x) \in T
  <2> DEFINE t == OthersOf(s)
             more == Append(s, x)
  <2>1. s \in Seq(Words) /\ x \in Words /\ more \in Seq(Utterances)
    BY <1>0, Widened
  <2>2. more \in Seq(Words)
    BY <1>0, <2>1, Widened
  <2>3. t = Kept(Words, Words \ SystemWords, s) /\ t \in Seq(Words)
    BY <2>1, OthersOfKept, SplitTyped
  <2>4. OthersOf(more) = IF x \in Words \ SystemWords THEN Append(t, x) ELSE t
    <3>1. OthersOf(more) = Kept(Words, Words \ SystemWords, Append(s, x))
      BY <2>2, OthersOfKept
    <3>2. Kept(Words, Words \ SystemWords, Append(s, x))
            = IF x \in Words \ SystemWords THEN Append(Kept(Words, Words \ SystemWords, s), x)
                                           ELSE Kept(Words, Words \ SystemWords, s)
      BY <2>1, KeptAppend
    <3> HIDE DEF t, more
    <3> QED
      BY <2>3, <3>1, <3>2
  <2> HIDE DEF t
  <2>5. CallThenText(s) => CallThenText(t)
    BY <1>2 DEF t
  <2>6. ASSUME CallThenText(more) PROVE CallThenText(OthersOf(more))
    <3>1. CASE CallThenText(s)
      BY <2>1, <2>3, <2>4, <2>5, <3>1, CallThenTextGrows
    <3>2. CASE s # <<>> /\ Last(s).kind = "call" /\ x.kind = "text" /\ x.role = "assistant"
      <4>1. Last(s) \in Utterances
        BY <3>2 DEF Last
      <4>2. Last(s) \in Words \ SystemWords /\ x \in Words \ SystemWords
        BY <2>1, <3>2, <4>1 DEF Utterances, SystemWords
      <4>3. t # <<>> /\ Last(t) = Last(s)
        BY <2>1, <2>3, <3>2, <4>2, KeptLast
      <4> QED
        BY <2>1, <2>3, <2>4, <3>2, <4>2, <4>3, CallThenTextGrows
    <3> QED
      BY <2>1, <2>6, <3>1, <3>2, CallThenTextGrows
  <2> QED
    BY <2>1, <2>6
<1> HIDE DEF T
<1>3. lines \in T
  BY <1>1, <1>2, SequencesGrow
<1> QED
  BY <1>3 DEF T

\* What is accepted has no text right behind a call.
LEMMA AcceptsNone ==
    ASSUME NEW lines \in Seq(Words), Accepts(lines)
    PROVE  ~CallThenText(lines)
<1> SUFFICES ASSUME NEW i \in DOMAIN lines, i + 1 \in DOMAIN lines,
                    lines[i].kind = "call", lines[i + 1].kind = "text"
             PROVE  FALSE
  BY DEF CallThenText
<1>1. \A k \in DOMAIN lines : k \in Nat
  OBVIOUS
<1>2. PICK k \in DOMAIN lines : k < i + 1 /\ lines[k].kind = "result" /\ lines[k].id = lines[i].id
  <2>1. i < i + 1 /\ lines[i + 1].kind # "result" /\ lines[i + 1].kind # "call"
    BY <1>1
  <2> QED
    BY <2>1 DEF Accepts, Obeys, AnsweredFirst
<1>3. PICK j \in DOMAIN lines : j < k /\ lines[j].kind = "call" /\ lines[j].id = lines[k].id
  BY <1>2 DEF Accepts, Obeys, AnsweredLater
<1>4. j = i
  BY <1>2, <1>3 DEF Accepts, Obeys, CalledOnce
<1> QED
  BY <1>1, <1>2, <1>3, <1>4
-----------------------------------------------------------------------------
(* A request follows the rules if its history does.                         *)

\* A history in which the model says nothing behind its calls is one that is
\* accepted, with ids up to b.
Follows(lines, b) ==
    ~CallThenText(lines) => Accepts(OthersOf(lines)) /\ CallsIn(OthersOf(lines)) \subseteq 1..b

\* A turn and what a client answers it.
LEMMA TurnFollows ==
    ASSUME MaxParts \in Nat, requests \in Nat, NEW hs \in Seq(Words), Follows(hs, Id(0)),
           NEW parts \in Seq(Spoke), Rising(parts, Id(MaxParts)), NEW ns \in Seq(SystemWords),
           NEW us \in Seq(Plain), Responds(us), ResultsIn(us) = AskedIn(parts)
    PROVE  Follows(((hs \o Lines("assistant", parts)) \o ns) \o us, Id(MaxParts))
<1> DEFINE as == Lines("assistant", parts)
           lines == ((hs \o as) \o ns) \o us
           front == OthersOf(hs)
           turn == as \o us
<1>1. as \in Seq(Plain)
  BY LinesOthers, SpokenHeard DEF Plain
<1>2. Id(0) \in Nat /\ Id(MaxParts) \in Nat /\ Id(0) <= Id(MaxParts)
  BY IdCounts
<1>3. /\ ~CallThenText(as) => /\ as \in Seq(Words) /\ Proposes(as)
                              /\ CallsIn(as) = AskedIn(parts) /\ CallsIn(as) \subseteq (Id(0) + 1)..Id(MaxParts)
  BY <1>2, ModelProposes
<1> HIDE DEF as
<1>4. as \in Seq(Words) /\ ns \in Seq(Words) /\ us \in Seq(Words)
  <2>1. Plain \subseteq Words /\ SystemWords \subseteq Words
    BY DEF Plain, SystemWords
  <2> QED
    BY <1>1, <2>1, Widened
<1>5. OthersOf(lines) = front \o turn /\ turn \in Seq(Words) /\ front \in Seq(Words)
  BY <1>1, OthersLater
<1>6. Behind(front \o turn, front, turn)
  <2> HIDE DEF front, turn
  <2> QED
    BY <1>5, IsBehind
<1>7. Behind(turn, as, us)
  BY <1>4, IsBehind
<1> SUFFICES ASSUME ~CallThenText(lines)
             PROVE  Accepts(front \o turn) /\ CallsIn(front \o turn) \subseteq 1..Id(MaxParts)
  <2> HIDE DEF front, turn
  <2> QED
    BY <1>5 DEF Follows, as
<1>8. ~CallThenText(hs) /\ ~CallThenText(as)
  BY <1>4, CallThenTextStays
<1> HIDE DEF lines
<1>9. Accepts(turn) /\ CallsIn(turn) = CallsIn(as)
  <2> HIDE DEF turn
  <2> QED
    BY <1>3, <1>7, <1>8, TurnAccepted
<1>10. Accepts(front) /\ CallsIn(front) \subseteq 1..Id(0)
  BY <1>8 DEF Follows
<1> HIDE DEF front, turn
<1>11. CallsIn(turn) \subseteq (Id(0) + 1)..Id(MaxParts)
  BY <1>3, <1>8, <1>9
<1>12. CallsIn(front) \intersect CallsIn(turn) = {}
  BY <1>2, <1>10, <1>11
<1>13. Accepts(front \o turn)
  BY <1>6, <1>9, <1>10, <1>12, AcceptedBehind
<1>14. CallsIn(front \o turn) = CallsIn(front) \union CallsIn(turn)
  BY <1>6, IdsBehind
<1>15. CallsIn(front \o turn) \subseteq 1..Id(MaxParts)
  BY <1>2, <1>10, <1>11, <1>14
<1> QED
  BY <1>13, <1>15

\* A request that a client makes of what it was delivered.
LEMMA RequestFollows ==
    ASSUME MaxParts \in Nat, RouteTyped, requests \in Nat, NEW h \in Seq(Recorder(route.api)),
           Follows(HistorySaid(h), Id(0)),
           NEW parts \in Seq(Spoke), Rising(parts, Id(MaxParts)),
           route.api = "chat" => parts = TextsOf(parts) \o CallsOf(parts),
           NEW order, NEW note, NEW more, Sends(parts, order, note, more)
    PROVE  LET messages == h \o Recorded("assistant", parts) \o note
                              \o Recorded("user", Each(Result, order) \o more)
           IN  messages \in Seq(Recorder(route.api)) /\ Follows(HistorySaid(messages), Id(MaxParts))
<1> DEFINE results == Each(Result, order)
           all == results \o more
           one == Recorded("assistant", parts)
           two == Recorded("user", all)
           us == Lines("user", all)
<1>1. /\ order \in SetToSeqs(AskedIn(parts))
      /\ note \in Seq(Recorder(route.api)) /\ HistorySaid(note) \in Seq(By({"system"}))
      /\ results \in Seq(Results) /\ more \in Seq(Texts)
  BY DEF Sends
<1>2. us \in Seq(Words) /\ Responds(us) /\ ResultsIn(us) = AskedIn(parts)
  BY <1>1, ClientResponds
<1>3. HistorySaid(two) = us
  BY <1>1, UserSays
<1>4. all \in Seq(Wrote) /\ all \in Seq(Parts)
  <2> HIDE DEF results
  <2>1. Results \subseteq Wrote /\ Texts \subseteq Wrote
    BY DEF Wrote
  <2>2. results \in Seq(Wrote) /\ more \in Seq(Wrote)
    BY <1>1, <2>1, Widened
  <2>3. results \o more \in Seq(Wrote)
    BY <2>2, OneOfTwo
  <2> QED
    BY <2>3, SpokenHeard
<1> HIDE DEF all
<1>5. us \in Seq(Plain)
  BY <1>4, LinesOthers DEF Plain
<1> HIDE DEF us
<1>6. one \in Seq(Recorder(route.api)) /\ two \in Seq(Recorder(route.api))
  <2>1. SaysAs("assistant", parts) /\ SaysAs("user", all)
    BY <1>4 DEF SaysAs
  <2> QED
    BY <2>1, RecordTyped
<1>7. HistorySaid(one) = Lines("assistant", parts)
  BY AssistantSays
<1> HIDE DEF one, two
<1>8. /\ h \o one \o note \o two \in Seq(Recorder(route.api)) /\ HistorySaid(h) \in Seq(Words)
      /\ HistorySaid(h \o one \o note \o two)
            = ((HistorySaid(h) \o HistorySaid(one)) \o HistorySaid(note)) \o HistorySaid(two)
  <2>1. note \in Seq(Recorder(route.api))
    BY <1>1
  <2> HIDE DEF results
  <2>2. /\ h \o one \o note \o two \in Seq(Recorder(route.api)) /\ HistorySaid(h) \in Seq(Words)
        /\ SaidInSteps(h, one, note, two)
    BY <1>6, <2>1, RequestSays
  <2> QED
    BY <2>2 DEF SaidInSteps
<1>9. HistorySaid(note) \in Seq(SystemWords)
  <2>0. HistorySaid(note) \in Seq(By({"system"}))
    BY <1>1
  <2>1. By({"system"}) \subseteq SystemWords
    BY DEF By, SystemWords
  <2> QED
    BY <2>0, <2>1, Widened
<1> DEFINE hs == HistorySaid(h)
           ns == HistorySaid(note)
<1>10. hs \in Seq(Words) /\ ns \in Seq(SystemWords) /\ Follows(hs, Id(0))
  BY <1>8, <1>9
<1> HIDE DEF hs, ns
<1>11. Follows(((hs \o Lines("assistant", parts)) \o ns) \o us, Id(MaxParts))
  BY <1>2, <1>5, <1>10, TurnFollows
<1>12. HistorySaid(h \o one \o note \o two) = ((hs \o Lines("assistant", parts)) \o ns) \o us
  BY <1>3, <1>7, <1>8 DEF hs, ns
<1>13. Follows(HistorySaid(h \o one \o note \o two), Id(MaxParts))
  BY <1>11, <1>12
<1> QED
  BY <1>8, <1>13 DEF one, two, all

\* What is accepted goes out.
LEMMA AcceptedGoesOut ==
    ASSUME RouteTyped, NEW messages \in Seq(Recorder(route.api)),
           Accepts(OthersOf(HistorySaid(messages))), route.via = "chat"
    PROVE  Translated(messages).ok
<1> DEFINE body == AsResponses(messages)
<1>1. body.input \in Seq(Items) /\ ItemsSaid(body.input) = OthersOf(HistorySaid(messages))
  BY TranslationSays
<1>2. Translated(messages) = ResponsesToChatRequest(body)
  BY DEF Translated
<1> HIDE DEF body
<1>3. TranslateInputItems(body.input).ok
  <2>1. Accepts(ItemsSaid(body.input))
    BY <1>1
  <2> QED
    BY <1>1, <2>1, ItemsAccepted
<1> QED
  BY <1>2, <1>3 DEF ResponsesToChatRequest
-----------------------------------------------------------------------------
\* The history of a client that answers its calls is refused for one reason.

\* The history follows the rules as long as the model does, and only if it does
\* not a request is refused; where the tools are refused the history is not.
FollowUpInv ==
    /\ Follows(HistorySaid(history), Id(0))
    /\ phase = "rejected" => route.via = "chat" /\ CallThenText(HistorySaid(history))
    /\ phase = "badtools" => Translated(history).ok

\* Before anything is said.
LEMMA InitFollowUp ==
    ASSUME Init
    PROVE  FollowUpInv
<1>1. history = <<>> /\ phase = "compose" /\ RouteTyped /\ requests \in Nat
  BY InitConversation DEF Init, ConversationInv
<1>2. HistorySaid(history) = <<>>
  BY <1>1, BlocksSaidEmpty, ChatSaidEmpty, ItemsSaidEmpty DEF HistorySaid, RouteTyped, Apis
<1>3. OthersOf(<<>>) = <<>>
  BY SplitEmpty
<1>4. Accepts(<<>>) /\ CallsIn(<<>>) = {}
  <2>1. DOMAIN <<>> = {}
    OBVIOUS
  <2> QED
    BY <2>1 DEF Accepts, Obeys, CalledOnce, AnsweredOnce, AnsweredLater, AnsweredFirst, Waiting, CallsIn, ResultsIn
<1> QED
  BY <1>1, <1>2, <1>3, <1>4 DEF FollowUpInv, Follows

\* What the client has when it asks: nothing yet, or what it was delivered.
LEMMA GotFollows ==
    ASSUME ConversationInv, DeliveryInv, Ask
    PROVE  /\ Rising(got.parts, Id(MaxParts))
           /\ route.api = "chat" => got.parts = TextsOf(got.parts) \o CallsOf(got.parts)
<1>1. CASE phase = "compose"
  <2>1. got.parts = <<>>
    BY <1>1 DEF ConversationInv, Fresh, Nothing
  <2>2. Rising(<<>>, Id(MaxParts))
    BY DEF Rising
  <2>3. TextsOf(<<>>) = <<>> /\ CallsOf(<<>>) = <<>>
    <3>1. <<>> \in Seq(Parts)
      OBVIOUS
    <3> QED
      BY <3>1, PartsSorted, KeptEmpty
  <2>4. <<>> \o <<>> = <<>>
    OBVIOUS
  <2> QED
    BY <2>1, <2>2, <2>3, <2>4
<1>2. CASE phase = "answered" /\ got.stop # None
  BY <1>2 DEF DeliveryInv, Fine, InOrder
<1> QED
  BY <1>1, <1>2 DEF Ask

\* Where nothing is asked, nothing changes about it.
LEMMA OtherwiseFollowUp ==
    ASSUME FollowUpInv, UNCHANGED <<route, history, requests>>,
           phase' \in {"rejected", "badtools"} => phase' = phase
    PROVE  FollowUpInv'
<1>1. HistorySaid(history)' = HistorySaid(history)
  BY DEF HistorySaid
<1>2. Id(0)' = Id(0)
  BY DEF Id
<1>3. Translated(history)' = Translated(history)
  BY DEF Translated, AsResponses
<1> QED
  BY <1>1, <1>2, <1>3 DEF FollowUpInv, Follows

\* A request keeps the rules, or the model has not.
LEMMA AskFollowUp ==
    ASSUME MaxParts \in Nat, ConversationInv, DeliveryInv, FollowUpInv, Ask
    PROVE  FollowUpInv'
<1>1. RouteTyped /\ requests \in Nat /\ history \in Seq(Recorder(route.api)) /\ got.parts \in Seq(Spoke)
      /\ Follows(HistorySaid(history), Id(0))
  BY AskSends DEF ConversationInv, FollowUpInv
<1>2. PICK order, note, more :
         /\ Sends(got.parts, order, note, more)
         /\ Request(history \o Recorded("assistant", got.parts) \o note
                       \o Recorded("user", Each(Result, order) \o more))
  BY AskSends
<1>3. PICK messages : /\ messages \in Seq(Recorder(route.api)) /\ Follows(HistorySaid(messages), Id(MaxParts))
                      /\ Request(messages)
  BY <1>1, <1>2, GotFollows, RequestFollows
<1>4. /\ history' = messages /\ route' = route /\ requests' = requests + 1
      /\ phase' = "rejected" => route.via = "chat" /\ ~Translated(messages).ok
      /\ phase' = "badtools" => Translated(messages).ok
  BY <1>3 DEF Request
<1>5. HistorySaid(history)' = HistorySaid(messages)
  BY <1>4 DEF HistorySaid
<1>6. Id(0)' = Id(MaxParts)
  <2>1. Id(0)' = MaxParts * (requests + 1)
    BY <1>1, <1>4 DEF Id
  <2>2. Id(MaxParts) = MaxParts * requests + MaxParts
    BY DEF Id
  <2>3. MaxParts * (requests + 1) = MaxParts * requests + MaxParts
    BY <1>1
  <2> QED
    BY <2>1, <2>2, <2>3
<1>7. phase' = "rejected" => route.via = "chat" /\ CallThenText(HistorySaid(messages))
  BY <1>1, <1>3, <1>4, AcceptedGoesOut DEF Follows
<1>8. Follows(HistorySaid(history), Id(0))'
  BY <1>3, <1>5, <1>6 DEF Follows
<1>9. Translated(history)' = Translated(messages)
  BY <1>4 DEF Translated, AsResponses
<1> QED
  BY <1>4, <1>5, <1>7, <1>8, <1>9 DEF FollowUpInv

\* FollowUpInv is kept by every step, beside ConversationInv and DeliveryInv.
LEMMA NextFollowUp ==
    ASSUME ConversationInv, DeliveryInv, FollowUpInv, [Next]_vars
    PROVE  FollowUpInv'
<1>1. CASE Ask
  BY <1>1, AskFollowUp, ConversationAssumption
<1>2. CASE Retry
  BY <1>2, OtherwiseFollowUp DEF Retry
<1>3. CASE phase = "asked" /\ Answer
  <2>1. \E turn, finish, received : Answered(turn, finish, received)
    BY <1>3 DEF Answer, AnswerWhole, AnswerStreamed
  <2>2. UNCHANGED <<route, history, requests>> /\ phase' = "answered"
    BY <2>1 DEF Answered
  <2> QED
    BY <2>2, OtherwiseFollowUp
<1>4. CASE UNCHANGED vars
  BY <1>4, OtherwiseFollowUp DEF vars
<1> QED
  BY <1>1, <1>2, <1>3, <1>4 DEF Next

\* What goes out through chat has no text of the model right behind a call.
LEMMA GoneOutObeys ==
    ASSUME RouteTyped, history \in Seq(Recorder(route.api)), route.via = "chat", Translated(history).ok
    PROVE  ~CallThenText(HistorySaid(history))
<1> DEFINE body == AsResponses(history)
<1>1. body.input \in Seq(Items) /\ ItemsSaid(body.input) = OthersOf(HistorySaid(history))
  BY TranslationSays
<1>2. Translated(history) = ResponsesToChatRequest(body)
  BY DEF Translated
<1> HIDE DEF body
<1>3. TranslateInputItems(body.input).ok
  BY <1>2 DEF ResponsesToChatRequest
<1>4. Accepts(OthersOf(HistorySaid(history)))
  <2>1. Accepts(ItemsSaid(body.input))
    BY <1>1, <1>3, OnlyAccepted
  <2> QED
    BY <1>1, <2>1
<1>5. HistorySaid(history) \in Seq(Utterances)
  BY SystemWrites
<1>6. OthersOf(HistorySaid(history)) \in Seq(Words)
  <2>1. Utterances \subseteq Words
    BY DEF Utterances
  <2>2. HistorySaid(history) \in Seq(Words)
    BY <1>5, <2>1, Widened
  <2> QED
    BY <2>2, SplitTyped
<1> QED
  BY <1>4, <1>5, <1>6, AcceptsNone, SpokenStays

\* A client that answers each call before it says anything else is refused its
\* own history exactly if the model has spoken right behind a call and is to be
\* shown that through chat.
THEOREM FollowUpAcceptedHolds == Spec => []FollowUpAccepted
<1>1. Init => ConversationInv /\ DeliveryInv /\ FollowUpInv
  <2> SUFFICES ASSUME Init PROVE DeliveryInv /\ FollowUpInv
    BY InitConversation
  <2> QED
    BY InitFollowUp DEF Init, DeliveryInv
<1>2. ConversationInv /\ DeliveryInv /\ FollowUpInv /\ [Next]_vars => ConversationInv' /\ DeliveryInv' /\ FollowUpInv'
  BY NextConversation, NextDelivery, NextFollowUp
<1>3. ConversationInv /\ FollowUpInv => FollowUpAccepted
  <2> SUFFICES ASSUME ConversationInv, FollowUpInv PROVE FollowUpAccepted
    OBVIOUS
  <2>0. RouteTyped /\ history \in Seq(Recorder(route.api))
    BY DEF ConversationInv
  <2>1. HistoryLines = HistorySaid(history) /\ HistoryLines \in Seq(Words)
    <3>1. <<>> \in Seq(Recorder(route.api))
      OBVIOUS
    <3> QED
      BY <2>0, <3>1, FirstTranslation, HistorySaidConcat
  <2> DEFINE SpokenAt(i) == /\ HistoryLines[i].kind = "call"
                            /\ HistoryLines[i + 1].kind = "text" /\ HistoryLines[i + 1].role = "assistant"
  <2>2. CallThenText(HistoryLines) <=> \E i \in 1..Len(HistoryLines) - 1 : SpokenAt(i)
    <3>1. DOMAIN HistoryLines = 1..Len(HistoryLines) /\ Len(HistoryLines) \in Nat
      BY <2>1
    <3>2. \A i : i \in 1..Len(HistoryLines) - 1 <=> i \in DOMAIN HistoryLines /\ i + 1 \in DOMAIN HistoryLines
      BY <3>1
    <3> QED
      BY <3>2 DEF CallThenText
  <2>3. phase = "rejected" => route.via = "chat" /\ CallThenText(HistoryLines)
    BY <2>1 DEF FollowUpInv
  <2>4. ASSUME route.via = "chat", phase # "rejected" PROVE ~CallThenText(HistoryLines)
    <3>1. CASE phase = "compose"
      <4>1. history = <<>>
        BY <3>1 DEF ConversationInv, Fresh
      <4>2. HistorySaid(history) = <<>>
        BY <2>0, <4>1, BlocksSaidEmpty, ChatSaidEmpty, ItemsSaidEmpty DEF HistorySaid, RouteTyped, Apis
      <4>3. DOMAIN <<>> = {}
        OBVIOUS
      <4> QED
        BY <2>1, <4>2, <4>3 DEF CallThenText
    <3>2. CASE phase # "compose"
      <4>1. Translated(history).ok
        BY <2>4, <3>2 DEF ConversationInv, PromptKept, FollowUpInv
      <4> QED
        BY <2>0, <2>1, <2>4, <4>1, GoneOutObeys
    <3> QED
      BY <3>1, <3>2
  <2> QED
    BY <2>2, <2>3, <2>4 DEF FollowUpAccepted
<1> QED
  BY <1>1, <1>2, <1>3, PTL DEF Spec
=============================================================================
