--------------------- MODULE TranslatedConversationProofs ---------------------
(***************************************************************************)
(* The model behind the proxy is shown what the client's history says, for *)
(* any routes, tools, turns and streams, and for any number of requests.   *)
(*                                                                         *)
(* A translation is a fold over messages, blocks or items.  What has been  *)
(* said in the state of such a fold (SaidSoFar, Told) grows with each step *)
(* by what the next member says, so at its end everything has been said,   *)
(* once and in order (MessagesGathered, ItemsKept): a translation of a     *)
(* history in its format keeps the words (TranslationKeepsWords).          *)
(*                                                                         *)
(* That every history is in its format is the other half.  It depends on   *)
(* what clients have of the answers: a stream they are told has ended      *)
(* leaves them whole blocks only (BurstShown, BurstRelayed), and a call    *)
(* comes back with a tool of the request (RegisteredTyped).                *)
(***************************************************************************)
EXTENDS TranslatedConversation, SequenceTheorems, FiniteSetTheorems, WellFoundedInduction, TLAPS

-----------------------------------------------------------------------------
\* Sequences: mapped, joined, kept in part, and folds over sets of numbers.

\* A set of naturals with a member has a least one.
LEMMA LeastNat ==
    ASSUME NEW S \in SUBSET Nat, NEW k \in S
    PROVE  \E m \in S : \A n \in S : m <= n
<1>1. PICK m \in S : \A n \in S : <<n, m>> \notin OpToRel(<, Nat)
  BY NatLessThanWellFounded, WFMin
<1>2. \A n \in S : ~(n < m)
  BY <1>1 DEF OpToRel
<1> QED
  BY <1>2

\* f[i] is what the first i sequences of ss make together.
PartsJoined(ss, n, f) == f = [i \in 1..n |-> IF i = 1 THEN ss[i] ELSE f[i-1] \o ss[i]]

\* What the first n sequences make together is extended by one more.
LEMMA PrefixesGrow ==
    ASSUME NEW ss, NEW n \in Nat, NEW f, PartsJoined(ss, n, f)
    PROVE  \E g : PartsJoined(ss, n + 1, g)
<1> DEFINE m == n + 1
           g == [i \in 1..m |-> IF i = m THEN (IF i = 1 THEN ss[i] ELSE f[i-1] \o ss[i]) ELSE f[i]]
<1>1. ASSUME NEW i \in 1..m PROVE g[i] = IF i = 1 THEN ss[i] ELSE g[i-1] \o ss[i]
  <2>1. CASE i = m
    <3>1. i # 1 => g[i-1] = f[i-1]
      BY <2>1
    <3> QED
      BY <2>1, <3>1
  <2>2. CASE i # m
    <3>1. g[i] = f[i] /\ i \in 1..n
      BY <2>2
    <3>2. i # 1 => g[i-1] = f[i-1]
      BY <2>2
    <3>3. f[i] = IF i = 1 THEN ss[i] ELSE f[i-1] \o ss[i]
      BY <3>1 DEF PartsJoined
    <3> QED
      BY <3>1, <3>2, <3>3
  <2> QED
    BY <2>1, <2>2
<1>2. g = [i \in 1..m |-> g[i]]
  OBVIOUS
<1> HIDE DEF g
<1>3. g = [i \in 1..m |-> IF i = 1 THEN ss[i] ELSE g[i-1] \o ss[i]]
  BY <1>1, <1>2
<1>4. PartsJoined(ss, m, g)
  BY <1>3 DEF PartsJoined
<1> QED
  BY <1>4

\* For every sequence of sequences there is such a function.
LEMMA PrefixesExist ==
    ASSUME NEW ss, NEW n \in Nat
    PROVE  \E f : PartsJoined(ss, n, f)
<1> DEFINE Bad == {m \in Nat : ~\E f : PartsJoined(ss, m, f)}
<1>1. SUFFICES ASSUME n \in Bad PROVE FALSE
  OBVIOUS
<1>2. PICK m \in Bad : \A k \in Bad : m <= k
  BY <1>1, LeastNat
<1>3. m # 0
  <2>1. PartsJoined(ss, 0, [i \in 1..0 |-> i])
    BY DEF PartsJoined
  <2> QED
    BY <2>1
<1>4. m - 1 \in Nat /\ m - 1 \notin Bad
  BY <1>2, <1>3
<1>5. PICK f : PartsJoined(ss, m - 1, f)
  BY <1>4
<1>6. \E g : PartsJoined(ss, m - 1 + 1, g)
  BY <1>4, <1>5, PrefixesGrow
<1> QED
  BY <1>6, <1>2

\* Its two equations.
LEMMA PrefixesUnfold ==
    ASSUME NEW ss, NEW n \in Nat, NEW f, PartsJoined(ss, n, f), NEW i \in 1..n
    PROVE  f[i] = IF i = 1 THEN ss[i] ELSE f[i-1] \o ss[i]
  BY DEF PartsJoined

\* Two functions or sequences agree on the first n.
SameUpTo(f, g, n) == \A i \in 1..n : g[i] = f[i]

\* Two such functions agree where both are defined.
LEMMA PrefixesAgree ==
    ASSUME NEW ss, NEW tt, NEW n \in Nat, NEW m \in Nat, n <= m, SameUpTo(ss, tt, n),
           NEW f, PartsJoined(ss, n, f), NEW g, PartsJoined(tt, m, g)
    PROVE  SameUpTo(f, g, n)
<1> USE DEF SameUpTo
<1> DEFINE Bad == {i \in 1..n : g[i] # f[i]}
<1>1. SUFFICES ASSUME NEW k \in Bad PROVE FALSE
  OBVIOUS
<1>2. PICK i \in Bad : \A j \in Bad : i <= j
  <2>1. Bad \in SUBSET Nat
    OBVIOUS
  <2> QED
    BY <1>1, <2>1, LeastNat
<1>3. i \in 1..n /\ i \in 1..m
  BY <1>2
<1>4. f[i] = IF i = 1 THEN ss[i] ELSE f[i-1] \o ss[i]
  BY <1>3, PrefixesUnfold
<1>5. g[i] = IF i = 1 THEN tt[i] ELSE g[i-1] \o tt[i]
  BY <1>3, PrefixesUnfold
<1>6. i # 1 => i-1 \in 1..n /\ i-1 \notin Bad
  BY <1>2
<1> QED
  BY <1>2, <1>3, <1>4, <1>5, <1>6

\* FlattenSeq is what all of the sequences make together.
LEMMA FlattenIsPrefix ==
    ASSUME NEW ss, Len(ss) \in Nat, Len(ss) # 0
    PROVE  \E f : PartsJoined(ss, Len(ss), f) /\ FlattenSeq(ss) = f[Len(ss)]
<1> DEFINE f == CHOOSE f : PartsJoined(ss, Len(ss), f)
<1>1. PartsJoined(ss, Len(ss), f)
  BY PrefixesExist
<1>2. FlattenSeq(ss) = f[Len(ss)]
  BY DEF FlattenSeq, PartsJoined
<1> QED
  BY <1>1, <1>2

\* No sequences make nothing.
LEMMA FlattenEmpty == FlattenSeq(<<>>) = <<>>
  BY DEF FlattenSeq

\* A further sequence is put behind what the others make together.
LEMMA FlattenAppend ==
    ASSUME NEW S, NEW ss \in Seq(Seq(S)), NEW s \in Seq(S)
    PROVE  FlattenSeq(Append(ss, s)) = FlattenSeq(ss) \o s
<1> DEFINE tt == Append(ss, s)
           n == Len(ss)
<1>0. /\ Len(tt) = n + 1 /\ n \in Nat /\ tt[n + 1] = s
      /\ \A i \in 1..n : tt[i] = ss[i]
  OBVIOUS
<1>1. n = 0 => ss = <<>>
  OBVIOUS
<1>2. <<>> \o s = s
  OBVIOUS
<1> SUFFICES FlattenSeq(tt) = FlattenSeq(ss) \o s
  OBVIOUS
<1> HIDE DEF tt
<1>3. PICK g : PartsJoined(tt, Len(tt), g) /\ FlattenSeq(tt) = g[Len(tt)]
  BY <1>0, FlattenIsPrefix
<1>4. g[n + 1] = IF n + 1 = 1 THEN tt[n + 1] ELSE g[n + 1 - 1] \o tt[n + 1]
  <2>1. n + 1 \in 1..Len(tt)
    BY <1>0
  <2> QED
    BY <1>0, <1>3, <2>1, PrefixesUnfold
<1>5. CASE n = 0
  BY <1>0, <1>1, <1>2, <1>3, <1>4, <1>5, FlattenEmpty
<1>6. CASE n # 0
  <2>1. PICK f : PartsJoined(ss, n, f) /\ FlattenSeq(ss) = f[n]
    BY <1>0, <1>6, FlattenIsPrefix
  <2>2. SameUpTo(f, g, n)
    <3> DEFINE m == Len(tt)
    <3>1. m \in Nat /\ n \in Nat /\ n <= m
      BY <1>0
    <3>2. SameUpTo(ss, tt, n)
      BY <1>0 DEF SameUpTo
    <3>3. PartsJoined(tt, m, g)
      BY <1>3
    <3>4. PartsJoined(ss, n, f)
      BY <2>1
    <3> HIDE DEF n, m
    <3> QED
      BY <3>1, <3>2, <3>3, <3>4, PrefixesAgree
  <2>3. n + 1 - 1 = n /\ n + 1 # 1 /\ Len(tt) = n + 1
    BY <1>0, <1>6
  <2>4. g[n + 1] = g[n] \o tt[n + 1]
    BY <1>4, <2>3
  <2>5. g[n] = f[n]
    <3>1. n \in 1..n
      BY <1>0, <1>6
    <3> QED
      BY <2>2, <3>1 DEF SameUpTo
  <2> HIDE DEF n
  <2> QED
    BY <1>0, <1>3, <2>1, <2>5, <2>3, <2>4
<1> QED
  BY <1>5, <1>6

\* What holds of the empty sequence and survives a further element holds of
\* every sequence.
LEMMA SequencesGrow ==
    ASSUME NEW S, NEW T, <<>> \in T,
           \A s \in Seq(S), x \in S : s \in T => Append(s, x) \in T
    PROVE  \A s \in Seq(S) : s \in T
<1> DEFINE Bad == {n \in Nat : \E s \in Seq(S) : Len(s) = n /\ s \notin T}
<1>1. SUFFICES ASSUME NEW z \in Seq(S), z \notin T PROVE FALSE
  OBVIOUS
<1>2. Len(z) \in Bad
  BY <1>1
<1>3. PICK n \in Bad : \A k \in Bad : n <= k
  BY <1>2, LeastNat
<1>4. PICK s \in Seq(S) : Len(s) = n /\ s \notin T
  BY <1>3
<1>5. n # 0
  BY <1>4
<1>6. PICK r \in Seq(S), x \in S : s = Append(r, x) /\ Len(r) = n - 1
  <2>1. s # <<>> /\ Len(s) \in Nat
    BY <1>4, <1>5
  <2> DEFINE r == [i \in 1..(Len(s) - 1) |-> s[i]]
  <2>2. r \in Seq(S) /\ Len(r) = Len(s) - 1 /\ s[Len(s)] \in S
    BY <2>1, <1>4, <1>5
  <2>3. s = Append(r, s[Len(s)])
    BY <2>1, <2>2, <1>4, <1>5
  <2> QED
    BY <1>4, <2>2, <2>3
<1>7. r \notin T
  BY <1>4, <1>6
<1>8. n - 1 \in Bad
  BY <1>5, <1>6, <1>7
<1> QED
  BY <1>3, <1>8

\* Elements of the parts are the elements of the whole.
LEMMA FlattenType ==
    ASSUME NEW S, NEW ss \in Seq(Seq(S))
    PROVE  FlattenSeq(ss) \in Seq(S)
<1> DEFINE T == {tt \in Seq(Seq(S)) : FlattenSeq(tt) \in Seq(S)}
<1>1. <<>> \in T
  <2>1. <<>> \in Seq(Seq(S)) /\ <<>> \in Seq(S)
    OBVIOUS
  <2> QED
    BY <2>1, FlattenEmpty
<1>2. ASSUME NEW tt \in Seq(Seq(S)), NEW s \in Seq(S), tt \in T PROVE Append(tt, s) \in T
  <2>1. FlattenSeq(Append(tt, s)) = FlattenSeq(tt) \o s
    BY FlattenAppend
  <2>2. FlattenSeq(tt) \o s \in Seq(S)
    BY <1>2
  <2>3. Append(tt, s) \in Seq(Seq(S))
    OBVIOUS
  <2> QED
    BY <2>1, <2>2, <2>3
<1> HIDE DEF T
<1>3. \A tt \in Seq(Seq(S)) : tt \in T
  BY <1>1, <1>2, SequencesGrow
<1> QED
  BY <1>3 DEF T

\* A function on 1..n is a sequence.
LEMMA IsSequence ==
    ASSUME NEW S, NEW n \in Nat, NEW f \in [1..n -> S]
    PROVE  f \in Seq(S) /\ Len(f) = n
  OBVIOUS

\* The elements of s with g of each.
Mapped(g, s) == [i \in DOMAIN s |-> g[s[i]]]

\* A function applied along a sequence grows with it.
LEMMA MappedAppend ==
    ASSUME NEW A, NEW B, NEW g \in [A -> B], NEW s \in Seq(A), NEW x \in A
    PROVE  Mapped(g, Append(s, x)) = Append(Mapped(g, s), g[x])
<1> DEFINE ss == [i \in DOMAIN s |-> g[s[i]]]
           t == Append(s, x)
           tt == [i \in DOMAIN t |-> g[t[i]]]
<1>1. ss \in Seq(B) /\ Len(ss) = Len(s) /\ g[x] \in B
  <2>1. Len(s) \in Nat /\ ss \in [1..Len(s) -> B]
    OBVIOUS
  <2> HIDE DEF ss
  <2> QED
    BY <2>1, IsSequence
<1>2. tt = Append(ss, g[x])
  <2>1. /\ t \in Seq(A) /\ DOMAIN t = 1..(Len(s) + 1) /\ t[Len(s) + 1] = x
        /\ \A i \in 1..Len(s) : t[i] = s[i] /\ i \in DOMAIN s
        /\ DOMAIN s = 1..Len(s) /\ Len(s) \in Nat
    OBVIOUS
  <2> HIDE DEF t
  <2>2. DOMAIN tt = 1..(Len(s) + 1) /\ tt[Len(s) + 1] = g[x] /\ \A i \in 1..Len(s) : tt[i] = ss[i]
    BY <2>1
  <2>3. tt = [i \in 1..(Len(s) + 1) |-> tt[i]]
    BY <2>1
  <2> DEFINE more == Append(ss, g[x])
  <2> HIDE DEF ss
  <2>4. more = [i \in 1..(Len(s) + 1) |-> more[i]]
    BY <1>1, <2>1
  <2>5. more[Len(s) + 1] = g[x] /\ \A i \in 1..Len(s) : more[i] = ss[i]
    BY <1>1, <2>1
  <2> HIDE DEF tt, more
  <2>6. ASSUME NEW i \in 1..(Len(s) + 1) PROVE tt[i] = more[i]
    <3>1. i = Len(s) + 1 \/ i \in 1..Len(s)
      BY <2>1
    <3> QED
      BY <2>2, <2>5, <3>1
  <2>7. tt = more
    BY <2>3, <2>4, <2>6
  <2> QED
    BY <2>7 DEF more
<1> HIDE DEF ss
<1> QED
  BY <1>1, <1>2 DEF Mapped, ss

\* It yields a sequence of the function's values.
LEMMA MappedTyped ==
    ASSUME NEW A, NEW B, NEW g \in [A -> B], NEW s \in Seq(A)
    PROVE  Mapped(g, s) \in Seq(B)
<1> DEFINE f == [i \in DOMAIN s |-> g[s[i]]]
<1>1. Len(s) \in Nat /\ f \in [1..Len(s) -> B]
  OBVIOUS
<1> HIDE DEF f
<1>2. f \in Seq(B)
  BY <1>1, IsSequence
<1> QED
  BY <1>2 DEF f, Mapped

\* Nothing is mapped to nothing.
LEMMA MappedEmpty ==
    ASSUME NEW g
    PROVE  Mapped(g, <<>>) = <<>>
  BY DEF Mapped

\* Appending behind what is joined is appending to its second part.
LEMMA AppendedBehind ==
    \A S : \A one, two \in Seq(S), y \in S : one \o Append(two, y) = Append(one \o two, y)
<1> SUFFICES ASSUME NEW S, NEW one \in Seq(S), NEW two \in Seq(S), NEW y \in S
             PROVE  one \o Append(two, y) = Append(one \o two, y)
  OBVIOUS
<1> DEFINE three == <<y>>
           both == one \o two
<1>1. three \in Seq(S) /\ both \in Seq(S) /\ Append(two, y) = two \o three
  OBVIOUS
<1> HIDE DEF both
<1>2. Append(both, y) = both \o three
  BY <1>1
<1> HIDE DEF three
<1>3. both \o three = one \o (two \o three)
  BY SMTT(30), <1>1, ConcatAssociative DEF both
<1> QED
  BY <1>1, <1>2, <1>3 DEF both

Maps(g, A, B) == g \in [A -> B]

Along(g, s, x) == Mapped(g, Append(s, x)) = Append(Mapped(g, s), g[x])

\* A function applied along a sequence grows with it, as a fact about the three.
LEMMA MappedAlong ==
    ASSUME NEW A, NEW B, NEW g, Maps(g, A, B), NEW s \in Seq(A), NEW x \in A
    PROVE  Along(g, s, x)
  BY MappedAppend DEF Maps, Along

\* Two sequences, one behind the other.
LEMMA MappedConcat ==
    ASSUME NEW A, NEW B, NEW g, Maps(g, A, B), NEW s \in Seq(A), NEW t \in Seq(A)
    PROVE  Mapped(g, s \o t) = Mapped(g, s) \o Mapped(g, t)
<1>4. g \in [A -> B]
  BY DEF Maps
<1> DEFINE T == {u \in Seq(A) : Mapped(g, s \o u) = Mapped(g, s) \o Mapped(g, u)}
<1>0. \A u \in Seq(A) : Mapped(g, u) \in Seq(B)
  BY <1>4, MappedTyped
<1>1. <<>> \in T
  <2>1. s \o <<>> = s /\ <<>> \in Seq(A)
    OBVIOUS
  <2>2. Mapped(g, s) \o <<>> = Mapped(g, s)
    BY <1>0
  <2> QED
    BY <2>1, <2>2, MappedEmpty
<1>2. ASSUME NEW u \in Seq(A), NEW x \in A, u \in T PROVE Append(u, x) \in T
  <2>1. s \o Append(u, x) = Append(s \o u, x) /\ s \o u \in Seq(A)
    OBVIOUS
  <2>2. Mapped(g, Append(s \o u, x)) = Append(Mapped(g, s \o u), g[x])
    BY <1>4, <2>1, MappedAppend
  <2>3. Mapped(g, Append(u, x)) = Append(Mapped(g, u), g[x])
    <3>1. Along(g, u, x)
      BY MappedAlong
    <3> QED
      BY <3>1 DEF Along
  <2>4. Append(Mapped(g, s) \o Mapped(g, u), g[x]) = Mapped(g, s) \o Append(Mapped(g, u), g[x])
    <3> DEFINE one == Mapped(g, s)
               two == Mapped(g, u)
               y == g[x]
    <3>1. one \in Seq(B) /\ two \in Seq(B) /\ y \in B
      BY <1>0, <1>4
    <3> HIDE DEF one, two, y
    <3> DEFINE three == <<y>>
               both == one \o two
    <3>2. Append(two, y) = two \o three
      BY <3>1
    <3>3. three \in Seq(B) /\ both \in Seq(B)
      BY <3>1
    <3>4. (one \o two) \o three = one \o (two \o three)
      <4> HIDE DEF three
      <4> QED
        BY SMTT(30), <3>1, <3>3, ConcatAssociative
    <3> HIDE DEF both
    <3>5. Append(both, y) = both \o three
      BY <3>1, <3>3
    <3> QED
      BY <3>2, <3>4, <3>5 DEF one, two, y, both
  <2>5. Mapped(g, s \o Append(u, x)) = Mapped(g, s) \o Mapped(g, Append(u, x))
    BY <1>2, <2>1, <2>2, <2>3, <2>4
  <2> QED
    BY <2>5
<1> HIDE DEF T
<1>3. t \in T
  BY <1>1, <1>2, SequencesGrow
<1> QED
  BY <1>3 DEF T

\* What the elements of a sequence bring, one after the other.
Joint(g, s) == FlattenSeq(Mapped(g, s))

\* Nothing is joined to nothing.
LEMMA JointEmpty ==
    ASSUME NEW g
    PROVE  Joint(g, <<>>) = <<>>
  BY MappedEmpty, FlattenEmpty DEF Joint

\* What a function gives for each member, joined, is one sequence.
LEMMA JointTyped ==
    ASSUME NEW A, NEW S, NEW g \in [A -> Seq(S)], NEW s \in Seq(A)
    PROVE  Joint(g, s) \in Seq(S)
<1> DEFINE ss == Mapped(g, s)
           B == Seq(S)
<1>1. ss \in Seq(B)
  <2> HIDE DEF B
  <2> QED
    BY MappedTyped DEF B
<1> HIDE DEF ss
<1> QED
  BY <1>1, FlattenType DEF Joint, ss

\* One more member adds what the function gives for it, at the end.
LEMMA JointAppend ==
    ASSUME NEW A, NEW S, NEW g \in [A -> Seq(S)], NEW s \in Seq(A), NEW x \in A
    PROVE  Joint(g, Append(s, x)) = Joint(g, s) \o g[x]
<1> DEFINE ss == Mapped(g, s)
           B == Seq(S)
<1>1. ss \in Seq(B) /\ g[x] \in B /\ Mapped(g, Append(s, x)) = Append(ss, g[x])
  <2>1. g \in [A -> B] /\ g[x] \in B
    OBVIOUS
  <2> HIDE DEF B
  <2>2. ss \in Seq(B)
    BY <2>1, MappedTyped
  <2>3. Mapped(g, Append(s, x)) = Append(ss, g[x])
    <3>1. Maps(g, A, B)
      BY <2>1 DEF Maps
    <3>2. Along(g, s, x)
      BY <3>1, MappedAlong
    <3> QED
      BY <3>2 DEF Along
  <2> QED
    BY <2>1, <2>2, <2>3
<1> DEFINE e == g[x]
<1> HIDE DEF ss, e
<1>2. FlattenSeq(Append(ss, e)) = FlattenSeq(ss) \o e
  BY <1>1, FlattenAppend DEF e
<1> QED
  BY <1>1, <1>2 DEF Joint, ss, e

Associate(s, t, u) == (s \o t) \o u = s \o (t \o u)

\* Concatenation is associative.
LEMMA Associates ==
    ASSUME NEW S, NEW s \in Seq(S), NEW t \in Seq(S), NEW u \in Seq(S)
    PROVE  Associate(s, t, u)
  BY ConcatAssociative DEF Associate

\* Sequences joined one after the other are joined as one.
LEMMA JointConcat ==
    ASSUME NEW A, NEW S, NEW g \in [A -> Seq(S)], NEW s \in Seq(A), NEW t \in Seq(A)
    PROVE  Joint(g, s \o t) = Joint(g, s) \o Joint(g, t)
<1> DEFINE T == {u \in Seq(A) : Joint(g, s \o u) = Joint(g, s) \o Joint(g, u)}
<1>0. Joint(g, s) \in Seq(S)
  BY JointTyped
<1>1. <<>> \in T
  <2>1. s \o <<>> = s /\ <<>> \in Seq(A)
    OBVIOUS
  <2>2. Joint(g, s) \o <<>> = Joint(g, s)
    BY <1>0
  <2> QED
    BY <2>1, <2>2, JointEmpty
<1>2. ASSUME NEW u \in Seq(A), NEW x \in A, u \in T PROVE Append(u, x) \in T
  <2>1. s \o Append(u, x) = Append(s \o u, x) /\ s \o u \in Seq(A)
    BY SMTT(30)
  <2>2. Joint(g, Append(s \o u, x)) = Joint(g, s \o u) \o g[x]
    BY <2>1, JointAppend
  <2>3. Joint(g, Append(u, x)) = Joint(g, u) \o g[x] /\ Joint(g, u) \in Seq(S) /\ g[x] \in Seq(S)
    BY JointAppend, JointTyped
  <2>4. (Joint(g, s) \o Joint(g, u)) \o g[x] = Joint(g, s) \o (Joint(g, u) \o g[x])
    <3> DEFINE one == Joint(g, s)
               two == Joint(g, u)
               three == g[x]
    <3>1. one \in Seq(S) /\ two \in Seq(S) /\ three \in Seq(S)
      BY <1>0, <2>3
    <3> HIDE DEF one, two, three
    <3>2. Associate(one, two, three)
      BY <3>1, Associates
    <3> QED
      BY <3>2 DEF Associate, one, two, three
  <2>5. Joint(g, s \o Append(u, x)) = Joint(g, s) \o Joint(g, Append(u, x))
    BY <1>2, <2>1, <2>2, <2>3, <2>4
  <2> QED
    BY <2>5
<1> HIDE DEF T
<1>3. t \in T
  BY <1>1, <1>2, SequencesGrow
<1> QED
  BY <1>3 DEF T
\* The elements in K, in their order.
Picks(A, K)   == [x \in A |-> IF x \in K THEN <<x>> ELSE <<>>]
Kept(A, K, s) == Joint(Picks(A, K), s)

\* Picking is a function to sequences of at most one member.
LEMMA PicksTyped ==
    ASSUME NEW A, NEW K
    PROVE  Picks(A, K) \in [A -> Seq(A \intersect K)]
<1>1. ASSUME NEW x \in A PROVE (IF x \in K THEN <<x>> ELSE <<>>) \in Seq(A \intersect K)
  <2>1. <<>> \in Seq(A \intersect K)
    OBVIOUS
  <2>2. x \in K => <<x>> \in Seq(A \intersect K)
    OBVIOUS
  <2> QED
    BY <2>1, <2>2
<1> QED
  BY <1>1 DEF Picks

\* What is kept is what was there and was to be kept.
LEMMA KeptTyped ==
    ASSUME NEW A, NEW K, NEW s \in Seq(A)
    PROVE  Kept(A, K, s) \in Seq(A \intersect K)
  BY PicksTyped, JointTyped DEF Kept

\* Keeping distributes over concatenation.
LEMMA KeptConcat ==
    ASSUME NEW A, NEW K, NEW s \in Seq(A), NEW t \in Seq(A)
    PROVE  Kept(A, K, s \o t) = Kept(A, K, s) \o Kept(A, K, t)
<1> DEFINE g == Picks(A, K)
           S == A \intersect K
<1>1. g \in [A -> Seq(S)]
  BY PicksTyped
<1> HIDE DEF g, S
<1>2. Joint(g, s \o t) = Joint(g, s) \o Joint(g, t)
  BY <1>1, JointConcat
<1> QED
  BY <1>2 DEF Kept, g

\* A member at the end is kept or not, whatever came before.
LEMMA KeptAppend ==
    ASSUME NEW A, NEW K, NEW s \in Seq(A), NEW x \in A
    PROVE  Kept(A, K, Append(s, x)) = IF x \in K THEN Append(Kept(A, K, s), x) ELSE Kept(A, K, s)
<1> DEFINE g == Picks(A, K)
           S == A \intersect K
<1>0. g[x] = IF x \in K THEN <<x>> ELSE <<>>
  BY DEF Picks
<1>1. g \in [A -> Seq(S)]
  BY PicksTyped
<1>6. x \in K => x \in S
  OBVIOUS
<1> HIDE DEF g, S
<1>2. Joint(g, Append(s, x)) = Joint(g, s) \o g[x] /\ Joint(g, s) \in Seq(S)
  <2>1. Joint(g, Append(s, x)) = Joint(g, s) \o g[x]
    BY <1>1, JointAppend
  <2>2. Joint(g, s) \in Seq(S)
    BY <1>1, JointTyped
  <2> QED
    BY <2>1, <2>2
<1>3. Kept(A, K, s) = Joint(g, s) /\ Kept(A, K, Append(s, x)) = Joint(g, Append(s, x))
  BY DEF Kept, g
<1> HIDE DEF Kept
<1>4. CASE x \in K
  <2> DEFINE r == Joint(g, s)
  <2>1. r \in Seq(S) /\ x \in S
    BY <1>2, <1>4, <1>6
  <2> HIDE DEF r
  <2>2. r \o <<x>> = Append(r, x)
    BY <2>1
  <2> QED
    BY <1>0, <1>2, <1>3, <1>4, <2>2 DEF r
<1>5. CASE x \notin K
  <2> DEFINE r == Joint(g, s)
  <2>1. r \in Seq(S)
    BY <1>2
  <2> HIDE DEF r
  <2>2. r \o <<>> = r
    BY <2>1
  <2> QED
    BY <1>0, <1>2, <1>3, <1>5, <2>2 DEF r
<1> QED
  BY <1>4, <1>5

\* Of nothing, nothing is kept.
LEMMA KeptEmpty ==
    ASSUME NEW A, NEW K
    PROVE  Kept(A, K, <<>>) = <<>>
  BY JointEmpty DEF Kept

\* All are kept, or none.
LEMMA KeptAll ==
    ASSUME NEW A, NEW K, NEW s \in Seq(A \intersect K)
    PROVE  Kept(A, K, s) = s
<1> DEFINE T == {u \in Seq(A \intersect K) : Kept(A, K, u) = u}
<1>1. <<>> \in T
  BY KeptEmpty
<1>2. ASSUME NEW u \in Seq(A \intersect K), NEW x \in A \intersect K, u \in T PROVE Append(u, x) \in T
  <2>1. u \in Seq(A) /\ x \in A /\ x \in K
    OBVIOUS
  <2> QED
    BY <1>2, <2>1, KeptAppend
<1> HIDE DEF T
<1>3. s \in T
  BY <1>1, <1>2, SequencesGrow
<1> QED
  BY <1>3 DEF T

\* Of members none of which is to be kept, nothing is.
LEMMA KeptNone ==
    ASSUME NEW A, NEW K, NEW s \in Seq(A \ K)
    PROVE  Kept(A, K, s) = <<>>
<1> DEFINE T == {u \in Seq(A \ K) : Kept(A, K, u) = <<>>}
<1>1. <<>> \in T
  BY KeptEmpty
<1>2. ASSUME NEW u \in Seq(A \ K), NEW x \in A \ K, u \in T PROVE Append(u, x) \in T
  <2>1. u \in Seq(A) /\ x \in A /\ x \notin K
    OBVIOUS
  <2> QED
    BY <1>2, <2>1, KeptAppend
<1> HIDE DEF T
<1>3. s \in T
  BY <1>1, <1>2, SequencesGrow
<1> QED
  BY <1>3 DEF T
-----------------------------------------------------------------------------
\* The first i elements.
Firsts(s, i) == [k \in 1..i |-> s[k]]

\* The first i members are the first i - 1 and one more.
LEMMA FirstsGrow ==
    ASSUME NEW S, NEW s \in Seq(S), NEW i \in 1..Len(s)
    PROVE  /\ Firsts(s, i - 1) \in Seq(S)
           /\ Firsts(s, i) = Append(Firsts(s, i - 1), s[i])
           /\ s[i] \in S
<1> DEFINE r == Firsts(s, i - 1)
           t == Firsts(s, i)
<1>1. i - 1 \in Nat /\ r \in [1..(i - 1) -> S] /\ s[i] \in S
  BY DEF Firsts
<1>2. t = [k \in 1..(i - 1 + 1) |-> t[k]] /\ t[i] = s[i] /\ \A k \in 1..(i - 1) : t[k] = r[k]
  BY DEF Firsts
<1> HIDE DEF r, t
<1>3. r \in Seq(S) /\ Len(r) = i - 1
  BY <1>1, IsSequence
<1> DEFINE more == Append(r, s[i])
<1>4. /\ more = [k \in 1..(i - 1 + 1) |-> more[k]] /\ more[i] = s[i]
      /\ \A k \in 1..(i - 1) : more[k] = r[k]
  BY <1>1, <1>3
<1> HIDE DEF more
<1>5. ASSUME NEW k \in 1..(i - 1 + 1) PROVE t[k] = more[k]
  <2>1. k = i \/ k \in 1..(i - 1)
    BY <1>1
  <2> QED
    BY <1>2, <1>4, <2>1
<1>6. t = more
  BY <1>2, <1>4, <1>5
<1> QED
  BY <1>1, <1>3, <1>6 DEF r, t, more

\* The first none and the first all.
LEMMA FirstsEnds ==
    ASSUME NEW S, NEW s \in Seq(S)
    PROVE  Firsts(s, 0) = <<>> /\ Firsts(s, Len(s)) = s
  BY DEF Firsts

\* What holds of 0 and goes on up to n holds of n.
LEMMA UpTo ==
    ASSUME NEW n \in Nat, NEW T, 0 \in T, \A i \in 1..n : i - 1 \in T => i \in T
    PROVE  \A i \in 0..n : i \in T
<1> DEFINE Bad == {i \in 0..n : i \notin T}
<1>1. SUFFICES ASSUME NEW j \in Bad PROVE FALSE
  OBVIOUS
<1>2. PICK i \in Bad : \A k \in Bad : i <= k
  <2>1. Bad \in SUBSET Nat
    OBVIOUS
  <2> QED
    BY <1>1, <2>1, LeastNat
<1>3. i \in 1..n /\ i - 1 \in 0..n /\ i - 1 \notin Bad
  BY <1>2
<1> QED
  BY <1>2, <1>3
-----------------------------------------------------------------------------
\* A set of naturals up to n with a member has a greatest one.
LEMMA Greatest ==
    ASSUME NEW n \in Nat, NEW s \in SUBSET (1..n), s # {}
    PROVE  Max(s) \in s /\ \A y \in s : Max(s) >= y
<1> DEFINE U == {k \in Nat : n - k \in s}
<1>1. PICK x \in s : TRUE
  OBVIOUS
<1>2. n - x \in U /\ U \in SUBSET Nat
  OBVIOUS
<1>3. PICK k \in U : \A j \in U : k <= j
  BY <1>2, LeastNat
<1>4. n - k \in s /\ \A y \in s : n - k >= y
  <2>1. ASSUME NEW y \in s PROVE n - k >= y
    <3>1. n - y \in U
      OBVIOUS
    <3> QED
      BY <1>3, <3>1
  <2> QED
    BY <1>3, <2>1
<1> QED
  BY <1>4 DEF Max

\* What a fold over a part p of the indices results in.
FoldedOver(F, step, base, p) ==
    F[p] = IF p = {} THEN base ELSE step[<<Max(p), F[p \ {Max(p)}]>>]

FoldsOver(F, step, base, m) == \A p \in SUBSET (1..m) : FoldedOver(F, step, base, p)

\* A fold over the sets below m can be extended to those below m + 1.
LEMMA FoldGrows ==
    ASSUME NEW n \in Nat, NEW m \in 0..(n - 1), NEW S, NEW base \in S, NEW step \in [(1..n) \X S -> S],
           NEW F \in [SUBSET (1..m) -> S], FoldsOver(F, step, base, m)
    PROVE  \E G \in [SUBSET (1..(m + 1)) -> S] :
              FoldsOver(G, step, base, m + 1)
<1> USE DEF FoldsOver
<1> DEFINE k == m + 1
           G == [p \in SUBSET (1..k) |-> IF k \in p THEN step[<<k, F[p \ {k}]>>] ELSE F[p]]
<1>0. k \in 1..n /\ k - 1 = m
  OBVIOUS
<1>1. ASSUME NEW p \in SUBSET (1..k) PROVE p \ {k} \in SUBSET (1..m) /\ (k \notin p => p \in SUBSET (1..m))
  OBVIOUS
<1>2. G \in [SUBSET (1..k) -> S]
  BY <1>0, <1>1
<1>3. ASSUME NEW p \in SUBSET (1..k) PROVE FoldedOver(G, step, base, p)
  <2>1. CASE k \in p
    <3>1. Max(p) = k
      <4>1. k \in Nat /\ p \in SUBSET (1..k) /\ p # {}
        BY <2>1
      <4>2. Max(p) \in p /\ Max(p) >= k
        BY <2>1, <4>1, Greatest
      <4>3. Max(p) \in 1..k
        BY <4>2
      <4> QED
        BY <4>2, <4>3
    <3>2. G[p \ {k}] = F[p \ {k}]
      <4>1. p \ {k} \in SUBSET (1..k) /\ k \notin p \ {k}
        OBVIOUS
      <4> QED
        BY <4>1
    <3>3. G[p] = step[<<k, F[p \ {k}]>>]
      BY <2>1
    <3> HIDE DEF G, k
    <3> QED
      BY <2>1, <3>1, <3>2, <3>3 DEF FoldedOver
  <2>2. CASE k \notin p
    <3>1. p \in SUBSET (1..m) /\ G[p] = F[p]
      BY <2>2, <1>1
    <3>2. p # {} => Max(p) \in p
      <4>1. k \in Nat /\ p \in SUBSET (1..k)
        OBVIOUS
      <4> QED
        BY <4>1, Greatest
    <3>3. G[p \ {Max(p)}] = F[p \ {Max(p)}]
      <4>1. p \ {Max(p)} \in SUBSET (1..k) /\ k \notin p \ {Max(p)}
        BY <2>2
      <4> QED
        BY <4>1
    <3>4. FoldedOver(F, step, base, p)
      BY <3>1
    <3> HIDE DEF G
    <3> QED
      BY <3>1, <3>3, <3>4 DEF FoldedOver
  <2> QED
    BY <2>1, <2>2
<1> HIDE DEF G
<1> QED
  BY <1>2, <1>3

\* Any fold over the indices 1..n has results.
LEMMA FoldExists ==
    ASSUME NEW n \in Nat, NEW S, NEW base \in S, NEW step \in [(1..n) \X S -> S]
    PROVE  \E F \in [SUBSET (1..n) -> S] : FoldsOver(F, step, base, n)
<1> DEFINE Folds(m) == \E F \in [SUBSET (1..m) -> S] : FoldsOver(F, step, base, m)
           Bad == {m \in 0..n : ~Folds(m)}
<1>1. SUFFICES ASSUME n \in Bad PROVE FALSE
  <2>1. n \in 0..n
    OBVIOUS
  <2>2. Folds(n) => \E F \in [SUBSET (1..n) -> S] : FoldsOver(F, step, base, n)
    OBVIOUS
  <2> HIDE DEF Folds
  <2> QED
    BY <2>1, <2>2
<1>2. Folds(0)
  <2> DEFINE F == [p \in SUBSET (1..0) |-> base]
  <2>1. F \in [SUBSET (1..0) -> S]
    OBVIOUS
  <2>2. ASSUME NEW p \in SUBSET (1..0) PROVE FoldedOver(F, step, base, p)
    BY DEF FoldedOver
  <2>3. FoldsOver(F, step, base, 0)
    BY <2>2 DEF FoldsOver
  <2> HIDE DEF F
  <2> QED
    BY <2>1, <2>3
<1>3. ASSUME NEW m \in 0..(n - 1), Folds(m) PROVE Folds(m + 1)
  <2>1. PICK F \in [SUBSET (1..m) -> S] : FoldsOver(F, step, base, m)
    BY <1>3
  <2>2. \E G \in [SUBSET (1..(m + 1)) -> S] : FoldsOver(G, step, base, m + 1)
    BY <2>1, FoldGrows
  <2> QED
    BY <2>2
<1> HIDE DEF Folds
<1>4. PICK m \in Bad : \A k \in Bad : m <= k
  <2>1. Bad \in SUBSET Nat
    OBVIOUS
  <2> HIDE DEF Bad
  <2> QED
    BY <1>1, <2>1, LeastNat
<1>5. m - 1 \in 0..(n - 1) /\ (m - 1) + 1 = m /\ Folds(m - 1)
  <2>1. m \in 0..n /\ m # 0 /\ ~Folds(m)
    BY <1>2, <1>4
  <2>2. m - 1 \in 0..n /\ m - 1 \notin Bad
    BY <1>4, <2>1
  <2> QED
    BY <2>1, <2>2
<1> QED
  BY <1>3, <1>4, <1>5
-----------------------------------------------------------------------------
(* What is said and by whom: parts, lines, input items.                     *)

\* What is said and by whom, in each format.
AnyNames == Names \union {<<>>}
AnyTools == [space : Spaces \union {None}, name : AnyNames, kind : {"function", "custom"}]

Texts   == [kind : {"text"}, id : Nat, tool : {NoTool}]
Calls   == [kind : {"call"}, id : Nat, tool : AnyTools]
Results == [kind : {"result"}, id : Nat, tool : {NoTool}]
Parts   == Texts \union Calls \union Results

SystemMessages    == [role : {"system"}, blocks : Seq(Texts)]
UserMessages      == [role : {"user"}, blocks : Seq(Texts \union Results)]
AssistantMessages == [role : {"assistant"}, blocks : Seq(Texts \union Calls)]
Turned            == UserMessages \union AssistantMessages
BlockMessages     == SystemMessages \union Turned

MessageItems == [type : {"message"}, role : {"user", "assistant"}, texts : Seq(Nat) \ {<<>>}, id : Nat, tool : {NoTool}]
CallItems    == [type : {"call"}, role : {None}, texts : {<<>>}, id : Nat, tool : AnyTools]
OutputItems  == [type : {"output"}, role : {None}, texts : {<<>>}, id : Nat, tool : {NoTool}]
Items        == MessageItems \union CallItems \union OutputItems

Answers      == [role : {"tool"}, texts : {<<>>}, calls : {<<>>}, id : Nat]
Remarks      == [role : {"user", "system"}, texts : Seq(Nat) \ {<<>>}, calls : {<<>>}, id : Nat]
Replies      == {m \in [role : {"assistant"}, texts : Seq(Nat), calls : Seq(Calls), id : Nat] :
                    m.texts # <<>> \/ m.calls # <<>>}
ChatMessages == Answers \union Remarks \union Replies

Roles == {"system", "user", "assistant", "tool"}
Words == [role : Roles, kind : {"text", "call", "result"}, id : Nat, name : AnyNames]

BlocksSaid(messages) == FlattenSeq(Each(LAMBDA m : Lines(m.role, m.blocks), messages))
ItemsSaid(items)     == FlattenSeq(Each(ItemLines, items))
ChatSaid(messages)   == FlattenSeq(Each(ChatLines, messages))

\* No tool is a tool too, as far as types go: the one without a name.
LEMMA NoToolTyped == NoTool \in AnyTools /\ NoTool.name = <<>>
  BY DEF NoTool, AnyTools, AnyNames

\* Every part said by anybody makes a line.
LEMMA LineTyped ==
    ASSUME NEW role \in Roles, NEW p \in Parts
    PROVE  Line(role, p) \in Words
<1>1. p.kind \in {"text", "call", "result"} /\ p.id \in Nat /\ p.tool.name \in AnyNames
  BY NoToolTyped DEF Parts, Texts, Calls, Results, AnyTools, AnyNames
<1> QED
  BY <1>1 DEF Line, Words, Roles

LinesBy(role) == [p \in Parts |-> Line(role, p)]

\* So what a role says is a function from parts to lines.
LEMMA LinesByTyped ==
    ASSUME NEW role \in Roles
    PROVE  LinesBy(role) \in [Parts -> Words]
  BY LineTyped DEF LinesBy

\* Lines is that function along the parts.
LEMMA LinesMapped ==
    ASSUME NEW role \in Roles, NEW parts \in Seq(Parts)
    PROVE  Lines(role, parts) = Mapped(LinesBy(role), parts)
<1>1. \A i \in DOMAIN parts : parts[i] \in Parts
  OBVIOUS
<1> QED
  BY <1>1 DEF Lines, Each, Mapped, LinesBy

\* Parts make lines.
LEMMA LinesTyped ==
    ASSUME NEW role \in Roles, NEW parts \in Seq(Parts)
    PROVE  Lines(role, parts) \in Seq(Words)
  BY LinesMapped, LinesByTyped, MappedTyped

\* Nobody says anything with nothing.
LEMMA LinesEmpty ==
    ASSUME NEW role
    PROVE  Lines(role, <<>>) = <<>>
  BY DEF Lines, Each

\* A part at the end is said at the end.
LEMMA LinesAppend ==
    ASSUME NEW role \in Roles, NEW parts \in Seq(Parts), NEW p \in Parts
    PROVE  Lines(role, Append(parts, p)) = Append(Lines(role, parts), Line(role, p))
<1> DEFINE g == LinesBy(role)
           more == Append(parts, p)
<1>1. g \in [Parts -> Words] /\ more \in Seq(Parts)
  BY LinesByTyped
<1>5. g[p] = Line(role, p)
  BY DEF LinesBy
<1>2. Lines(role, parts) = Mapped(g, parts)
  BY LinesMapped
<1>3. Lines(role, more) = Mapped(g, more)
  BY <1>1, LinesMapped
<1> HIDE DEF g
<1>4. Along(g, parts, p)
  <2>1. Maps(g, Parts, Words)
    BY <1>1 DEF Maps
  <2> QED
    BY <2>1, MappedAlong
<1> QED
  BY <1>2, <1>3, <1>4, <1>5 DEF Along

\* What is said first comes first.
LEMMA LinesConcat ==
    ASSUME NEW role \in Roles, NEW first \in Seq(Parts), NEW then \in Seq(Parts)
    PROVE  Lines(role, first \o then) = Lines(role, first) \o Lines(role, then)
<1> DEFINE g == LinesBy(role)
           both == first \o then
<1>1. both \in Seq(Parts)
  OBVIOUS
<1>0. Maps(g, Parts, Words)
  BY LinesByTyped DEF Maps
<1>2. Lines(role, first) = Mapped(g, first) /\ Lines(role, then) = Mapped(g, then)
  BY LinesMapped
<1>3. Lines(role, both) = Mapped(g, both)
  BY <1>1, LinesMapped
<1> HIDE DEF g
<1>4. Mapped(g, first \o then) = Mapped(g, first) \o Mapped(g, then)
  BY <1>0, MappedConcat
<1> QED
  BY <1>2, <1>3, <1>4

\* Texts that are named by their ids.
TextsNamed == [t \in Nat |-> Text(t)]

\* A numbered text is a text part.
LEMMA TextTyped ==
    ASSUME NEW t \in Nat
    PROVE  Text(t) \in Texts /\ Text(t) \in Parts
  BY DEF Text, Texts, Parts

\* Numbered texts as a function.
LEMMA TextsNamedTyped == TextsNamed \in [Nat -> Texts]
  BY TextTyped DEF TextsNamed

\* The texts of a message are that function along their numbers.
LEMMA NamedMapped ==
    ASSUME NEW ts \in Seq(Nat)
    PROVE  Each(Text, ts) = Mapped(TextsNamed, ts)
<1>1. \A i \in DOMAIN ts : ts[i] \in Nat
  OBVIOUS
<1> QED
  BY <1>1 DEF Each, Mapped, TextsNamed

\* The texts of a message are parts.
LEMMA NamedTyped ==
    ASSUME NEW ts \in Seq(Nat)
    PROVE  Each(Text, ts) \in Seq(Texts) /\ Each(Text, ts) \in Seq(Parts)
<1>1. Each(Text, ts) \in Seq(Texts)
  BY NamedMapped, TextsNamedTyped, MappedTyped
<1>2. Texts \subseteq Parts
  BY DEF Parts
<1> QED
  BY <1>1, <1>2

\* One more number is one more text.
LEMMA NamedAppend ==
    ASSUME NEW ts \in Seq(Nat), NEW t \in Nat
    PROVE  Each(Text, Append(ts, t)) = Append(Each(Text, ts), Text(t))
<1> DEFINE g == TextsNamed
           more == Append(ts, t)
<1>1. g \in [Nat -> Texts] /\ more \in Seq(Nat)
  BY TextsNamedTyped
<1>5. g[t] = Text(t)
  BY DEF TextsNamed
<1>2. Each(Text, ts) = Mapped(g, ts)
  BY NamedMapped
<1>3. Each(Text, more) = Mapped(g, more)
  BY <1>1, NamedMapped
<1> HIDE DEF g
<1>4. Mapped(g, Append(ts, t)) = Append(Mapped(g, ts), g[t])
  BY <1>1, MappedAppend
<1> QED
  BY <1>2, <1>3, <1>4, <1>5

\* No numbers are no texts.
LEMMA NamedEmpty == Each(Text, <<>>) = <<>>
  BY DEF Each
-----------------------------------------------------------------------------
ItemWords == [x \in Items |-> ItemLines(x)]

\* The items the translations make, and what each says.
LEMMA ItemLinesOf ==
    /\ \A role \in {"user", "assistant"}, ts \in Seq(Nat) \ {<<>>} :
          /\ Message(role, ts) \in Items
          /\ ItemLines(Message(role, ts)) = Lines(role, Each(Text, ts))
    /\ \A id \in Nat, tool \in AnyTools :
          /\ CallItem(id, tool) \in Items
          /\ ItemLines(CallItem(id, tool)) = Lines("assistant", <<Call(id, tool)>>)
    /\ \A id \in Nat :
          /\ OutputItem(id) \in Items
          /\ ItemLines(OutputItem(id)) = Lines("tool", <<Result(id)>>)
<1>1. ASSUME NEW role \in {"user", "assistant"}, NEW ts \in Seq(Nat) \ {<<>>}
      PROVE  /\ Message(role, ts) \in Items
             /\ ItemLines(Message(role, ts)) = Lines(role, Each(Text, ts))
  BY DEF Message, Items, MessageItems, ItemLines
<1>2. ASSUME NEW id \in Nat, NEW tool \in AnyTools
      PROVE  /\ CallItem(id, tool) \in Items
             /\ ItemLines(CallItem(id, tool)) = Lines("assistant", <<Call(id, tool)>>)
  BY DEF CallItem, Items, CallItems, ItemLines
<1>3. ASSUME NEW id \in Nat
      PROVE  /\ OutputItem(id) \in Items
             /\ ItemLines(OutputItem(id)) = Lines("tool", <<Result(id)>>)
  BY DEF OutputItem, Items, OutputItems, ItemLines
<1> QED
  BY <1>1, <1>2, <1>3

\* A part alone is a line alone.
LEMMA OneLine ==
    ASSUME NEW role \in Roles, NEW p \in Parts
    PROVE  Lines(role, <<p>>) = <<Line(role, p)>>
<1>1. Append(<<>>, p) = <<p>> /\ Append(<<>>, Line(role, p)) = <<Line(role, p)>> /\ <<>> \in Seq(Parts)
  OBVIOUS
<1> QED
  BY <1>1, LinesAppend, LinesEmpty

\* Calls and results are parts.
LEMMA PartTyped ==
    /\ \A id \in Nat, tool \in AnyTools : Call(id, tool) \in Calls /\ Call(id, tool) \in Parts
    /\ \A id \in Nat : Result(id) \in Results /\ Result(id) \in Parts
  BY DEF Call, Result, Calls, Results, Parts

\* What an item says, as a function.
LEMMA ItemWordsTyped == ItemWords \in [Items -> Seq(Words)]
<1> SUFFICES ASSUME NEW x \in Items PROVE ItemLines(x) \in Seq(Words)
  BY DEF ItemWords
<1>1. CASE x \in MessageItems
  <2>1. ItemLines(x) = Lines(x.role, Each(Text, x.texts)) /\ x.role \in Roles /\ x.texts \in Seq(Nat)
    BY <1>1 DEF MessageItems, ItemLines, Roles
  <2> QED
    BY <2>1, NamedTyped, LinesTyped
<1>2. CASE x \in CallItems
  <2>1. ItemLines(x) = Lines("assistant", <<Call(x.id, x.tool)>>) /\ x.id \in Nat /\ x.tool \in AnyTools
    BY <1>2 DEF CallItems, ItemLines
  <2>2. <<Call(x.id, x.tool)>> \in Seq(Parts) /\ "assistant" \in Roles
    BY <2>1, PartTyped DEF Roles
  <2> QED
    BY <2>1, <2>2, LinesTyped
<1>3. CASE x \in OutputItems
  <2>1. ItemLines(x) = Lines("tool", <<Result(x.id)>>) /\ x.id \in Nat
    BY <1>3 DEF OutputItems, ItemLines
  <2>2. <<Result(x.id)>> \in Seq(Parts) /\ "tool" \in Roles
    BY <2>1, PartTyped DEF Roles
  <2> QED
    BY <2>1, <2>2, LinesTyped
<1> QED
  BY <1>1, <1>2, <1>3 DEF Items

\* What items say is that function along them, joined.
LEMMA ItemsSaidJoint ==
    ASSUME NEW items \in Seq(Items)
    PROVE  ItemsSaid(items) = Joint(ItemWords, items)
<1>1. \A i \in DOMAIN items : items[i] \in Items
  OBVIOUS
<1>2. Each(ItemLines, items) = Mapped(ItemWords, items)
  BY <1>1 DEF Each, Mapped, ItemWords
<1> QED
  BY <1>2 DEF ItemsSaid, Joint

\* Items say lines.
LEMMA ItemsSaidTyped ==
    ASSUME NEW items \in Seq(Items)
    PROVE  ItemsSaid(items) \in Seq(Words)
  BY ItemsSaidJoint, ItemWordsTyped, JointTyped

\* No items say nothing.
LEMMA ItemsSaidEmpty == ItemsSaid(<<>>) = <<>>
<1>1. <<>> \in Seq(Items)
  OBVIOUS
<1> QED
  BY <1>1, ItemsSaidJoint, JointEmpty

\* An item at the end says its lines at the end.
LEMMA ItemsSaidAppend ==
    ASSUME NEW items \in Seq(Items), NEW x \in Items
    PROVE  ItemsSaid(Append(items, x)) = ItemsSaid(items) \o ItemLines(x)
<1> DEFINE more == Append(items, x)
<1>1. more \in Seq(Items) /\ ItemWords[x] = ItemLines(x)
  BY DEF ItemWords
<1>2. ItemsSaid(more) = Joint(ItemWords, more)
  BY <1>1, ItemsSaidJoint
<1>3. Joint(ItemWords, Append(items, x)) = Joint(ItemWords, items) \o ItemWords[x]
  BY ItemWordsTyped, JointAppend
<1> QED
  BY <1>1, <1>2, <1>3, ItemsSaidJoint

\* Items say what their parts say, in order.
LEMMA ItemsSaidConcat ==
    ASSUME NEW items \in Seq(Items), NEW others \in Seq(Items)
    PROVE  ItemsSaid(items \o others) = ItemsSaid(items) \o ItemsSaid(others)
<1> DEFINE both == items \o others
<1>1. both \in Seq(Items)
  OBVIOUS
<1>2. ItemsSaid(both) = Joint(ItemWords, both)
  BY <1>1, ItemsSaidJoint
<1>3. Joint(ItemWords, items \o others) = Joint(ItemWords, items) \o Joint(ItemWords, others)
  BY ItemWordsTyped, JointConcat
<1> QED
  BY <1>2, <1>3, ItemsSaidJoint
-----------------------------------------------------------------------------
(* The same for chat messages and for messages of blocks.                   *)

ChatWords == [m \in ChatMessages |-> ChatLines(m)]

\* What a chat message says, by its role.
LEMMA ChatLinesOf ==
    ASSUME NEW m \in ChatMessages
    PROVE  /\ m.role = "tool" => (ChatLines(m) = Lines("tool", <<Result(m.id)>>) /\ m.id \in Nat)
           /\ m.role # "tool" => /\ ChatLines(m) = Lines(m.role, Each(Text, m.texts) \o m.calls)
                                 /\ m.texts \in Seq(Nat) /\ m.calls \in Seq(Calls)
           /\ m.role \in Roles
<1>1. CASE m \in Answers
  <2>1. m.role = "tool" /\ m.id \in Nat
    BY <1>1 DEF Answers
  <2>2. ChatLines(m) = Lines("tool", <<Result(m.id)>>)
    BY <2>1 DEF ChatLines
  <2>3. m.role \in Roles
    BY <2>1 DEF Roles
  <2> QED
    BY <2>1, <2>2, <2>3
<1>2. CASE m \in Remarks
  <2>1. m.role # "tool" /\ m.role \in Roles /\ m.texts \in Seq(Nat) /\ m.calls \in Seq(Calls)
    <3>1. m.calls = <<>> /\ m.role \in {"user", "system"} /\ m.texts \in Seq(Nat)
      BY <1>2 DEF Remarks
    <3> QED
      BY <3>1 DEF Roles
  <2>2. ChatLines(m) = Lines(m.role, Each(Text, m.texts) \o m.calls)
    BY <2>1 DEF ChatLines
  <2> QED
    BY <2>1, <2>2
<1>3. CASE m \in Replies
  <2>1. m.role # "tool" /\ m.role \in Roles /\ m.texts \in Seq(Nat) /\ m.calls \in Seq(Calls)
    BY <1>3 DEF Replies, Roles
  <2>2. ChatLines(m) = Lines(m.role, Each(Text, m.texts) \o m.calls)
    BY <2>1 DEF ChatLines
  <2> QED
    BY <2>1, <2>2
<1> QED
  BY <1>1, <1>2, <1>3 DEF ChatMessages

\* What a chat message says, as a function.
LEMMA ChatWordsTyped == ChatWords \in [ChatMessages -> Seq(Words)]
<1> SUFFICES ASSUME NEW m \in ChatMessages PROVE ChatLines(m) \in Seq(Words)
  BY DEF ChatWords
<1>1. CASE m.role = "tool"
  <2>1. ChatLines(m) = Lines("tool", <<Result(m.id)>>) /\ m.id \in Nat
    BY <1>1, ChatLinesOf
  <2>2. <<Result(m.id)>> \in Seq(Parts) /\ "tool" \in Roles
    BY <2>1, PartTyped DEF Roles
  <2> QED
    BY <2>1, <2>2, LinesTyped
<1>2. CASE m.role # "tool"
  <2>1. ChatLines(m) = Lines(m.role, Each(Text, m.texts) \o m.calls) /\ m.role \in Roles
    BY <1>2, ChatLinesOf
  <2>2. m.texts \in Seq(Nat) /\ m.calls \in Seq(Calls)
    BY <1>2, ChatLinesOf
  <2>3. Each(Text, m.texts) \in Seq(Parts) /\ m.calls \in Seq(Parts)
    BY <2>2, NamedTyped DEF Parts
  <2>4. Each(Text, m.texts) \o m.calls \in Seq(Parts)
    BY <2>3
  <2> QED
    BY <2>1, <2>4, LinesTyped
<1> QED
  BY <1>1, <1>2

\* What chat messages say is that function along them, joined.
LEMMA ChatSaidJoint ==
    ASSUME NEW messages \in Seq(ChatMessages)
    PROVE  ChatSaid(messages) = Joint(ChatWords, messages)
<1>1. \A i \in DOMAIN messages : messages[i] \in ChatMessages
  OBVIOUS
<1>2. Each(ChatLines, messages) = Mapped(ChatWords, messages)
  BY <1>1 DEF Each, Mapped, ChatWords
<1> QED
  BY <1>2 DEF ChatSaid, Joint

\* Chat messages say lines.
LEMMA ChatSaidTyped ==
    ASSUME NEW messages \in Seq(ChatMessages)
    PROVE  ChatSaid(messages) \in Seq(Words)
  BY ChatSaidJoint, ChatWordsTyped, JointTyped

\* No messages say nothing.
LEMMA ChatSaidEmpty == ChatSaid(<<>>) = <<>>
<1>1. <<>> \in Seq(ChatMessages)
  OBVIOUS
<1> QED
  BY <1>1, ChatSaidJoint, JointEmpty

\* A message at the end says its lines at the end.
LEMMA ChatSaidAppend ==
    ASSUME NEW messages \in Seq(ChatMessages), NEW m \in ChatMessages
    PROVE  ChatSaid(Append(messages, m)) = ChatSaid(messages) \o ChatLines(m)
<1> DEFINE more == Append(messages, m)
<1>1. more \in Seq(ChatMessages) /\ ChatWords[m] = ChatLines(m)
  BY DEF ChatWords
<1>2. ChatSaid(more) = Joint(ChatWords, more)
  BY <1>1, ChatSaidJoint
<1>3. Joint(ChatWords, Append(messages, m)) = Joint(ChatWords, messages) \o ChatWords[m]
  BY ChatWordsTyped, JointAppend
<1> QED
  BY <1>1, <1>2, <1>3, ChatSaidJoint

\* Messages say what their parts say, in order.
LEMMA ChatSaidConcat ==
    ASSUME NEW messages \in Seq(ChatMessages), NEW others \in Seq(ChatMessages)
    PROVE  ChatSaid(messages \o others) = ChatSaid(messages) \o ChatSaid(others)
<1> DEFINE both == messages \o others
<1>1. both \in Seq(ChatMessages)
  OBVIOUS
<1>2. ChatSaid(both) = Joint(ChatWords, both)
  BY <1>1, ChatSaidJoint
<1>3. Joint(ChatWords, messages \o others) = Joint(ChatWords, messages) \o Joint(ChatWords, others)
  BY ChatWordsTyped, JointConcat
<1> QED
  BY <1>2, <1>3, ChatSaidJoint
-----------------------------------------------------------------------------
BlockWords == [m \in BlockMessages |-> Lines(m.role, m.blocks)]

\* The role and the blocks of a message of the Messages format.
LEMMA BlocksTyped ==
    ASSUME NEW m \in BlockMessages
    PROVE  /\ m.role \in Roles /\ m.blocks \in Seq(Parts)
           /\ m \in SystemMessages <=> m.role = "system"
           /\ m \in Turned <=> m.role # "system"
<1>1. Seq(Texts) \subseteq Seq(Parts) /\ Seq(Texts \union Results) \subseteq Seq(Parts)
      /\ Seq(Texts \union Calls) \subseteq Seq(Parts)
  BY DEF Parts
<1>2. CASE m \in SystemMessages
  BY <1>1, <1>2 DEF SystemMessages, Turned, UserMessages, AssistantMessages, Roles
<1>3. CASE m \in UserMessages
  BY <1>1, <1>3 DEF SystemMessages, Turned, UserMessages, Roles
<1>4. CASE m \in AssistantMessages
  BY <1>1, <1>4 DEF SystemMessages, Turned, AssistantMessages, Roles
<1> QED
  BY <1>2, <1>3, <1>4 DEF BlockMessages, Turned

\* What such a message says, as a function.
LEMMA BlockWordsTyped == BlockWords \in [BlockMessages -> Seq(Words)]
  BY BlocksTyped, LinesTyped DEF BlockWords

\* What messages of blocks say is that function along them, joined.
LEMMA BlocksSaidJoint ==
    ASSUME NEW messages \in Seq(BlockMessages)
    PROVE  BlocksSaid(messages) = Joint(BlockWords, messages)
<1>1. \A i \in DOMAIN messages : messages[i] \in BlockMessages
  OBVIOUS
<1>2. Each(LAMBDA m : Lines(m.role, m.blocks), messages) = Mapped(BlockWords, messages)
  BY <1>1 DEF Each, Mapped, BlockWords
<1> QED
  BY <1>2 DEF BlocksSaid, Joint

\* Messages of blocks say lines.
LEMMA BlocksSaidTyped ==
    ASSUME NEW messages \in Seq(BlockMessages)
    PROVE  BlocksSaid(messages) \in Seq(Words)
  BY BlocksSaidJoint, BlockWordsTyped, JointTyped

\* No messages of blocks say nothing.
LEMMA BlocksSaidEmpty == BlocksSaid(<<>>) = <<>>
<1>1. <<>> \in Seq(BlockMessages)
  OBVIOUS
<1> QED
  BY <1>1, BlocksSaidJoint, JointEmpty

\* A message of blocks at the end says its lines at the end.
LEMMA BlocksSaidAppend ==
    ASSUME NEW messages \in Seq(BlockMessages), NEW m \in BlockMessages
    PROVE  BlocksSaid(Append(messages, m)) = BlocksSaid(messages) \o Lines(m.role, m.blocks)
<1> DEFINE more == Append(messages, m)
<1>1. more \in Seq(BlockMessages) /\ BlockWords[m] = Lines(m.role, m.blocks)
  BY DEF BlockWords
<1>2. BlocksSaid(more) = Joint(BlockWords, more)
  BY <1>1, BlocksSaidJoint
<1>3. Joint(BlockWords, Append(messages, m)) = Joint(BlockWords, messages) \o BlockWords[m]
  BY BlockWordsTyped, JointAppend
<1> QED
  BY <1>1, <1>2, <1>3, BlocksSaidJoint
-----------------------------------------------------------------------------
\* AppendBlock, one part at a time.
Gathered == [items : Seq(Items), texts : Seq(Nat)]

\* What the items and the texts gathered behind them say.
SaidSoFar(s, role) == ItemsSaid(s.items) \o Lines(role, Each(Text, s.texts))

\* Flushing texts into a message changes nothing about what has been said.
LEMMA Flushed ==
    ASSUME NEW s \in Gathered, NEW role \in {"user", "assistant"}
    PROVE  /\ FlushText(s, role) \in Gathered
           /\ FlushText(s, role).texts = <<>>
           /\ ItemsSaid(FlushText(s, role).items) = SaidSoFar(s, role)
<1>0. s.items \in Seq(Items) /\ s.texts \in Seq(Nat) /\ role \in Roles
  BY DEF Gathered, Roles
<1>1. CASE s.texts = <<>>
  <2>1. FlushText(s, role) = s
    BY <1>1 DEF FlushText
  <2>2. Lines(role, Each(Text, s.texts)) = <<>>
    BY <1>1, NamedEmpty, LinesEmpty
  <2>3. ItemsSaid(s.items) \o <<>> = ItemsSaid(s.items)
    BY <1>0, ItemsSaidTyped
  <2> QED
    BY <1>1, <2>1, <2>2, <2>3 DEF SaidSoFar
<1>2. CASE s.texts # <<>>
  <2> DEFINE x == Message(role, s.texts)
  <2>1. x \in Items /\ ItemLines(x) = Lines(role, Each(Text, s.texts))
    BY <1>0, <1>2, ItemLinesOf
  <2>2. FlushText(s, role) = [items |-> Append(s.items, x), texts |-> <<>>]
    BY <1>2 DEF FlushText
  <2> HIDE DEF x
  <2>3. ItemsSaid(Append(s.items, x)) = ItemsSaid(s.items) \o ItemLines(x)
    BY <1>0, <2>1, ItemsSaidAppend
  <2>4. FlushText(s, role) \in Gathered
    BY <1>0, <2>1, <2>2 DEF Gathered
  <2> QED
    BY <2>1, <2>2, <2>3, <2>4 DEF SaidSoFar
<1> QED
  BY <1>1, <1>2

\* A block appended is said after everything gathered before it.
LEMMA BlockAppended ==
    ASSUME NEW s \in Gathered, NEW role \in {"user", "assistant"}, NEW p \in Parts,
           p \in Calls => role = "assistant"
    PROVE  /\ AppendBlock(s, role, p) \in Gathered
           /\ SaidSoFar(AppendBlock(s, role, p), role) = Append(SaidSoFar(s, role), Line(role, p))
<1> DEFINE r == AppendBlock(s, role, p)
           f == FlushText(s, role)
<1>0. s.items \in Seq(Items) /\ s.texts \in Seq(Nat) /\ role \in Roles
  BY DEF Gathered, Roles
<1>1. /\ f \in Gathered /\ f.texts = <<>> /\ ItemsSaid(f.items) = SaidSoFar(s, role)
  BY Flushed
<1>2. SaidSoFar(s, role) \in Seq(Words)
  <2>1. ItemsSaid(s.items) \in Seq(Words) /\ Lines(role, Each(Text, s.texts)) \in Seq(Words)
    BY <1>0, ItemsSaidTyped, NamedTyped, LinesTyped
  <2> QED
    BY <2>1 DEF SaidSoFar
<1>3. CASE p \in Texts
  <2>1. p.kind = "text" /\ p.id \in Nat /\ p = Text(p.id)
    BY <1>3 DEF Texts, Text
  <2>2. r = [items |-> s.items, texts |-> Append(s.texts, p.id)]
    <3>1. r = [s EXCEPT !.texts = Append(@, p.id)]
      BY <2>1 DEF AppendBlock
    <3> QED
      BY <3>1 DEF Gathered
  <2>3. r \in Gathered /\ r.items = s.items /\ r.texts = Append(s.texts, p.id)
    <3>1. Append(s.texts, p.id) \in Seq(Nat)
      BY <1>0, <2>1
    <3> HIDE DEF r
    <3> QED
      BY <1>0, <2>2, <3>1 DEF Gathered
  <2>4. Each(Text, r.texts) = Append(Each(Text, s.texts), p)
    BY <1>0, <2>1, <2>3, NamedAppend
  <2>5. Lines(role, Append(Each(Text, s.texts), p)) = Append(Lines(role, Each(Text, s.texts)), Line(role, p))
    BY <1>0, NamedTyped, LinesAppend
  <2>6. ItemsSaid(s.items) \o Append(Lines(role, Each(Text, s.texts)), Line(role, p))
           = Append(ItemsSaid(s.items) \o Lines(role, Each(Text, s.texts)), Line(role, p))
    BY <1>0, ItemsSaidTyped, NamedTyped, LinesTyped, LineTyped, AppendedBehind
  <2> QED
    BY <2>3, <2>4, <2>5, <2>6 DEF SaidSoFar
<1>4. ASSUME NEW x \in Items, r = [f EXCEPT !.items = Append(@, x)], ItemLines(x) = <<Line(role, p)>>
      PROVE  /\ r \in Gathered
             /\ SaidSoFar(r, role) = Append(SaidSoFar(s, role), Line(role, p))
  <2>0. f.items \in Seq(Items) /\ Append(f.items, x) \in Seq(Items) /\ <<>> \in Seq(Nat)
    BY <1>1 DEF Gathered
  <2>01. r = [items |-> Append(f.items, x), texts |-> <<>>]
    BY <1>1, <1>4 DEF Gathered
  <2>1. r \in Gathered /\ r.items = Append(f.items, x) /\ r.texts = <<>> /\ f.items \in Seq(Items)
    <3> HIDE DEF r, f
    <3> QED
      BY <2>0, <2>01 DEF Gathered
  <2>2. ItemsSaid(r.items) = ItemsSaid(f.items) \o ItemLines(x)
    BY <2>1, ItemsSaidAppend
  <2>3. Lines(role, Each(Text, r.texts)) = <<>>
    BY <2>1, NamedEmpty, LinesEmpty
  <2>4. SaidSoFar(r, role) = (SaidSoFar(s, role) \o <<Line(role, p)>>) \o <<>>
    BY <1>1, <1>4, <2>2, <2>3 DEF SaidSoFar
  <2> DEFINE u == SaidSoFar(s, role)
             y == Line(role, p)
  <2>5. u \in Seq(Words) /\ y \in Words
    BY <1>0, <1>2, LineTyped
  <2> HIDE DEF u, y
  <2>6. (u \o <<y>>) \o <<>> = Append(u, y)
    BY <2>5
  <2> QED
    BY <2>1, <2>4, <2>6 DEF u, y
<1>5. CASE p \in Calls
  <2>1. p.kind = "call" /\ p.id \in Nat /\ p.tool \in AnyTools /\ p = Call(p.id, p.tool) /\ role = "assistant"
    BY <1>5 DEF Calls, Call
  <2>2. r = [f EXCEPT !.items = Append(@, CallItem(p.id, p.tool))]
    BY <2>1 DEF AppendBlock
  <2>3. /\ CallItem(p.id, p.tool) \in Items
        /\ ItemLines(CallItem(p.id, p.tool)) = Lines("assistant", <<Call(p.id, p.tool)>>)
    BY <2>1, ItemLinesOf
  <2>4. Lines("assistant", <<p>>) = <<Line("assistant", p)>>
    BY <1>0, <2>1, OneLine
  <2> QED
    BY <1>4, <2>1, <2>2, <2>3, <2>4
<1>6. CASE p \in Results
  <2>1. p.kind = "result" /\ p.id \in Nat /\ p = Result(p.id)
    BY <1>6 DEF Results, Result
  <2>2. r = [f EXCEPT !.items = Append(@, OutputItem(p.id))]
    BY <2>1 DEF AppendBlock
  <2>3. /\ OutputItem(p.id) \in Items
        /\ ItemLines(OutputItem(p.id)) = Lines("tool", <<Result(p.id)>>)
    BY <2>1, ItemLinesOf
  <2>4. Lines("tool", <<p>>) = <<Line("tool", p)>>
    BY OneLine DEF Roles
  <2>5. Line("tool", p) = Line(role, p)
    BY <2>1 DEF Line
  <2> QED
    BY <1>4, <2>1, <2>2, <2>3, <2>4, <2>5
<1> QED
  BY <1>3, <1>5, <1>6 DEF Parts
-----------------------------------------------------------------------------
\* A left fold has a value for each prefix, and each is a step from the one before.

\* f[i] is what the first i elements make of start.
Chain(f, step, start, s) ==
    /\ f[0] = start
    /\ \A i \in 1..Len(s) : f[i] = step[<<f[i - 1], s[i]>>]

\* A fold as a function of its step.
Folded(step, start, s) == (CHOOSE f : Chain(f, step, start, s))[Len(s)]

Steps(step, S, A) == step \in [S \X A -> S]

\* The largest number up to i is i, and without it i - 1 are left.
LEMMA Top ==
    ASSUME NEW n \in Nat, NEW i \in 1..n
    PROVE  1..i \in SUBSET (1..n) /\ 1..i # {} /\ Max(1..i) = i /\ (1..i) \ {i} = 1..(i - 1)
<1>1. 1..i \in SUBSET (1..n) /\ 1..i # {} /\ i \in 1..i /\ (1..i) \ {i} = 1..(i - 1)
  OBVIOUS
<1>2. Max(1..i) \in 1..i /\ Max(1..i) >= i
  BY <1>1, Greatest
<1> QED
  BY <1>1, <1>2

\* Every value of a fold is a state.
LEMMA ChainTyped ==
    ASSUME NEW S, NEW A, NEW step, Steps(step, S, A), NEW start \in S, NEW s \in Seq(A),
           NEW f, Chain(f, step, start, s)
    PROVE  \A i \in 0..Len(s) : f[i] \in S
<1> DEFINE n == Len(s)
           T == {i \in 0..n : f[i] \in S}
<1>1. 0 \in T /\ n \in Nat
  BY DEF Chain
<1>2. ASSUME NEW i \in 1..n, i - 1 \in T PROVE i \in T
  <2>1. f[i] = step[<<f[i - 1], s[i]>>] /\ s[i] \in A /\ f[i - 1] \in S
    BY <1>2 DEF Chain
  <2> QED
    BY <2>1 DEF Steps
<1> HIDE DEF n, T
<1>3. \A i \in 0..n : i \in T
  BY <1>1, <1>2, UpTo
<1> QED
  BY <1>3 DEF T, n

\* A fold over a longer sequence with the same beginning begins the same.
LEMMA ChainsAgree ==
    ASSUME NEW A, NEW step, NEW start, NEW s \in Seq(A), NEW t \in Seq(A), Len(s) <= Len(t),
           SameUpTo(s, t, Len(s)),
           NEW f, Chain(f, step, start, s), NEW g, Chain(g, step, start, t)
    PROVE  \A i \in 0..Len(s) : g[i] = f[i]
<1> DEFINE n == Len(s)
           T == {i \in 0..n : g[i] = f[i]}
<1>1. 0 \in T /\ n \in Nat
  BY DEF Chain
<1>2. ASSUME NEW i \in 1..n, i - 1 \in T PROVE i \in T
  <2>1. f[i] = step[<<f[i - 1], s[i]>>] /\ t[i] = s[i] /\ g[i - 1] = f[i - 1]
    BY <1>2 DEF Chain, SameUpTo
  <2>2. g[i] = step[<<g[i - 1], t[i]>>]
    <3>1. i \in 1..Len(t)
      OBVIOUS
    <3> QED
      BY <3>1 DEF Chain
  <2> QED
    BY <2>1, <2>2
<1> HIDE DEF n, T
<1>3. \A i \in 0..n : i \in T
  BY <1>1, <1>2, UpTo
<1> QED
  BY <1>3 DEF T, n

\* The results of a fold by its step, over all parts of the indices.
FoldsUp(F, step, start, s) ==
    \A p \in SUBSET (1..Len(s)) :
        F[p] = IF p = {} THEN start ELSE step[<<F[p \ {Max(p)}], s[Max(p)]>>]

\* The fold over the sets of positions exists.
LEMMA FoldsUpExists ==
    ASSUME NEW S, NEW A, NEW step, Steps(step, S, A), NEW start \in S, NEW s \in Seq(A)
    PROVE  \E F \in [SUBSET (1..Len(s)) -> S] : FoldsUp(F, step, start, s)
<1> DEFINE n == Len(s)
           by == [x \in (1..n) \X S |-> step[<<x[2], s[x[1]]>>]]
<1>1. n \in Nat /\ by \in [(1..n) \X S -> S]
  BY DEF Steps
<1> HIDE DEF by
<1>2. PICK F \in [SUBSET (1..n) -> S] : FoldsOver(F, by, start, n)
  BY <1>1, FoldExists
<1>3. ASSUME NEW p \in SUBSET (1..n)
      PROVE  F[p] = IF p = {} THEN start ELSE step[<<F[p \ {Max(p)}], s[Max(p)]>>]
  <2>1. F[p] = IF p = {} THEN start ELSE by[<<Max(p), F[p \ {Max(p)}]>>]
    BY <1>2 DEF FoldsOver, FoldedOver
  <2>2. p # {} => Max(p) \in 1..n
    BY <1>1, Greatest
  <2>3. F[p \ {Max(p)}] \in S
    OBVIOUS
  <2>4. p # {} => by[<<Max(p), F[p \ {Max(p)}]>>] = step[<<F[p \ {Max(p)}], s[Max(p)]>>]
    BY <2>2, <2>3 DEF by
  <2> QED
    BY <2>1, <2>4
<1> QED
  BY <1>3 DEF FoldsUp

\* The values of a fold, one for each prefix, exist.
LEMMA ChainExists ==
    ASSUME NEW S, NEW A, NEW step, Steps(step, S, A), NEW start \in S, NEW s \in Seq(A)
    PROVE  \E f : Chain(f, step, start, s)
<1>1. PICK F \in [SUBSET (1..Len(s)) -> S] : FoldsUp(F, step, start, s)
  BY FoldsUpExists
<1> DEFINE f == [i \in 0..Len(s) |-> F[1..i]]
<1>2. f[0] = start
  <2>1. 1..0 = {} /\ {} \in SUBSET (1..Len(s)) /\ Len(s) \in Nat
    OBVIOUS
  <2>2. F[{}] = start
    BY <1>1, <2>1 DEF FoldsUp
  <2> QED
    BY <2>1, <2>2
<1>3. ASSUME NEW i \in 1..Len(s) PROVE f[i] = step[<<f[i - 1], s[i]>>]
  <2>1. 1..i \in SUBSET (1..Len(s)) /\ 1..i # {} /\ Max(1..i) = i /\ (1..i) \ {i} = 1..(i - 1)
    BY Top
  <2>2. F[1..i] = step[<<F[1..(i - 1)], s[i]>>]
    BY <1>1, <2>1 DEF FoldsUp
  <2>3. f[i] = F[1..i] /\ f[i - 1] = F[1..(i - 1)]
    OBVIOUS
  <2> QED
    BY <2>2, <2>3
<1> HIDE DEF f
<1> QED
  BY <1>2, <1>3 DEF Chain

\* The result of a fold is the last of its values.
LEMMA FoldedBy ==
    ASSUME NEW S, NEW A, NEW step, Steps(step, S, A), NEW start \in S, NEW s \in Seq(A)
    PROVE  \E f : Chain(f, step, start, s) /\ Folded(step, start, s) = f[Len(s)]
<1> DEFINE f == CHOOSE f : Chain(f, step, start, s)
<1>1. Chain(f, step, start, s)
  BY ChainExists
<1>2. Folded(step, start, s) = f[Len(s)]
  BY DEF Folded
<1> HIDE DEF f
<1> QED
  BY <1>1, <1>2

\* The result of a fold is a state.
LEMMA FoldedTyped ==
    ASSUME NEW S, NEW A, NEW step, Steps(step, S, A), NEW start \in S, NEW s \in Seq(A)
    PROVE  Folded(step, start, s) \in S
<1>1. PICK f : Chain(f, step, start, s) /\ Folded(step, start, s) = f[Len(s)]
  BY FoldedBy
<1>2. \A i \in 0..Len(s) : f[i] \in S
  BY <1>1, ChainTyped
<1> QED
  BY <1>1, <1>2

\* A fold over nothing is its start.
LEMMA FoldedEmpty ==
    ASSUME NEW S, NEW A, NEW step, Steps(step, S, A), NEW start \in S
    PROVE  Folded(step, start, <<>>) = start
<1> DEFINE s == <<>>
<1>0. s \in Seq(A)
  OBVIOUS
<1>2. Len(s) = 0
  OBVIOUS
<1> HIDE DEF s
<1>1. PICK f : Chain(f, step, start, s) /\ Folded(step, start, s) = f[Len(s)]
  BY <1>0, FoldedBy
<1> QED
  BY <1>2, <1>1 DEF Chain, s

\* A fold over one more member is one more step.
LEMMA FoldedAppend ==
    ASSUME NEW S, NEW A, NEW step, Steps(step, S, A), NEW start \in S, NEW s \in Seq(A), NEW x \in A
    PROVE  Folded(step, start, Append(s, x)) = step[<<Folded(step, start, s), x>>]
<1> DEFINE t == Append(s, x)
<1>1. t \in Seq(A) /\ Len(t) = Len(s) + 1 /\ t[Len(s) + 1] = x /\ Len(s) \in Nat
      /\ \A i \in 1..Len(s) : t[i] = s[i]
  OBVIOUS
<1> HIDE DEF t
<1>2. PICK f : Chain(f, step, start, s) /\ Folded(step, start, s) = f[Len(s)]
  BY FoldedBy
<1>3. PICK g : Chain(g, step, start, t) /\ Folded(step, start, t) = g[Len(t)]
  BY <1>1, FoldedBy
<1>4. \A i \in 0..Len(s) : g[i] = f[i]
  <2>1. SameUpTo(s, t, Len(s)) /\ Len(s) <= Len(t)
    BY <1>1 DEF SameUpTo
  <2> QED
    BY <1>1, <1>2, <1>3, <2>1, ChainsAgree
<1>5. g[Len(s) + 1] = step[<<g[Len(s) + 1 - 1], t[Len(s) + 1]>>]
  <2>1. Len(s) + 1 \in 1..Len(t)
    BY <1>1
  <2> QED
    BY <1>3, <2>1 DEF Chain
<1>6. g[Len(s)] = f[Len(s)] /\ Len(s) + 1 - 1 = Len(s)
  BY <1>1, <1>4
<1> QED
  BY <1>1, <1>2, <1>3, <1>5, <1>6 DEF t

\* A function that does as the fold does while it stays in S is the chain.
LEMMA ChainIs ==
    ASSUME NEW S, NEW A, NEW step, Steps(step, S, A), NEW start \in S, NEW s \in Seq(A), NEW f, f[0] = start,
           \A i \in 1..Len(s) : f[i - 1] \in S => f[i] = step[<<f[i - 1], s[i]>>]
    PROVE  f[Len(s)] = Folded(step, start, s)
<1>1. PICK g : Chain(g, step, start, s) /\ Folded(step, start, s) = g[Len(s)]
  BY FoldedBy
<1>2. \A i \in 0..Len(s) : g[i] \in S
  BY <1>1, ChainTyped
<1> DEFINE n == Len(s)
           T == {i \in 0..n : f[i] = g[i]}
<1>3. 0 \in T /\ n \in Nat
  BY <1>1 DEF Chain
<1>4. ASSUME NEW i \in 1..n, i - 1 \in T PROVE i \in T
  <2>1. f[i - 1] = g[i - 1] /\ g[i - 1] \in S
    BY <1>2, <1>4
  <2>2. f[i] = step[<<f[i - 1], s[i]>>]
    BY <2>1
  <2>3. g[i] = step[<<g[i - 1], s[i]>>]
    BY <1>1 DEF Chain
  <2> QED
    BY <2>1, <2>2, <2>3
<1> HIDE DEF n, T
<1>5. \A i \in 0..n : i \in T
  BY <1>3, <1>4, UpTo
<1>6. n \in 0..n
  BY <1>3
<1> QED
  BY <1>1, <1>5, <1>6 DEF T, n
-----------------------------------------------------------------------------
(* append_anthropic_message_items: the blocks of one message.               *)

\* The parts that a user's or an assistant's turn is made of.
Blocks(role) == IF role = "assistant" THEN Texts \union Calls ELSE Texts \union Results

\* The blocks of a message are parts, and only the assistant calls.
LEMMA BlocksParts ==
    ASSUME NEW role \in {"user", "assistant"}
    PROVE  /\ Blocks(role) \subseteq Parts
           /\ \A p \in Blocks(role) : p \in Calls => role = "assistant"
  BY DEF Blocks, Parts, Calls, Texts, Results

\* append_anthropic_message_items goes through the blocks of a message.
BlockStep(role) == [x \in Gathered \X Blocks(role) |-> AppendBlock(x[1], role, x[2])]

BlocksFolding(F, start, s, role) ==
    F = [p \in SUBSET DOMAIN s |-> IF p = {} THEN start ELSE AppendBlock(F[p \ {Max(p)}], role, s[Max(p)])]

\* Appending a block is a step from state to state.
LEMMA BlocksSteps ==
    ASSUME NEW role \in {"user", "assistant"}
    PROVE  Steps(BlockStep(role), Gathered, Blocks(role))
<1>1. ASSUME NEW s \in Gathered, NEW p \in Blocks(role) PROVE AppendBlock(s, role, p) \in Gathered
  BY BlocksParts, BlockAppended
<1> QED
  BY <1>1 DEF Steps, BlockStep

\* The fold over the blocks of a message is a fold by that step.
LEMMA BlocksFolded ==
    ASSUME NEW role \in {"user", "assistant"}, NEW start \in Gathered, NEW s \in Seq(Blocks(role))
    PROVE  FoldLeft(LAMBDA x, p : AppendBlock(x, role, p), start, s) = Folded(BlockStep(role), start, s)
<1> DEFINE n == Len(s)
<1>0. n \in Nat /\ DOMAIN s = 1..n /\ Steps(BlockStep(role), Gathered, Blocks(role))
  BY BlocksSteps
<1>1. PICK F \in [SUBSET (1..n) -> Gathered] : FoldsUp(F, BlockStep(role), start, s)
  BY <1>0, FoldsUpExists
<1>2. BlocksFolding(F, start, s, role)
  <2>1. ASSUME NEW p \in SUBSET DOMAIN s
        PROVE  F[p] = IF p = {} THEN start ELSE AppendBlock(F[p \ {Max(p)}], role, s[Max(p)])
    <3>1. F[p] = IF p = {} THEN start ELSE BlockStep(role)[<<F[p \ {Max(p)}], s[Max(p)]>>]
      BY <1>0, <1>1 DEF FoldsUp
    <3>2. CASE p # {}
      <4>1. Max(p) \in 1..n
        BY <1>0, <3>2, Greatest
      <4>2. F[p \ {Max(p)}] \in Gathered /\ s[Max(p)] \in Blocks(role)
        BY <1>0, <4>1
      <4> DEFINE one == F[p \ {Max(p)}]
                 two == s[Max(p)]
      <4> HIDE DEF one, two
      <4>3. BlockStep(role)[<<one, two>>] = AppendBlock(one, role, two)
        BY <4>2 DEF BlockStep, one, two
      <4> QED
        BY <3>1, <3>2, <4>3 DEF one, two
    <3> QED
      BY <3>1, <3>2
  <2> QED
    BY <1>0, <2>1 DEF BlocksFolding
<1> DEFINE G == CHOOSE G : BlocksFolding(G, start, s, role)
           f == [i \in 0..n |-> G[1..i]]
<1>3. BlocksFolding(G, start, s, role)
  BY <1>2
<1>4. FoldLeft(LAMBDA x, p : AppendBlock(x, role, p), start, s) = G[1..n]
  BY <1>0 DEF FoldLeft, MapThenFoldSet, BlocksFolding
<1> HIDE DEF G
<1>5. ASSUME NEW p \in SUBSET (1..n)
      PROVE  G[p] = IF p = {} THEN start ELSE AppendBlock(G[p \ {Max(p)}], role, s[Max(p)])
  BY <1>0, <1>3 DEF BlocksFolding
<1>6. f[0] = start
  <2>1. {} \in SUBSET (1..n) /\ 1..0 = {} /\ 0 \in 0..n
    BY <1>0
  <2>2. G[{}] = start
    BY <1>5, <2>1
  <2> QED
    BY <2>1, <2>2
<1>7. ASSUME NEW i \in 1..n, f[i - 1] \in Gathered
      PROVE  f[i] = BlockStep(role)[<<f[i - 1], s[i]>>]
  <2>1. 1..i \in SUBSET (1..n) /\ 1..i # {} /\ Max(1..i) = i /\ (1..i) \ {i} = 1..(i - 1)
    BY <1>0, Top
  <2>2. G[1..i] = AppendBlock(G[1..(i - 1)], role, s[i])
    BY <1>5, <2>1
  <2>3. f[i] = G[1..i] /\ f[i - 1] = G[1..(i - 1)] /\ s[i] \in Blocks(role)
    BY <1>0
  <2> DEFINE one == f[i - 1]
             two == s[i]
  <2>4. f[i] = AppendBlock(one, role, two) /\ one \in Gathered /\ two \in Blocks(role)
    BY <1>7, <2>2, <2>3
  <2> HIDE DEF one, two, f
  <2>5. BlockStep(role)[<<one, two>>] = AppendBlock(one, role, two)
    BY <2>4 DEF BlockStep
  <2> QED
    BY <2>4, <2>5 DEF one, two
<1>8. f[n] = G[1..n]
  BY <1>0
<1> HIDE DEF f
<1>9. f[n] = Folded(BlockStep(role), start, s)
  BY <1>0, <1>6, <1>7, ChainIs
<1> QED
  BY <1>4, <1>8, <1>9
-----------------------------------------------------------------------------
\* anthropic_messages_to_responses_request: the messages, one after the other.

\* What the blocks of a message add to what is said.
LEMMA BlocksGathered ==
    ASSUME NEW role \in {"user", "assistant"}, NEW start \in Gathered, NEW s \in Seq(Blocks(role))
    PROVE  /\ Folded(BlockStep(role), start, s) \in Gathered
           /\ SaidSoFar(Folded(BlockStep(role), start, s), role) = SaidSoFar(start, role) \o Lines(role, s)
<1> DEFINE A == Blocks(role)
           step == BlockStep(role)
           T == {r \in Seq(A) :
                    SaidSoFar(Folded(step, start, r), role) = SaidSoFar(start, role) \o Lines(role, r)}
<1>0. Steps(step, Gathered, A) /\ A \subseteq Parts /\ role \in Roles
  BY BlocksSteps, BlocksParts DEF Roles
<1>01. \A x \in Gathered, p \in A : step[<<x, p>>] = AppendBlock(x, role, p)
  BY DEF BlockStep
<1>02. \A p \in A : p \in Calls => role = "assistant"
  BY BlocksParts
<1>1. SaidSoFar(start, role) \in Seq(Words)
  <2>1. start.items \in Seq(Items) /\ start.texts \in Seq(Nat)
    BY DEF Gathered
  <2>2. ItemsSaid(start.items) \in Seq(Words) /\ Lines(role, Each(Text, start.texts)) \in Seq(Words)
    BY <1>0, <2>1, ItemsSaidTyped, NamedTyped, LinesTyped
  <2> QED
    BY <2>2 DEF SaidSoFar
<1> HIDE DEF A, step
<1>2. <<>> \in T
  <2>1. Folded(step, start, <<>>) = start /\ Lines(role, <<>>) = <<>>
    BY <1>0, FoldedEmpty, LinesEmpty
  <2>2. SaidSoFar(start, role) \o <<>> = SaidSoFar(start, role)
    BY <1>1
  <2>3. <<>> \in Seq(A)
    OBVIOUS
  <2> QED
    BY <2>1, <2>2, <2>3
<1>3. ASSUME NEW r \in Seq(A), NEW p \in A, r \in T PROVE Append(r, p) \in T
  <2> DEFINE x == Folded(step, start, r)
             more == Append(r, p)
  <2>1. x \in Gathered /\ Folded(step, start, more) = step[<<x, p>>]
    BY <1>0, FoldedTyped, FoldedAppend
  <2>2. step[<<x, p>>] = AppendBlock(x, role, p)
    BY <1>01, <2>1
  <2>3. SaidSoFar(AppendBlock(x, role, p), role) = Append(SaidSoFar(x, role), Line(role, p))
    BY <1>0, <1>02, <2>1, BlockAppended
  <2>4. Lines(role, more) = Append(Lines(role, r), Line(role, p))
    <3>1. r \in Seq(Parts) /\ p \in Parts
      BY <1>0
    <3> QED
      BY <1>0, <3>1, LinesAppend
  <2>5. SaidSoFar(start, role) \o Append(Lines(role, r), Line(role, p))
           = Append(SaidSoFar(start, role) \o Lines(role, r), Line(role, p))
    <3> DEFINE one == SaidSoFar(start, role)
               two == Lines(role, r)
               y == Line(role, p)
    <3>1. r \in Seq(Parts) /\ p \in Parts
      BY <1>0
    <3>2. one \in Seq(Words) /\ two \in Seq(Words) /\ y \in Words
      BY <1>0, <1>1, <3>1, LinesTyped, LineTyped
    <3> HIDE DEF one, two, y
    <3>3. one \o Append(two, y) = Append(one \o two, y)
      BY <3>2, AppendedBehind
    <3> QED
      BY <3>3 DEF one, two, y
  <2>6. SaidSoFar(x, role) = SaidSoFar(start, role) \o Lines(role, r)
    BY <1>3
  <2>7. SaidSoFar(Folded(step, start, more), role) = SaidSoFar(start, role) \o Lines(role, more)
    BY <2>1, <2>2, <2>3, <2>4, <2>5, <2>6
  <2>8. more \in Seq(A)
    OBVIOUS
  <2> HIDE DEF x
  <2> QED
    BY <2>7, <2>8
<1> HIDE DEF T
<1>4. s \in T
  <2>1. s \in Seq(A)
    BY DEF A
  <2> QED
    BY <1>2, <1>3, <2>1, SequencesGrow
<1>5. Folded(step, start, s) \in Gathered
  BY <1>0, FoldedTyped DEF A
<1> QED
  BY <1>4, <1>5 DEF T, step

\* Between two messages no texts are left over.
Emptied == {s \in Gathered : s.texts = <<>>}

\* A message that is no system message.
LEMMA TurnedTyped ==
    ASSUME NEW m \in Turned
    PROVE  m.role \in {"user", "assistant"} /\ m.blocks \in Seq(Blocks(m.role))
<1>1. CASE m \in UserMessages
  BY <1>1 DEF UserMessages, Blocks
<1>2. CASE m \in AssistantMessages
  BY <1>2 DEF AssistantMessages, Blocks
<1> QED
  BY <1>1, <1>2 DEF Turned

\* With no texts gathered, what has been said is in the items.
LEMMA EmptiedSays ==
    ASSUME NEW s \in Emptied, NEW role \in Roles
    PROVE  SaidSoFar(s, role) = ItemsSaid(s.items) /\ s.items \in Seq(Items)
<1>1. s.items \in Seq(Items) /\ s.texts = <<>>
  BY DEF Emptied, Gathered
<1>2. Lines(role, Each(Text, s.texts)) = <<>>
  BY <1>1, NamedEmpty, LinesEmpty
<1>3. ItemsSaid(s.items) \o <<>> = ItemsSaid(s.items)
  BY <1>1, ItemsSaidTyped
<1> QED
  BY <1>1, <1>2, <1>3 DEF SaidSoFar

\* A whole message.
LEMMA MessageAppended ==
    ASSUME NEW s \in Emptied, NEW m \in Turned
    PROVE  /\ AppendMessage(s, m) \in Emptied
           /\ ItemsSaid(AppendMessage(s, m).items) = ItemsSaid(s.items) \o Lines(m.role, m.blocks)
<1>1. m.role \in {"user", "assistant"} /\ m.blocks \in Seq(Blocks(m.role)) /\ m.role \in Roles
  BY TurnedTyped DEF Roles
<1>2. s \in Gathered /\ SaidSoFar(s, m.role) = ItemsSaid(s.items)
  BY <1>1, EmptiedSays DEF Emptied
<1> DEFINE r == Folded(BlockStep(m.role), s, m.blocks)
<1>3. AppendMessage(s, m) = FlushText(r, m.role)
  <2>1. FoldLeft(LAMBDA x, p : AppendBlock(x, m.role, p), s, m.blocks) = r
    BY <1>1, <1>2, BlocksFolded
  <2> QED
    BY <2>1 DEF AppendMessage
<1>4. r \in Gathered /\ SaidSoFar(r, m.role) = SaidSoFar(s, m.role) \o Lines(m.role, m.blocks)
  BY <1>1, <1>2, BlocksGathered
<1>5. /\ FlushText(r, m.role) \in Gathered /\ FlushText(r, m.role).texts = <<>>
      /\ ItemsSaid(FlushText(r, m.role).items) = SaidSoFar(r, m.role)
  BY <1>1, <1>4, Flushed
<1> HIDE DEF r
<1> QED
  BY <1>2, <1>3, <1>4, <1>5 DEF Emptied

\* anthropic_messages_to_responses_request goes through the messages.
MessageStep == [x \in Emptied \X Turned |-> AppendMessage(x[1], x[2])]

MessagesFolding(F, start, s) ==
    F = [p \in SUBSET DOMAIN s |-> IF p = {} THEN start ELSE AppendMessage(F[p \ {Max(p)}], s[Max(p)])]

\* Appending a message is a step from state to state.
LEMMA MessagesSteps ==
    Steps(MessageStep, Emptied, Turned)
  BY MessageAppended DEF Steps, MessageStep

\* The fold over the messages is a fold by that step.
LEMMA MessagesFolded ==
    ASSUME NEW start \in Emptied, NEW s \in Seq(Turned)
    PROVE  FoldLeft(AppendMessage, start, s) = Folded(MessageStep, start, s)
<1> DEFINE n == Len(s)
<1>0. n \in Nat /\ DOMAIN s = 1..n /\ Steps(MessageStep, Emptied, Turned)
  BY MessagesSteps
<1>1. PICK F \in [SUBSET (1..n) -> Emptied] : FoldsUp(F, MessageStep, start, s)
  BY <1>0, FoldsUpExists
<1>2. MessagesFolding(F, start, s)
  <2>1. ASSUME NEW p \in SUBSET DOMAIN s
        PROVE  F[p] = IF p = {} THEN start ELSE AppendMessage(F[p \ {Max(p)}], s[Max(p)])
    <3>1. F[p] = IF p = {} THEN start ELSE MessageStep[<<F[p \ {Max(p)}], s[Max(p)]>>]
      BY <1>0, <1>1 DEF FoldsUp
    <3>2. CASE p # {}
      <4>1. Max(p) \in 1..n
        BY <1>0, <3>2, Greatest
      <4>2. F[p \ {Max(p)}] \in Emptied /\ s[Max(p)] \in Turned
        BY <1>0, <4>1
      <4> DEFINE one == F[p \ {Max(p)}]
                 two == s[Max(p)]
      <4> HIDE DEF one, two
      <4>3. MessageStep[<<one, two>>] = AppendMessage(one, two)
        BY <4>2 DEF MessageStep, one, two
      <4> QED
        BY <3>1, <3>2, <4>3 DEF one, two
    <3> QED
      BY <3>1, <3>2
  <2> QED
    BY <1>0, <2>1 DEF MessagesFolding
<1> DEFINE G == CHOOSE G : MessagesFolding(G, start, s)
           f == [i \in 0..n |-> G[1..i]]
<1>3. MessagesFolding(G, start, s)
  BY <1>2
<1>4. FoldLeft(AppendMessage, start, s) = G[1..n]
  BY <1>0 DEF FoldLeft, MapThenFoldSet, MessagesFolding
<1> HIDE DEF G
<1>5. ASSUME NEW p \in SUBSET (1..n)
      PROVE  G[p] = IF p = {} THEN start ELSE AppendMessage(G[p \ {Max(p)}], s[Max(p)])
  BY <1>0, <1>3 DEF MessagesFolding
<1>6. f[0] = start
  <2>1. {} \in SUBSET (1..n) /\ 1..0 = {} /\ 0 \in 0..n
    BY <1>0
  <2>2. G[{}] = start
    BY <1>5, <2>1
  <2> QED
    BY <2>1, <2>2
<1>7. ASSUME NEW i \in 1..n, f[i - 1] \in Emptied
      PROVE  f[i] = MessageStep[<<f[i - 1], s[i]>>]
  <2>1. 1..i \in SUBSET (1..n) /\ 1..i # {} /\ Max(1..i) = i /\ (1..i) \ {i} = 1..(i - 1)
    BY <1>0, Top
  <2>2. G[1..i] = AppendMessage(G[1..(i - 1)], s[i])
    BY <1>5, <2>1
  <2>3. f[i] = G[1..i] /\ f[i - 1] = G[1..(i - 1)] /\ s[i] \in Turned
    BY <1>0
  <2> DEFINE one == f[i - 1]
             two == s[i]
  <2>4. f[i] = AppendMessage(one, two) /\ one \in Emptied /\ two \in Turned
    BY <1>7, <2>2, <2>3
  <2> HIDE DEF one, two, f
  <2>5. MessageStep[<<one, two>>] = AppendMessage(one, two)
    BY <2>4 DEF MessageStep
  <2> QED
    BY <2>4, <2>5 DEF one, two
<1>8. f[n] = G[1..n]
  BY <1>0
<1> HIDE DEF f
<1>9. f[n] = Folded(MessageStep, start, s)
  BY <1>0, <1>6, <1>7, ChainIs
<1> QED
  BY <1>4, <1>8, <1>9

\* The items gathered from messages say what the messages say.
LEMMA MessagesGathered ==
    ASSUME NEW start \in Emptied, ItemsSaid(start.items) = <<>>, NEW messages \in Seq(Turned)
    PROVE  /\ FoldLeft(AppendMessage, start, messages).items \in Seq(Items)
           /\ ItemsSaid(FoldLeft(AppendMessage, start, messages).items) = BlocksSaid(messages)
<1> DEFINE T == {ms \in Seq(Turned) : ItemsSaid(Folded(MessageStep, start, ms).items) = BlocksSaid(ms)}
<1>1. <<>> \in T
  BY MessagesSteps, FoldedEmpty, BlocksSaidEmpty
<1>2. ASSUME NEW ms \in Seq(Turned), NEW m \in Turned, ms \in T PROVE Append(ms, m) \in T
  <2> DEFINE x == Folded(MessageStep, start, ms)
             more == Append(ms, m)
  <2>1. x \in Emptied /\ Folded(MessageStep, start, more) = MessageStep[<<x, m>>]
    BY MessagesSteps, FoldedTyped, FoldedAppend
  <2>2. MessageStep[<<x, m>>] = AppendMessage(x, m)
    BY <2>1 DEF MessageStep
  <2>3. ItemsSaid(AppendMessage(x, m).items) = ItemsSaid(x.items) \o Lines(m.role, m.blocks)
    BY <2>1, MessageAppended
  <2>4. BlocksSaid(more) = BlocksSaid(ms) \o Lines(m.role, m.blocks)
    <3>1. ms \in Seq(BlockMessages) /\ m \in BlockMessages
      BY DEF BlockMessages
    <3> QED
      BY <3>1, BlocksSaidAppend
  <2>5. ItemsSaid(x.items) = BlocksSaid(ms)
    BY <1>2
  <2>6. more \in Seq(Turned)
    OBVIOUS
  <2> HIDE DEF x, more
  <2>7. more \in T
    BY <2>1, <2>2, <2>3, <2>4, <2>5, <2>6
  <2> QED
    BY <2>7 DEF more
<1> HIDE DEF T
<1>3. messages \in T
  BY <1>1, <1>2, SequencesGrow
<1>4. Folded(MessageStep, start, messages) \in Emptied
  BY MessagesSteps, FoldedTyped
<1> QED
  BY <1>3, <1>4, MessagesFolded DEF T, Emptied, Gathered
-----------------------------------------------------------------------------
(* System messages, apart from the others.                                  *)

SystemWords == {l \in Words : l.role = "system"}

SystemOf(lines) == Those(lines, LAMBDA l : l.role = "system")
OthersOf(lines) == Those(lines, LAMBDA l : l.role # "system")

\* The system's lines, kept.
LEMMA SystemOfKept ==
    ASSUME NEW lines \in Seq(Words)
    PROVE  SystemOf(lines) = Kept(Words, SystemWords, lines)
<1>1. \A i \in DOMAIN lines : lines[i] \in Words
  OBVIOUS
<1>2. [i \in DOMAIN lines |-> IF lines[i].role = "system" THEN <<lines[i]>> ELSE <<>>]
         = Mapped(Picks(Words, SystemWords), lines)
  BY <1>1 DEF Mapped, Picks, SystemWords
<1> QED
  BY <1>2 DEF SystemOf, Those, Kept, Joint

\* The others' lines, kept.
LEMMA OthersOfKept ==
    ASSUME NEW lines \in Seq(Words)
    PROVE  OthersOf(lines) = Kept(Words, Words \ SystemWords, lines)
<1>1. \A i \in DOMAIN lines : lines[i] \in Words
  OBVIOUS
<1>2. [i \in DOMAIN lines |-> IF lines[i].role # "system" THEN <<lines[i]>> ELSE <<>>]
         = Mapped(Picks(Words, Words \ SystemWords), lines)
  BY <1>1 DEF Mapped, Picks, SystemWords
<1> QED
  BY <1>2 DEF OthersOf, Those, Kept, Joint

\* The lines of one role are the system's or nobody's.
LEMMA LinesSystem ==
    ASSUME NEW parts \in Seq(Texts)
    PROVE  Lines("system", parts) \in Seq(SystemWords)
<1> DEFINE T == {ps \in Seq(Texts) : Lines("system", ps) \in Seq(SystemWords)}
<1>0. \A p \in Texts : p \in Parts
  BY DEF Parts
<1>1. <<>> \in T
  <2>1. <<>> \in Seq(Texts) /\ <<>> \in Seq(SystemWords) /\ Lines("system", <<>>) = <<>>
    BY LinesEmpty
  <2> QED
    BY <2>1
<1>2. ASSUME NEW ps \in Seq(Texts), NEW p \in Texts, ps \in T PROVE Append(ps, p) \in T
  <2>1. ps \in Seq(Parts) /\ p \in Parts /\ "system" \in Roles
    BY <1>0 DEF Roles
  <2>2. Lines("system", Append(ps, p)) = Append(Lines("system", ps), Line("system", p))
    BY <2>1, LinesAppend
  <2>3. Line("system", p) \in SystemWords
    <3>1. Line("system", p) \in Words
      BY <2>1, LineTyped
    <3>2. p.kind # "result"
      BY DEF Texts
    <3> QED
      BY <3>1, <3>2 DEF SystemWords, Line
  <2>4. Append(ps, p) \in Seq(Texts)
    OBVIOUS
  <2>5. Append(Lines("system", ps), Line("system", p)) \in Seq(SystemWords)
    BY <1>2, <2>3
  <2> QED
    BY <2>2, <2>4, <2>5
<1> HIDE DEF T
<1>3. parts \in T
  BY <1>1, <1>2, SequencesGrow
<1> QED
  BY <1>3 DEF T

\* Whoever is not the system says lines that are not the system's.
LEMMA LinesOthers ==
    ASSUME NEW role \in {"user", "assistant", "tool"}, NEW parts \in Seq(Parts)
    PROVE  Lines(role, parts) \in Seq(Words \ SystemWords)
<1> DEFINE T == {ps \in Seq(Parts) : Lines(role, ps) \in Seq(Words \ SystemWords)}
<1>1. <<>> \in T
  <2>1. <<>> \in Seq(Parts) /\ <<>> \in Seq(Words \ SystemWords) /\ Lines(role, <<>>) = <<>>
    BY LinesEmpty
  <2> QED
    BY <2>1
<1>2. ASSUME NEW ps \in Seq(Parts), NEW p \in Parts, ps \in T PROVE Append(ps, p) \in T
  <2>1. role \in Roles
    BY DEF Roles
  <2>2. Lines(role, Append(ps, p)) = Append(Lines(role, ps), Line(role, p))
    BY <2>1, LinesAppend
  <2>3. Line(role, p) \in Words \ SystemWords
    <3>1. Line(role, p) \in Words
      BY <2>1, LineTyped
    <3>2. Line(role, p).role # "system"
      BY DEF Line
    <3> QED
      BY <3>1, <3>2 DEF SystemWords
  <2>4. Append(ps, p) \in Seq(Parts)
    OBVIOUS
  <2>5. Append(Lines(role, ps), Line(role, p)) \in Seq(Words \ SystemWords)
    BY <1>2, <2>3
  <2> QED
    BY <2>2, <2>4, <2>5
<1> HIDE DEF T
<1>3. parts \in T
  BY <1>1, <1>2, SequencesGrow
<1> QED
  BY <1>3 DEF T

\* Lines none of which is the system's.
LEMMA SystemLinesSplit ==
    ASSUME NEW lines \in Seq(Words \ SystemWords)
    PROVE  SystemOf(lines) = <<>> /\ OthersOf(lines) = lines
<1>1. lines \in Seq(Words) /\ lines \in Seq(Words \intersect (Words \ SystemWords))
  <2>1. Words \ SystemWords \subseteq Words /\ Words \intersect (Words \ SystemWords) = Words \ SystemWords
    OBVIOUS
  <2> QED
    BY <2>1
<1> QED
  BY <1>1, SystemOfKept, OthersOfKept, KeptAll, KeptNone

\* Splitting off the system's lines distributes over concatenation.
LEMMA SplitConcat ==
    ASSUME NEW lines \in Seq(Words), NEW others \in Seq(Words)
    PROVE  /\ SystemOf(lines \o others) = SystemOf(lines) \o SystemOf(others)
           /\ OthersOf(lines \o others) = OthersOf(lines) \o OthersOf(others)
<1> DEFINE both == lines \o others
<1>1. both \in Seq(Words)
  OBVIOUS
<1>2. SystemOf(both) = Kept(Words, SystemWords, both) /\ OthersOf(both) = Kept(Words, Words \ SystemWords, both)
  BY <1>1, SystemOfKept, OthersOfKept
<1>3. /\ Kept(Words, SystemWords, lines \o others)
            = Kept(Words, SystemWords, lines) \o Kept(Words, SystemWords, others)
      /\ Kept(Words, Words \ SystemWords, lines \o others)
            = Kept(Words, Words \ SystemWords, lines) \o Kept(Words, Words \ SystemWords, others)
  BY KeptConcat
<1> QED
  BY <1>2, <1>3, SystemOfKept, OthersOfKept

\* Lines all of which are the system's.
LEMMA SystemLinesKept ==
    ASSUME NEW lines \in Seq(SystemWords)
    PROVE  SystemOf(lines) = lines /\ OthersOf(lines) = <<>>
<1>1. lines \in Seq(Words) /\ lines \in Seq(Words \intersect SystemWords) /\ lines \in Seq(Words \ (Words \ SystemWords))
  <2>1. SystemWords \subseteq Words
    BY DEF SystemWords
  <2>2. Words \intersect SystemWords = SystemWords /\ Words \ (Words \ SystemWords) = SystemWords
    BY <2>1
  <2> QED
    BY <2>1, <2>2
<1> QED
  BY <1>1, SystemOfKept, OthersOfKept, KeptAll, KeptNone

\* Either half is lines.
LEMMA SplitTyped ==
    ASSUME NEW lines \in Seq(Words)
    PROVE  SystemOf(lines) \in Seq(Words) /\ OthersOf(lines) \in Seq(Words)
<1> DEFINE one == Kept(Words, SystemWords, lines)
           two == Kept(Words, Words \ SystemWords, lines)
<1>1. one \in Seq(Words \intersect SystemWords) /\ two \in Seq(Words \intersect (Words \ SystemWords))
  BY KeptTyped
<1>2. SystemOf(lines) = one /\ OthersOf(lines) = two
  BY SystemOfKept, OthersOfKept
<1> HIDE DEF one, two
<1>3. one \in Seq(Words) /\ two \in Seq(Words)
  BY <1>1
<1> QED
  BY <1>2, <1>3
-----------------------------------------------------------------------------
\* normalize_message_level_system
SystemOnes(messages) == Those(messages, LAMBDA m : m.role = "system")
TurnedOnes(messages) == Those(messages, LAMBDA m : m.role # "system")

\* The system messages and the others, kept.
LEMMA OnesKept ==
    ASSUME NEW messages \in Seq(BlockMessages)
    PROVE  /\ SystemOnes(messages) = Kept(BlockMessages, SystemMessages, messages)
           /\ TurnedOnes(messages) = Kept(BlockMessages, Turned, messages)
<1>1. \A i \in DOMAIN messages : messages[i] \in BlockMessages
  OBVIOUS
<1>2. \A m \in BlockMessages : (m \in SystemMessages <=> m.role = "system") /\ (m \in Turned <=> m.role # "system")
  BY BlocksTyped
<1>3. [i \in DOMAIN messages |-> IF messages[i].role = "system" THEN <<messages[i]>> ELSE <<>>]
         = Mapped(Picks(BlockMessages, SystemMessages), messages)
  BY <1>1, <1>2 DEF Mapped, Picks
<1>4. [i \in DOMAIN messages |-> IF messages[i].role # "system" THEN <<messages[i]>> ELSE <<>>]
         = Mapped(Picks(BlockMessages, Turned), messages)
  BY <1>1, <1>2 DEF Mapped, Picks
<1> QED
  BY <1>3, <1>4 DEF SystemOnes, TurnedOnes, Those, Kept, Joint

IdsOf(m)  == Each(LAMBDA p : p.id, m.blocks)
SystemIds == [m \in SystemMessages |-> IdsOf(m)]
IdOf      == [p \in Texts |-> p.id]

\* The texts of a system message are named by their numbers.
LEMMA IdsNamed ==
    ASSUME NEW m \in SystemMessages
    PROVE  IdsOf(m) \in Seq(Nat) /\ Each(Text, IdsOf(m)) = m.blocks /\ m.blocks \in Seq(Texts) /\ m.role = "system"
<1>0. m.blocks \in Seq(Texts) /\ m.role = "system"
  BY DEF SystemMessages
<1> DEFINE b == m.blocks
<1>1. \A i \in DOMAIN b : b[i] \in Texts
  BY <1>0
<1>2. IdsOf(m) = Mapped(IdOf, b)
  BY <1>1 DEF IdsOf, Each, Mapped, IdOf
<1>3. IdOf \in [Texts -> Nat]
  BY DEF IdOf, Texts
<1>4. IdsOf(m) \in Seq(Nat)
  BY <1>0, <1>2, <1>3, MappedTyped
<1>5. DOMAIN IdsOf(m) = DOMAIN b /\ \A i \in DOMAIN b : IdsOf(m)[i] = b[i].id
  BY DEF IdsOf, Each
<1>6. \A p \in Texts : Text(p.id) = p
  BY DEF Texts, Text
<1>7. Each(Text, IdsOf(m)) = [i \in DOMAIN b |-> b[i]]
  BY <1>1, <1>5, <1>6 DEF Each
<1>8. [i \in DOMAIN b |-> b[i]] = b
  BY <1>0
<1> QED
  BY <1>0, <1>4, <1>7, <1>8

\* Numbers one after the other name texts one after the other.
LEMMA NamedConcat ==
    ASSUME NEW ts \in Seq(Nat), NEW us \in Seq(Nat)
    PROVE  Each(Text, ts \o us) = Each(Text, ts) \o Each(Text, us)
<1> DEFINE g == TextsNamed
           both == ts \o us
<1>0. Maps(g, Nat, Texts) /\ both \in Seq(Nat)
  BY TextsNamedTyped DEF Maps
<1>1. Each(Text, both) = Mapped(g, both)
  BY <1>0, NamedMapped
<1>2. Mapped(g, ts \o us) = Mapped(g, ts) \o Mapped(g, us)
  BY <1>0, MappedConcat
<1> QED
  BY <1>1, <1>2, NamedMapped

\* The numbers of the texts of a system message, as a function.
LEMMA SystemIdsTyped == SystemIds \in [SystemMessages -> Seq(Nat)]
  BY IdsNamed DEF SystemIds

Instructions(messages) == FlattenSeq(Each(LAMBDA m : Each(LAMBDA p : p.id, m.blocks), SystemOnes(messages)))

\* The instructions are that function along the system messages, joined.
LEMMA InstructionsJoint ==
    ASSUME NEW messages \in Seq(BlockMessages)
    PROVE  /\ Instructions(messages) = Joint(SystemIds, Kept(BlockMessages, SystemMessages, messages))
           /\ Kept(BlockMessages, SystemMessages, messages) \in Seq(SystemMessages)
           /\ Instructions(messages) \in Seq(Nat)
<1> DEFINE s == Kept(BlockMessages, SystemMessages, messages)
<1>1. s \in Seq(SystemMessages)
  <2>1. s \in Seq(BlockMessages \intersect SystemMessages)
    BY KeptTyped
  <2> QED
    BY <2>1
<1>2. SystemOnes(messages) = s
  BY OnesKept
<1> HIDE DEF s
<1>3. \A i \in DOMAIN s : s[i] \in SystemMessages
  BY <1>1
<1>4. Each(LAMBDA m : Each(LAMBDA p : p.id, m.blocks), s) = Mapped(SystemIds, s)
  BY <1>3 DEF Each, Mapped, SystemIds, IdsOf
<1>5. Instructions(messages) = Joint(SystemIds, s)
  BY <1>2, <1>4 DEF Instructions, Joint
<1>6. Joint(SystemIds, s) \in Seq(Nat)
  BY <1>1, SystemIdsTyped, JointTyped
<1> QED
  BY <1>1, <1>5, <1>6 DEF s
-----------------------------------------------------------------------------
(* What Messages becomes as a body for Responses.                           *)

\* What a further message adds to the words of the system and of the others.
LEMMA MessageSplit ==
    ASSUME NEW m \in BlockMessages
    PROVE  /\ m.role = "system" => /\ SystemOf(Lines(m.role, m.blocks)) = Lines("system", m.blocks)
                                   /\ OthersOf(Lines(m.role, m.blocks)) = <<>>
           /\ m.role # "system" => /\ SystemOf(Lines(m.role, m.blocks)) = <<>>
                                   /\ OthersOf(Lines(m.role, m.blocks)) = Lines(m.role, m.blocks)
<1>0. m.role \in Roles /\ m.blocks \in Seq(Parts)
  BY BlocksTyped
<1>1. CASE m.role = "system"
  <2>1. m.blocks \in Seq(Texts)
    BY <1>1, BlocksTyped DEF SystemMessages
  <2>2. Lines("system", m.blocks) \in Seq(SystemWords)
    BY <2>1, LinesSystem
  <2> QED
    BY <1>1, <2>2, SystemLinesKept
<1>2. CASE m.role # "system"
  <2>1. m.role \in {"user", "assistant", "tool"}
    BY <1>0, <1>2 DEF Roles
  <2>2. Lines(m.role, m.blocks) \in Seq(Words \ SystemWords)
    BY <1>0, <2>1, LinesOthers
  <2> QED
    BY <1>2, <2>2, SystemLinesSplit
<1> QED
  BY <1>1, <1>2

\* One more message splits into its own halves.
LEMMA SplitAppend ==
    ASSUME NEW ms \in Seq(BlockMessages), NEW m \in BlockMessages
    PROVE  /\ SystemOf(BlocksSaid(Append(ms, m))) = SystemOf(BlocksSaid(ms)) \o SystemOf(Lines(m.role, m.blocks))
           /\ OthersOf(BlocksSaid(Append(ms, m))) = OthersOf(BlocksSaid(ms)) \o OthersOf(Lines(m.role, m.blocks))
<1> DEFINE one == BlocksSaid(ms)
           two == Lines(m.role, m.blocks)
<1>1. one \in Seq(Words) /\ two \in Seq(Words)
  BY BlocksSaidTyped, BlocksTyped, LinesTyped
<1>2. BlocksSaid(Append(ms, m)) = one \o two
  BY BlocksSaidAppend
<1> HIDE DEF one, two
<1>3. SystemOf(one \o two) = SystemOf(one) \o SystemOf(two) /\ OthersOf(one \o two) = OthersOf(one) \o OthersOf(two)
  BY <1>1, SplitConcat
<1> QED
  BY <1>2, <1>3 DEF one, two

\* Nothing splits into nothing.
LEMMA SplitEmpty == SystemOf(<<>>) = <<>> /\ OthersOf(<<>>) = <<>>
<1>1. <<>> \in Seq(Words)
  OBVIOUS
<1> QED
  BY <1>1, SystemOfKept, OthersOfKept, KeptEmpty

\* The instructions are what the system messages say.
LEMMA InstructionsSay ==
    ASSUME NEW messages \in Seq(BlockMessages)
    PROVE  Lines("system", Each(Text, Instructions(messages))) = SystemOf(BlocksSaid(messages))
<1> DEFINE S == SystemMessages
           K(ms) == Kept(BlockMessages, S, ms)
           J(ms) == Joint(SystemIds, K(ms))
           T == {ms \in Seq(BlockMessages) :
                    Lines("system", Each(Text, J(ms))) = SystemOf(BlocksSaid(ms))}
<1>0. \A ms \in Seq(BlockMessages) : K(ms) \in Seq(S) /\ J(ms) \in Seq(Nat)
  BY InstructionsJoint
<1>1. <<>> \in T
  <2>1. K(<<>>) = <<>> /\ J(<<>>) = <<>>
    BY KeptEmpty, JointEmpty
  <2>2. Lines("system", Each(Text, <<>>)) = <<>> /\ SystemOf(BlocksSaid(<<>>)) = <<>>
    BY NamedEmpty, LinesEmpty, BlocksSaidEmpty, SplitEmpty
  <2>3. <<>> \in Seq(BlockMessages)
    OBVIOUS
  <2> HIDE DEF K, J
  <2> QED
    BY <2>1, <2>2, <2>3
<1>2. ASSUME NEW ms \in Seq(BlockMessages), NEW m \in BlockMessages, ms \in T PROVE Append(ms, m) \in T
  <2> DEFINE more == Append(ms, m)
             words == SystemOf(BlocksSaid(ms))
  <2>0. more \in Seq(BlockMessages) /\ (m \in S <=> m.role = "system")
    BY BlocksTyped
  <2>1. K(more) = IF m \in S THEN Append(K(ms), m) ELSE K(ms)
    BY KeptAppend
  <2>2. SystemOf(BlocksSaid(more)) = words \o SystemOf(Lines(m.role, m.blocks))
    BY SplitAppend
  <2>3. K(ms) \in Seq(S) /\ J(ms) \in Seq(Nat) /\ Lines("system", Each(Text, J(ms))) = words
    BY <1>0, <1>2
  <2>4. CASE m.role = "system"
    <3>1. IdsOf(m) \in Seq(Nat) /\ Each(Text, IdsOf(m)) = m.blocks /\ m.blocks \in Seq(Texts)
      BY <2>0, <2>4, IdsNamed
    <3>2. J(more) = J(ms) \o IdsOf(m)
      <4>1. Joint(SystemIds, Append(K(ms), m)) = Joint(SystemIds, K(ms)) \o SystemIds[m]
        BY <2>0, <2>3, <2>4, SystemIdsTyped, JointAppend
      <4>2. SystemIds[m] = IdsOf(m)
        BY <2>0, <2>4 DEF SystemIds
      <4> QED
        BY <2>0, <2>1, <2>4, <4>1, <4>2
    <3> HIDE DEF K, J
    <3>3. Each(Text, J(ms) \o IdsOf(m)) = Each(Text, J(ms)) \o m.blocks
      BY <2>3, <3>1, NamedConcat
    <3> DEFINE one == Each(Text, J(ms))
               two == m.blocks
    <3>4. one \in Seq(Parts) /\ two \in Seq(Parts) /\ "system" \in Roles
      BY <2>3, <3>1, NamedTyped, BlocksTyped DEF Roles
    <3>5. Lines("system", one \o two) = Lines("system", one) \o Lines("system", two)
      <4> HIDE DEF one, two
      <4> QED
        BY <3>4, LinesConcat
    <3>6. SystemOf(Lines(m.role, m.blocks)) = Lines("system", two)
      BY <2>4, MessageSplit
    <3>7. Lines("system", Each(Text, J(more))) = SystemOf(BlocksSaid(more))
      BY <2>2, <2>3, <3>2, <3>3, <3>5, <3>6
    <3> QED
      BY <2>0, <3>7
  <2>5. CASE m.role # "system"
    <3>1. J(more) = J(ms)
      BY <2>0, <2>1, <2>5
    <3>2. SystemOf(Lines(m.role, m.blocks)) = <<>>
      BY <2>5, MessageSplit
    <3>3. words \o <<>> = words
      <4>1. words \in Seq(Words)
        BY BlocksSaidTyped, SplitTyped
      <4> HIDE DEF words
      <4> QED
        BY <4>1
    <3>4. Lines("system", Each(Text, J(more))) = SystemOf(BlocksSaid(more))
      <4> HIDE DEF K, J
      <4> QED
        BY <2>2, <2>3, <3>1, <3>2, <3>3
    <3> QED
      BY <2>0, <3>4
  <2> HIDE DEF K, J
  <2> QED
    BY <2>4, <2>5
<1> HIDE DEF T
<1>3. messages \in T
  BY <1>1, <1>2, SequencesGrow
<1>4. Instructions(messages) = J(messages)
  BY InstructionsJoint
<1> HIDE DEF K, J
<1> QED
  BY <1>3, <1>4 DEF T

\* The turns are what the others say.
LEMMA TurnsSay ==
    ASSUME NEW messages \in Seq(BlockMessages)
    PROVE  /\ TurnedOnes(messages) \in Seq(Turned)
           /\ BlocksSaid(TurnedOnes(messages)) = OthersOf(BlocksSaid(messages))
<1> DEFINE K(ms) == Kept(BlockMessages, Turned, ms)
           T == {ms \in Seq(BlockMessages) : BlocksSaid(K(ms)) = OthersOf(BlocksSaid(ms))}
<1>0. \A ms \in Seq(BlockMessages) : K(ms) \in Seq(Turned)
  <2>1. BlockMessages \intersect Turned = Turned
    BY DEF BlockMessages
  <2> QED
    BY <2>1, KeptTyped
<1>1. <<>> \in T
  <2>1. K(<<>>) = <<>>
    BY KeptEmpty
  <2>2. BlocksSaid(<<>>) = <<>> /\ OthersOf(<<>>) = <<>> /\ <<>> \in Seq(BlockMessages)
    BY BlocksSaidEmpty, SplitEmpty
  <2> HIDE DEF K
  <2> QED
    BY <2>1, <2>2
<1>2. ASSUME NEW ms \in Seq(BlockMessages), NEW m \in BlockMessages, ms \in T PROVE Append(ms, m) \in T
  <2> DEFINE more == Append(ms, m)
             words == OthersOf(BlocksSaid(ms))
  <2>0. more \in Seq(BlockMessages) /\ (m \in Turned <=> m.role # "system")
    BY BlocksTyped
  <2>1. K(more) = IF m \in Turned THEN Append(K(ms), m) ELSE K(ms)
    BY KeptAppend
  <2>2. OthersOf(BlocksSaid(more)) = words \o OthersOf(Lines(m.role, m.blocks))
    BY SplitAppend
  <2>3. K(ms) \in Seq(Turned) /\ BlocksSaid(K(ms)) = words
    BY <1>0, <1>2
  <2> HIDE DEF K
  <2>4. CASE m.role # "system"
    <3>1. K(ms) \in Seq(BlockMessages)
      BY <2>3 DEF BlockMessages
    <3>2. BlocksSaid(Append(K(ms), m)) = BlocksSaid(K(ms)) \o Lines(m.role, m.blocks)
      BY <3>1, BlocksSaidAppend
    <3>3. OthersOf(Lines(m.role, m.blocks)) = Lines(m.role, m.blocks)
      BY <2>4, MessageSplit
    <3>4. K(more) = Append(K(ms), m)
      BY <2>0, <2>1, <2>4
    <3>5. BlocksSaid(K(more)) = OthersOf(BlocksSaid(more))
      BY <2>2, <2>3, <3>2, <3>3, <3>4
    <3> QED
      BY <2>0, <3>5
  <2>5. CASE m.role = "system"
    <3>1. OthersOf(Lines(m.role, m.blocks)) = <<>>
      BY <2>5, MessageSplit
    <3>2. words \o <<>> = words
      <4>1. words \in Seq(Words)
        BY BlocksSaidTyped, SplitTyped
      <4> HIDE DEF words
      <4> QED
        BY <4>1
    <3>3. K(more) = K(ms)
      BY <2>0, <2>1, <2>5
    <3>4. BlocksSaid(K(more)) = OthersOf(BlocksSaid(more))
      BY <2>2, <2>3, <3>1, <3>2, <3>3
    <3> QED
      BY <2>0, <3>4
  <2> QED
    BY <2>4, <2>5
<1> HIDE DEF T
<1>3. messages \in T
  BY <1>1, <1>2, SequencesGrow
<1>4. TurnedOnes(messages) = K(messages)
  BY OnesKept
<1>5. K(messages) \in Seq(Turned)
  BY <1>0
<1> HIDE DEF K
<1> QED
  BY <1>3, <1>4, <1>5 DEF T

\* From Messages to Responses nothing is lost, and only what the system says
\* moves to the front.
LEMMA AnthropicKept ==
    ASSUME NEW messages \in Seq(BlockMessages)
    PROVE  /\ AnthropicToResponses(messages).instructions \in Seq(Nat)
           /\ AnthropicToResponses(messages).input \in Seq(Items)
           /\ Lines("system", Each(Text, AnthropicToResponses(messages).instructions)) = SystemOf(BlocksSaid(messages))
           /\ ItemsSaid(AnthropicToResponses(messages).input) = OthersOf(BlocksSaid(messages))
<1> DEFINE start == [items |-> <<>>, texts |-> <<>>]
           input == FoldLeft(AppendMessage, start, TurnedOnes(messages)).items
<1>1. /\ NormalizeSystem(messages).system = Instructions(messages)
      /\ NormalizeSystem(messages).messages = TurnedOnes(messages)
  BY DEF NormalizeSystem, Instructions, SystemOnes, TurnedOnes
<1>2. start \in Emptied /\ ItemsSaid(start.items) = <<>>
  <2>1. start \in Gathered /\ start.texts = <<>> /\ start.items = <<>>
    <3>1. <<>> \in Seq(Items) /\ <<>> \in Seq(Nat)
      OBVIOUS
    <3> QED
      BY <3>1 DEF Gathered
  <2> QED
    BY <2>1, ItemsSaidEmpty DEF Emptied
<1>3. /\ AnthropicToResponses(messages).instructions = Instructions(messages)
      /\ AnthropicToResponses(messages).input = input
  BY <1>1 DEF AnthropicToResponses
<1> HIDE DEF start
<1>4. input \in Seq(Items) /\ ItemsSaid(input) = BlocksSaid(TurnedOnes(messages))
  BY <1>2, TurnsSay, MessagesGathered
<1> HIDE DEF input
<1> QED
  BY <1>3, <1>4, TurnsSay, InstructionsSay, InstructionsJoint
-----------------------------------------------------------------------------
(* What chat becomes as a body for Responses.                               *)

\* What a chat client records.
UserRemarks == [role : {"user"}, texts : Seq(Nat) \ {<<>>}, calls : {<<>>}, id : Nat]
ChatRecords == Answers \union UserRemarks \union Replies

\* What a chat client records are chat messages that are not the system's.
LEMMA RecordsTyped ==
    ASSUME NEW m \in ChatRecords
    PROVE  /\ m \in ChatMessages
           /\ m.role \in {"tool", "user", "assistant"}
           /\ m.role = "user" => m.calls = <<>>
  BY DEF ChatRecords, ChatMessages, UserRemarks, Remarks, Answers, Replies

\* What a chat client records are chat messages.
LEMMA RecordsSubset == ChatRecords \subseteq ChatMessages
  BY RecordsTyped

\* Calls become items of their own.
CallItemBy    == [c \in Calls |-> CallItem(c.id, c.tool)]
ItemsCalled(calls) == Each(LAMBDA c : CallItem(c.id, c.tool), calls)

\* The items of calls say the calls.
LEMMA CalledItems ==
    ASSUME NEW calls \in Seq(Calls)
    PROVE  ItemsCalled(calls) \in Seq(Items) /\ ItemsSaid(ItemsCalled(calls)) = Lines("assistant", calls)
<1> DEFINE M(cs) == Mapped(CallItemBy, cs)
           T == {cs \in Seq(Calls) : ItemsSaid(M(cs)) = Lines("assistant", cs)}
<1>0. CallItemBy \in [Calls -> Items]
  <2>1. ASSUME NEW c \in Calls PROVE CallItem(c.id, c.tool) \in Items
    <3>1. c.id \in Nat /\ c.tool \in AnyTools
      BY DEF Calls
    <3> QED
      BY <3>1, ItemLinesOf
  <2> QED
    BY <2>1 DEF CallItemBy
<1>1. <<>> \in T
  <2>1. M(<<>>) = <<>> /\ <<>> \in Seq(Calls)
    BY MappedEmpty
  <2> HIDE DEF M
  <2> QED
    BY <2>1, ItemsSaidEmpty, LinesEmpty
<1>2. ASSUME NEW cs \in Seq(Calls), NEW c \in Calls, cs \in T PROVE Append(cs, c) \in T
  <2> DEFINE more == Append(cs, c)
             x == CallItem(c.id, c.tool)
  <2>1. M(more) = Append(M(cs), CallItemBy[c]) /\ M(cs) \in Seq(Items)
    BY <1>0, MappedAppend, MappedTyped
  <2>2. c.id \in Nat /\ c.tool \in AnyTools /\ c = Call(c.id, c.tool) /\ CallItemBy[c] = x
    BY DEF Calls, Call, CallItemBy
  <2>3. x \in Items /\ ItemLines(x) = Lines("assistant", <<c>>)
    BY <2>2, ItemLinesOf
  <2>4. c \in Parts /\ "assistant" \in Roles /\ cs \in Seq(Parts)
    BY DEF Parts, Roles
  <2>5. Lines("assistant", <<c>>) = <<Line("assistant", c)>>
    BY <2>4, OneLine
  <2>6. Lines("assistant", more) = Append(Lines("assistant", cs), Line("assistant", c))
    BY <2>4, LinesAppend
  <2>7. Append(Lines("assistant", cs), Line("assistant", c)) = Lines("assistant", cs) \o <<Line("assistant", c)>>
    <3> DEFINE one == Lines("assistant", cs)
               y == Line("assistant", c)
    <3>1. one \in Seq(Words) /\ y \in Words
      BY <2>4, LinesTyped, LineTyped
    <3> HIDE DEF one, y
    <3>2. Append(one, y) = one \o <<y>>
      BY <3>1
    <3> QED
      BY <3>2 DEF one, y
  <2> HIDE DEF x, M
  <2>8. ItemsSaid(Append(M(cs), x)) = ItemsSaid(M(cs)) \o ItemLines(x)
    BY <2>1, <2>3, ItemsSaidAppend
  <2>9. ItemsSaid(M(more)) = Lines("assistant", more)
    BY <1>2, <2>1, <2>2, <2>3, <2>5, <2>6, <2>7, <2>8
  <2>10. more \in Seq(Calls)
    OBVIOUS
  <2> QED
    BY <2>9, <2>10
<1> HIDE DEF T
<1>3. calls \in T
  BY <1>1, <1>2, SequencesGrow
<1>4. ItemsCalled(calls) = M(calls)
  <2>1. \A i \in DOMAIN calls : calls[i] \in Calls
    OBVIOUS
  <2> QED
    BY <2>1 DEF ItemsCalled, Each, Mapped, CallItemBy
<1>5. M(calls) \in Seq(Items)
  BY <1>0, MappedTyped
<1> HIDE DEF M
<1> QED
  BY <1>3, <1>4, <1>5 DEF T

\* The items of one chat message.
ItemsOfMessage(m) ==
    IF m.role = "tool" THEN <<OutputItem(m.id)>>
    ELSE (IF m.texts = <<>> THEN <<>> ELSE <<Message(m.role, m.texts)>>) \o ItemsCalled(m.calls)

\* An item alone says its own lines.
LEMMA OneItem ==
    ASSUME NEW x \in Items
    PROVE  <<x>> \in Seq(Items) /\ ItemsSaid(<<x>>) = ItemLines(x)
<1>1. <<>> \in Seq(Items) /\ Append(<<>>, x) = <<x>> /\ <<x>> \in Seq(Items)
  OBVIOUS
<1>2. ItemsSaid(Append(<<>>, x)) = ItemsSaid(<<>>) \o ItemLines(x)
  BY <1>1, ItemsSaidAppend
<1>3. ItemLines(x) \in Seq(Words)
  BY ItemWordsTyped DEF ItemWords
<1>4. <<>> \o ItemLines(x) = ItemLines(x)
  BY <1>3
<1> QED
  BY <1>1, <1>2, <1>4, ItemsSaidEmpty

\* The items made of a chat message say what the message says.
LEMMA MessageItemsSay ==
    ASSUME NEW m \in ChatRecords
    PROVE  ItemsOfMessage(m) \in Seq(Items) /\ ItemsSaid(ItemsOfMessage(m)) = ChatLines(m)
<1>0. m \in ChatMessages /\ m.role \in {"tool", "user", "assistant"} /\ (m.role = "user" => m.calls = <<>>)
  BY RecordsTyped
<1>1. CASE m.role = "tool"
  <2>1. ChatLines(m) = Lines("tool", <<Result(m.id)>>) /\ m.id \in Nat
    BY <1>0, <1>1, ChatLinesOf
  <2>2. OutputItem(m.id) \in Items /\ ItemLines(OutputItem(m.id)) = Lines("tool", <<Result(m.id)>>)
    BY <2>1, ItemLinesOf
  <2>3. ItemsOfMessage(m) = <<OutputItem(m.id)>>
    BY <1>1 DEF ItemsOfMessage
  <2> QED
    BY <2>1, <2>2, <2>3, OneItem
<1>2. CASE m.role # "tool"
  <2> DEFINE one == IF m.texts = <<>> THEN <<>> ELSE <<Message(m.role, m.texts)>>
             two == ItemsCalled(m.calls)
  <2>1. /\ ChatLines(m) = Lines(m.role, Each(Text, m.texts) \o m.calls) /\ m.role \in Roles
        /\ m.texts \in Seq(Nat) /\ m.calls \in Seq(Calls) /\ m.role \in {"user", "assistant"}
    BY <1>0, <1>2, ChatLinesOf
  <2>2. ItemsOfMessage(m) = one \o two
    BY <1>2 DEF ItemsOfMessage
  <2>3. two \in Seq(Items) /\ ItemsSaid(two) = Lines("assistant", m.calls)
    BY <2>1, CalledItems
  <2>4. Lines(m.role, m.calls) = Lines("assistant", m.calls)
    BY <1>0, <2>1, LinesEmpty
  <2>5. one \in Seq(Items) /\ ItemsSaid(one) = Lines(m.role, Each(Text, m.texts))
    <3>1. CASE m.texts = <<>>
      <4>1. one = <<>> /\ <<>> \in Seq(Items)
        BY <3>1
      <4> HIDE DEF one
      <4> QED
        BY <3>1, <4>1, ItemsSaidEmpty, NamedEmpty, LinesEmpty
    <3>2. CASE m.texts # <<>>
      <4> DEFINE x == Message(m.role, m.texts)
      <4>1. x \in Items /\ ItemLines(x) = Lines(m.role, Each(Text, m.texts))
        BY <2>1, <3>2, ItemLinesOf
      <4>2. one = <<x>>
        BY <3>2
      <4> HIDE DEF x, one
      <4> QED
        BY <4>1, <4>2, OneItem
    <3> QED
      BY <3>1, <3>2
  <2> DEFINE ts == Each(Text, m.texts)
             cs == m.calls
  <2>6. ts \in Seq(Parts) /\ cs \in Seq(Parts)
    BY <2>1, NamedTyped DEF Parts
  <2>7. Lines(m.role, ts \o cs) = Lines(m.role, ts) \o Lines(m.role, cs)
    <3> HIDE DEF ts, cs
    <3> QED
      BY <2>1, <2>6, LinesConcat
  <2> HIDE DEF one, two
  <2>8. ItemsSaid(one \o two) = ItemsSaid(one) \o ItemsSaid(two)
    BY <2>3, <2>5, ItemsSaidConcat
  <2>9. one \o two \in Seq(Items)
    BY <2>3, <2>5
  <2> QED
    BY <2>1, <2>2, <2>3, <2>4, <2>5, <2>7, <2>8, <2>9
<1> QED
  BY <1>1, <1>2

MessageItemsBy == [m \in ChatRecords |-> ItemsOfMessage(m)]

\* From chat messages to items nothing is lost or moved.
LEMMA ChatKept ==
    ASSUME NEW messages \in Seq(ChatRecords)
    PROVE  /\ ChatToResponsesInput(messages).instructions = <<>>
           /\ ChatToResponsesInput(messages).input \in Seq(Items)
           /\ ItemsSaid(ChatToResponsesInput(messages).input) = ChatSaid(messages)
<1> DEFINE g == MessageItemsBy
           T == {ms \in Seq(ChatRecords) : ItemsSaid(Joint(g, ms)) = ChatSaid(ms)}
<1>0. g \in [ChatRecords -> Seq(Items)] /\ \A m \in ChatRecords : g[m] = ItemsOfMessage(m)
  BY MessageItemsSay DEF MessageItemsBy
<1> HIDE DEF g
<1>1. <<>> \in T
  <2>1. Joint(g, <<>>) = <<>> /\ <<>> \in Seq(ChatRecords)
    BY JointEmpty
  <2> QED
    BY <2>1, ItemsSaidEmpty, ChatSaidEmpty
<1>2. ASSUME NEW ms \in Seq(ChatRecords), NEW m \in ChatRecords, ms \in T PROVE Append(ms, m) \in T
  <2> DEFINE more == Append(ms, m)
             one == Joint(g, ms)
             two == ItemsOfMessage(m)
  <2>1. Joint(g, more) = one \o two
    BY <1>0, JointAppend
  <2>2. one \in Seq(Items) /\ two \in Seq(Items) /\ ItemsSaid(two) = ChatLines(m)
    BY <1>0, JointTyped, MessageItemsSay
  <2>3. ChatSaid(more) = ChatSaid(ms) \o ChatLines(m)
    <3>1. ms \in Seq(ChatMessages) /\ m \in ChatMessages
      BY RecordsSubset
    <3> QED
      BY <3>1, ChatSaidAppend
  <2> HIDE DEF one, two
  <2>4. ItemsSaid(one \o two) = ItemsSaid(one) \o ItemsSaid(two)
    BY <2>2, ItemsSaidConcat
  <2>5. ItemsSaid(one) = ChatSaid(ms)
    BY <1>2 DEF one
  <2>6. ItemsSaid(Joint(g, more)) = ChatSaid(more)
    BY <2>1, <2>2, <2>3, <2>4, <2>5
  <2>7. more \in Seq(ChatRecords)
    OBVIOUS
  <2> QED
    BY <2>6, <2>7
<1> HIDE DEF T
<1>3. messages \in T
  BY <1>1, <1>2, SequencesGrow
<1>4. Joint(g, messages) \in Seq(Items)
  BY <1>0, JointTyped
<1>5. ChatToResponsesInput(messages).input = Joint(g, messages) /\ ChatToResponsesInput(messages).instructions = <<>>
  <2>1. \A i \in DOMAIN messages : messages[i] \in ChatRecords
    OBVIOUS
  <2>2. [i \in DOMAIN messages |-> ItemsOfMessage(messages[i])] = Mapped(g, messages)
    BY <1>0, <2>1 DEF Mapped
  <2>3. ChatToResponsesInput(messages).input = FlattenSeq([i \in DOMAIN messages |-> ItemsOfMessage(messages[i])])
    BY DEF ChatToResponsesInput, Each, ItemsOfMessage, ItemsCalled
  <2>4. ChatToResponsesInput(messages).instructions = <<>>
    BY DEF ChatToResponsesInput
  <2> QED
    BY <2>2, <2>3, <2>4 DEF Joint
<1> QED
  BY <1>3, <1>4, <1>5 DEF T
-----------------------------------------------------------------------------
(* translate_input_items: what a body for Responses becomes as chat.        *)

\* The state of translate_input_items, and what has been told in it.
ChatStates == [ok : BOOLEAN, messages : Seq(ChatMessages), pending : Seq(Calls),
               outstanding : SUBSET Nat, known : SUBSET Nat]

Told(s) == ChatSaid(s.messages) \o Lines("assistant", s.pending)

\* The parts of a state of translate_input_items.
LEMMA StatesTyped ==
    ASSUME NEW s \in ChatStates
    PROVE  /\ s.ok \in BOOLEAN /\ s.messages \in Seq(ChatMessages) /\ s.pending \in Seq(Calls)
           /\ s.outstanding \in SUBSET Nat /\ s.known \in SUBSET Nat
           /\ s.pending \in Seq(Parts)
           /\ ChatSaid(s.messages) \in Seq(Words) /\ Lines("assistant", s.pending) \in Seq(Words)
<1>1. /\ s.ok \in BOOLEAN /\ s.messages \in Seq(ChatMessages) /\ s.pending \in Seq(Calls)
      /\ s.outstanding \in SUBSET Nat /\ s.known \in SUBSET Nat
  BY DEF ChatStates
<1>2. s.pending \in Seq(Parts) /\ "assistant" \in Roles
  BY <1>1 DEF Parts, Roles
<1> QED
  BY <1>1, <1>2, ChatSaidTyped, LinesTyped

\* Parts of the right types make a state.
LEMMA StateOf ==
    \A ok \in BOOLEAN, messages \in Seq(ChatMessages), pending \in Seq(Calls),
       outstanding \in SUBSET Nat, known \in SUBSET Nat :
       [ok |-> ok, messages |-> messages, pending |-> pending, outstanding |-> outstanding, known |-> known]
          \in ChatStates
  BY DEF ChatStates

\* Flushing the pending calls changes nothing about what has been told.
LEMMA CallsFlushed ==
    ASSUME NEW s \in ChatStates
    PROVE  /\ FlushToolCalls(s) \in ChatStates
           /\ FlushToolCalls(s).ok = s.ok
           /\ FlushToolCalls(s).pending = <<>>
           /\ ChatSaid(FlushToolCalls(s).messages) = Told(s)
<1> DEFINE f == FlushToolCalls(s)
<1>0. /\ s.ok \in BOOLEAN /\ s.messages \in Seq(ChatMessages) /\ s.pending \in Seq(Calls)
      /\ s.outstanding \in SUBSET Nat /\ s.known \in SUBSET Nat
  BY StatesTyped
<1>1. CASE s.pending = <<>>
  <2>1. f = s
    BY <1>1 DEF FlushToolCalls
  <2>2. Lines("assistant", s.pending) = <<>>
    BY <1>1, LinesEmpty
  <2>3. ChatSaid(s.messages) \o <<>> = ChatSaid(s.messages)
    BY StatesTyped
  <2> QED
    BY <1>1, <2>1, <2>2, <2>3 DEF Told
<1>2. CASE s.pending # <<>>
  <2> DEFINE m == ChatMessage("assistant", <<>>, s.pending)
             ids == {s.pending[i].id : i \in DOMAIN s.pending}
  <2>1. f = [s EXCEPT !.messages = Append(@, m), !.outstanding = @ \union ids, !.pending = <<>>]
    BY <1>2 DEF FlushToolCalls
  <2>2. m \in ChatMessages /\ m.role = "assistant" /\ m.texts = <<>> /\ m.calls = s.pending
    <3>1. <<>> \in Seq(Nat)
      OBVIOUS
    <3> QED
      BY <1>0, <1>2, <3>1 DEF ChatMessage, ChatMessages, Replies
  <2>3. ids \in SUBSET Nat
    <3>1. \A i \in DOMAIN s.pending : s.pending[i] \in Calls
      BY <1>0
    <3> QED
      BY <3>1 DEF Calls
  <2>4. ChatLines(m) = Lines("assistant", s.pending)
    <3>1. ChatLines(m) = Lines("assistant", Each(Text, <<>>) \o s.pending)
      BY <2>2, ChatLinesOf
    <3>2. Each(Text, <<>>) \o s.pending = s.pending
      BY <1>0, NamedEmpty
    <3> QED
      BY <3>1, <3>2
  <2> HIDE DEF m, ids
  <2> DEFINE more == Append(s.messages, m)
             open == s.outstanding \union ids
  <2>5. more \in Seq(ChatMessages) /\ open \in SUBSET Nat /\ <<>> \in Seq(Calls)
    <3>1. more \in Seq(ChatMessages)
      BY <1>0, <2>2
    <3>2. open \in SUBSET Nat
      BY <1>0, <2>3
    <3> QED
      BY <3>1, <3>2
  <2>6. f = [ok |-> s.ok, messages |-> more, pending |-> <<>>, outstanding |-> open, known |-> s.known]
    BY <2>1 DEF ChatStates
  <2>7. ChatSaid(more) = ChatSaid(s.messages) \o ChatLines(m)
    BY <1>0, <2>2, ChatSaidAppend
  <2> HIDE DEF more, open, f
  <2>8. f \in ChatStates
    BY <1>0, <2>5, <2>6, StateOf
  <2>9. f.ok = s.ok /\ f.messages = more /\ f.pending = <<>>
    BY <2>6
  <2> QED
    BY <2>4, <2>7, <2>8, <2>9 DEF Told, f
<1> QED
  BY <1>1, <1>2

\* One more chat message.
LEMMA MessageTold ==
    ASSUME NEW s \in ChatStates, s.pending = <<>>, NEW m \in ChatMessages, NEW r \in ChatStates,
           r.messages = Append(s.messages, m), r.pending = <<>>
    PROVE  Told(r) = ChatSaid(s.messages) \o ChatLines(m)
<1>1. Lines("assistant", r.pending) = <<>>
  BY LinesEmpty
<1>2. ChatSaid(r.messages) = ChatSaid(s.messages) \o ChatLines(m)
  BY StatesTyped, ChatSaidAppend
<1>3. ChatSaid(r.messages) \o <<>> = ChatSaid(r.messages)
  BY StatesTyped
<1> QED
  BY <1>1, <1>2, <1>3 DEF Told

\* What one item does, whatever it is.
Tells(s, r, item) == r \in ChatStates /\ (r.ok => s.ok /\ Told(r) = Told(s) \o ItemLines(item))

\* A refused item tells nothing and promises nothing.
LEMMA RejectedTells ==
    ASSUME NEW s \in ChatStates, NEW t, NEW item
    PROVE  Tells(t, Rejected(s), item)
<1>0. \A b \in BOOLEAN : [s EXCEPT !.ok = b] = [ok |-> b, messages |-> s.messages, pending |-> s.pending,
                                                outstanding |-> s.outstanding, known |-> s.known]
  BY DEF ChatStates
<1>1. Rejected(s) = [ok |-> FALSE, messages |-> s.messages, pending |-> s.pending,
                     outstanding |-> s.outstanding, known |-> s.known]
  BY <1>0 DEF Rejected
<1>2. Rejected(s) \in ChatStates
  <2>1. /\ s.messages \in Seq(ChatMessages) /\ s.pending \in Seq(Calls)
        /\ s.outstanding \in SUBSET Nat /\ s.known \in SUBSET Nat
    BY StatesTyped
  <2>2. \A b \in BOOLEAN : [ok |-> b, messages |-> s.messages, pending |-> s.pending,
                           outstanding |-> s.outstanding, known |-> s.known] \in ChatStates
    BY <2>1, StateOf, Zenon
  <2> QED
    BY <1>1, <2>2
<1>3. ~Rejected(s).ok
  BY <1>1
<1> QED
  BY <1>2, <1>3 DEF Tells

\* A call is told as soon as it is pending.
LEMMA CallTells ==
    ASSUME NEW s \in ChatStates, s.ok, NEW item \in CallItems
    PROVE  Tells(s, AddCall(s, item), item)
<1> DEFINE r == AddCall(s, item)
           tool == [NoTool EXCEPT !.name = item.tool.name]
           c == Call(item.id, tool)
<1>0. item \in Items /\ item.id \in Nat /\ item.tool \in AnyTools /\ item.type = "call"
  BY DEF Items, CallItems
<1>1. CASE s.outstanding # {} \/ item.id \in s.known
  <2>1. r = Rejected(s)
    BY <1>1 DEF AddCall
  <2> QED
    BY <2>1, RejectedTells
<1>2. CASE ~(s.outstanding # {} \/ item.id \in s.known)
  <2> DEFINE known == s.known \union {item.id}
             pending == Append(s.pending, c)
  <2>1. r = [s EXCEPT !.known = @ \union {item.id}, !.pending = Append(@, c)]
    BY <1>2 DEF AddCall
  <2>2. c \in Calls /\ c \in Parts /\ Line("assistant", c) = Line("assistant", Call(item.id, item.tool))
    <3>1. item.tool.name \in AnyNames
      BY <1>0 DEF AnyTools
    <3>2. tool = [space |-> None, name |-> item.tool.name, kind |-> "function"]
      BY DEF NoTool
    <3>3. tool \in AnyTools /\ tool.name = item.tool.name
      BY <3>1, <3>2 DEF AnyTools
    <3> HIDE DEF tool
    <3>4. c \in Calls /\ c \in Parts
      BY <1>0, <3>3, PartTyped
    <3>5. Line("assistant", c) = Line("assistant", Call(item.id, item.tool))
      BY <3>3 DEF Line, Call
    <3> QED
      BY <3>4, <3>5
  <2> HIDE DEF c
  <2>3. known \in SUBSET Nat /\ pending \in Seq(Calls)
    BY <1>0, <2>2, StatesTyped
  <2>4. r = [ok |-> s.ok, messages |-> s.messages, pending |-> pending,
             outstanding |-> s.outstanding, known |-> known]
    BY <2>1 DEF ChatStates
  <2> HIDE DEF r, known, pending
  <2>5. r \in ChatStates /\ r.messages = s.messages /\ r.pending = pending
    BY <2>3, <2>4, StatesTyped, StateOf
  <2>6. Lines("assistant", pending) = Append(Lines("assistant", s.pending), Line("assistant", c))
    BY <2>2, StatesTyped, LinesAppend DEF pending, Roles
  <2>7. ItemLines(item) = <<Line("assistant", c)>>
    <3>1. ItemLines(item) = Lines("assistant", <<Call(item.id, item.tool)>>)
      BY <1>0 DEF ItemLines
    <3>2. Call(item.id, item.tool) \in Parts /\ "assistant" \in Roles
      BY <1>0, PartTyped DEF Roles
    <3> QED
      BY <2>2, <3>1, <3>2, OneLine
  <2>8. Told(r) = Told(s) \o ItemLines(item)
    <3> DEFINE one == ChatSaid(s.messages)
               two == Lines("assistant", s.pending)
               y == Line("assistant", c)
    <3>1. one \in Seq(Words) /\ two \in Seq(Words) /\ y \in Words
      BY <2>2, StatesTyped, LineTyped DEF Roles
    <3>2. Told(r) = one \o Append(two, y) /\ Told(s) = one \o two /\ ItemLines(item) = <<y>>
      BY <2>5, <2>6, <2>7 DEF Told
    <3> DEFINE both == one \o two
    <3> HIDE DEF one, two, y
    <3>3. one \o Append(two, y) = Append(both, y) /\ both \in Seq(Words)
      BY <3>1, AppendedBehind
    <3> HIDE DEF both
    <3>4. Append(both, y) = both \o <<y>>
      BY <3>1, <3>3
    <3> QED
      BY <3>2, <3>3, <3>4 DEF both
  <2> QED
    BY <2>5, <2>8 DEF Tells, r
<1> QED
  BY <1>1, <1>2

\* A message is told behind the calls before it.
LEMMA MessageTells ==
    ASSUME NEW s \in ChatStates, s.ok, NEW item \in MessageItems
    PROVE  Tells(s, AddMessage(s, item), item)
<1> DEFINE r == AddMessage(s, item)
           f == FlushToolCalls(s)
           m == ChatMessage(item.role, item.texts, <<>>)
<1>0. /\ item.type = "message" /\ item.role \in {"user", "assistant"}
      /\ item.texts \in Seq(Nat) /\ item.texts # <<>>
  BY DEF MessageItems
<1>1. f \in ChatStates /\ f.pending = <<>> /\ ChatSaid(f.messages) = Told(s)
  BY CallsFlushed
<1>2. CASE f.outstanding # {}
  <2>1. r = Rejected(f)
    BY <1>2 DEF AddMessage
  <2> HIDE DEF f, r
  <2> QED
    BY <1>1, <2>1, RejectedTells DEF r
<1>3. CASE f.outstanding = {}
  <2>1. r = [f EXCEPT !.messages = Append(@, m)]
    BY <1>3 DEF AddMessage
  <2>2. m \in ChatMessages /\ m.role = item.role /\ m.texts = item.texts /\ m.calls = <<>> /\ m.role # "tool"
    <3>1. m = [role |-> item.role, texts |-> item.texts, calls |-> <<>>, id |-> 0]
      BY DEF ChatMessage
    <3>2. <<>> \in Seq(Calls)
      OBVIOUS
    <3>3. m \in Remarks \/ m \in Replies
      <4>1. CASE item.role = "user"
        <5>1. item.role \in {"user", "system"}
          BY <4>1
        <5> HIDE DEF m
        <5> QED
          BY <1>0, <3>1, <5>1 DEF Remarks
      <4>2. CASE item.role = "assistant"
        <5> HIDE DEF m
        <5> QED
          BY <1>0, <3>1, <3>2, <4>2 DEF Replies
      <4> QED
        BY <1>0, <4>1, <4>2
    <3> QED
      BY <1>0, <3>1, <3>3 DEF ChatMessages
  <2>3. ChatLines(m) = ItemLines(item)
    <3>1. ChatLines(m) = Lines(item.role, Each(Text, item.texts) \o <<>>)
      BY <2>2, ChatLinesOf
    <3> DEFINE ts == Each(Text, item.texts)
    <3>2. ts \in Seq(Parts)
      BY <1>0, NamedTyped
    <3> HIDE DEF ts
    <3>3. ts \o <<>> = ts
      BY <3>2
    <3>4. ItemLines(item) = Lines(item.role, Each(Text, item.texts))
      BY <1>0 DEF ItemLines
    <3> QED
      BY <3>1, <3>3, <3>4 DEF ts
  <2> HIDE DEF m, f
  <2> DEFINE more == Append(f.messages, m)
  <2>4. more \in Seq(ChatMessages)
    BY <1>1, <2>2, StatesTyped
  <2>5. r = [ok |-> f.ok, messages |-> more, pending |-> f.pending,
             outstanding |-> f.outstanding, known |-> f.known]
    BY <1>1, <2>1 DEF ChatStates
  <2> HIDE DEF r, more
  <2>6. r \in ChatStates /\ r.messages = more /\ r.pending = <<>>
    BY <1>1, <2>4, <2>5, StatesTyped, StateOf
  <2>7. Told(r) = ChatSaid(f.messages) \o ChatLines(m)
    BY <1>1, <2>2, <2>6, MessageTold DEF more
  <2> QED
    BY <1>1, <2>3, <2>6, <2>7 DEF Tells, r
<1> QED
  BY <1>2, <1>3

\* An output is told behind the calls before it.
LEMMA OutputTells ==
    ASSUME NEW s \in ChatStates, s.ok, NEW item \in OutputItems
    PROVE  Tells(s, AddOutput(s, item), item)
<1> DEFINE r == AddOutput(s, item)
           f == FlushToolCalls(s)
           m == ToolMessage(item.id)
<1>0. item.type = "output" /\ item.id \in Nat
  BY DEF OutputItems
<1>1. f \in ChatStates /\ f.pending = <<>> /\ ChatSaid(f.messages) = Told(s)
  BY CallsFlushed
<1>2. CASE item.id \notin f.outstanding
  <2>1. r = Rejected(f)
    BY <1>2 DEF AddOutput
  <2> HIDE DEF f, r
  <2> QED
    BY <1>1, <2>1, RejectedTells DEF r
<1>3. CASE item.id \in f.outstanding
  <2> DEFINE left == f.outstanding \ {item.id}
  <2>1. r = [f EXCEPT !.messages = Append(@, m), !.outstanding = @ \ {item.id}]
    BY <1>3 DEF AddOutput
  <2>2. m \in ChatMessages /\ m.role = "tool" /\ m.id = item.id
    BY <1>0 DEF ToolMessage, ChatMessages, Answers
  <2>3. ChatLines(m) = ItemLines(item)
    <3>1. ChatLines(m) = Lines("tool", <<Result(item.id)>>)
      BY <2>2, ChatLinesOf
    <3>2. ItemLines(item) = Lines("tool", <<Result(item.id)>>)
      BY <1>0 DEF ItemLines
    <3> QED
      BY <3>1, <3>2
  <2> HIDE DEF m, f
  <2> DEFINE more == Append(f.messages, m)
  <2>4. more \in Seq(ChatMessages) /\ left \in SUBSET Nat
    BY <1>1, <2>2, StatesTyped
  <2>5. r = [ok |-> f.ok, messages |-> more, pending |-> f.pending, outstanding |-> left, known |-> f.known]
    BY <1>1, <2>1 DEF ChatStates
  <2> HIDE DEF r, more, left
  <2>6. r \in ChatStates /\ r.messages = more /\ r.pending = <<>>
    BY <1>1, <2>4, <2>5, StatesTyped, StateOf
  <2>7. Told(r) = ChatSaid(f.messages) \o ChatLines(m)
    BY <1>1, <2>2, <2>6, MessageTold DEF more
  <2> QED
    BY <1>1, <2>3, <2>6, <2>7 DEF Tells, r
<1> QED
  BY <1>2, <1>3

\* Any item is told, or the input is refused.
LEMMA ItemTells ==
    ASSUME NEW s \in ChatStates, NEW item \in Items
    PROVE  Tells(s, AddItem(s, item), item)
<1>1. CASE ~s.ok
  BY <1>1 DEF AddItem, Tells
<1>2. CASE s.ok /\ item \in CallItems
  <2>1. AddItem(s, item) = AddCall(s, item)
    BY <1>2 DEF AddItem, CallItems
  <2> QED
    BY <1>2, <2>1, CallTells
<1>3. CASE s.ok /\ item \in MessageItems
  <2>1. AddItem(s, item) = AddMessage(s, item)
    BY <1>3 DEF AddItem, MessageItems
  <2> QED
    BY <1>3, <2>1, MessageTells
<1>4. CASE s.ok /\ item \in OutputItems
  <2>1. AddItem(s, item) = AddOutput(s, item)
    BY <1>4 DEF AddItem, OutputItems
  <2> QED
    BY <1>4, <2>1, OutputTells
<1> QED
  BY <1>1, <1>2, <1>3, <1>4 DEF Items

\* translate_input_items goes through the items.
ItemStep == [x \in ChatStates \X Items |-> AddItem(x[1], x[2])]

ItemsFolding(F, start, s) ==
    F = [p \in SUBSET DOMAIN s |-> IF p = {} THEN start ELSE AddItem(F[p \ {Max(p)}], s[Max(p)])]

\* Adding an item is a step from state to state.
LEMMA ItemsSteps ==
    Steps(ItemStep, ChatStates, Items)
  BY ItemTells DEF Steps, ItemStep, Tells

\* The fold over the items is a fold by that step.
LEMMA ItemsFolded ==
    ASSUME NEW start \in ChatStates, NEW s \in Seq(Items)
    PROVE  FoldLeft(AddItem, start, s) = Folded(ItemStep, start, s)
<1> DEFINE n == Len(s)
<1>0. n \in Nat /\ DOMAIN s = 1..n /\ Steps(ItemStep, ChatStates, Items)
  BY ItemsSteps
<1>1. PICK F \in [SUBSET (1..n) -> ChatStates] : FoldsUp(F, ItemStep, start, s)
  BY <1>0, FoldsUpExists
<1>2. ItemsFolding(F, start, s)
  <2>1. ASSUME NEW p \in SUBSET DOMAIN s
        PROVE  F[p] = IF p = {} THEN start ELSE AddItem(F[p \ {Max(p)}], s[Max(p)])
    <3>1. F[p] = IF p = {} THEN start ELSE ItemStep[<<F[p \ {Max(p)}], s[Max(p)]>>]
      BY <1>0, <1>1 DEF FoldsUp
    <3>2. CASE p # {}
      <4>1. Max(p) \in 1..n
        BY <1>0, <3>2, Greatest
      <4>2. F[p \ {Max(p)}] \in ChatStates /\ s[Max(p)] \in Items
        BY <1>0, <4>1
      <4> DEFINE one == F[p \ {Max(p)}]
                 two == s[Max(p)]
      <4> HIDE DEF one, two
      <4>3. ItemStep[<<one, two>>] = AddItem(one, two)
        BY <4>2 DEF ItemStep, one, two
      <4> QED
        BY <3>1, <3>2, <4>3 DEF one, two
    <3> QED
      BY <3>1, <3>2
  <2> QED
    BY <1>0, <2>1 DEF ItemsFolding
<1> DEFINE G == CHOOSE G : ItemsFolding(G, start, s)
           f == [i \in 0..n |-> G[1..i]]
<1>3. ItemsFolding(G, start, s)
  BY <1>2
<1>4. FoldLeft(AddItem, start, s) = G[1..n]
  BY <1>0 DEF FoldLeft, MapThenFoldSet, ItemsFolding
<1> HIDE DEF G
<1>5. ASSUME NEW p \in SUBSET (1..n)
      PROVE  G[p] = IF p = {} THEN start ELSE AddItem(G[p \ {Max(p)}], s[Max(p)])
  BY <1>0, <1>3 DEF ItemsFolding
<1>6. f[0] = start
  <2>1. {} \in SUBSET (1..n) /\ 1..0 = {} /\ 0 \in 0..n
    BY <1>0
  <2>2. G[{}] = start
    BY <1>5, <2>1
  <2> QED
    BY <2>1, <2>2
<1>7. ASSUME NEW i \in 1..n, f[i - 1] \in ChatStates
      PROVE  f[i] = ItemStep[<<f[i - 1], s[i]>>]
  <2>1. 1..i \in SUBSET (1..n) /\ 1..i # {} /\ Max(1..i) = i /\ (1..i) \ {i} = 1..(i - 1)
    BY <1>0, Top
  <2>2. G[1..i] = AddItem(G[1..(i - 1)], s[i])
    BY <1>5, <2>1
  <2>3. f[i] = G[1..i] /\ f[i - 1] = G[1..(i - 1)] /\ s[i] \in Items
    BY <1>0
  <2> DEFINE one == f[i - 1]
             two == s[i]
  <2>4. f[i] = AddItem(one, two) /\ one \in ChatStates /\ two \in Items
    BY <1>7, <2>2, <2>3
  <2> HIDE DEF one, two, f
  <2>5. ItemStep[<<one, two>>] = AddItem(one, two)
    BY <2>4 DEF ItemStep
  <2> QED
    BY <2>4, <2>5 DEF one, two
<1>8. f[n] = G[1..n]
  BY <1>0
<1> HIDE DEF f
<1>9. f[n] = Folded(ItemStep, start, s)
  BY <1>0, <1>6, <1>7, ChainIs
<1> QED
  BY <1>4, <1>8, <1>9

\* A request that is not refused has every word of its items, in their order.
THEOREM ItemsKept ==
    ASSUME NEW items \in Seq(Items), TranslateInputItems(items).ok
    PROVE  /\ TranslateInputItems(items).messages \in Seq(ChatMessages)
           /\ ChatSaid(TranslateInputItems(items).messages) = ItemsSaid(items)
<1> DEFINE start == [ok |-> TRUE, messages |-> <<>>, pending |-> <<>>, outstanding |-> {}, known |-> {}]
           F(s) == Folded(ItemStep, start, s)
           T == {s \in Seq(Items) : F(s).ok => Told(F(s)) = ItemsSaid(s)}
<1>1. start \in ChatStates /\ Told(start) = <<>>
  <2>0. start.messages = <<>> /\ start.pending = <<>>
    OBVIOUS
  <2>1. start \in ChatStates
    <3>1. <<>> \in Seq(ChatMessages) /\ <<>> \in Seq(Calls) /\ {} \in SUBSET Nat /\ TRUE \in BOOLEAN
      OBVIOUS
    <3> QED
      BY <3>1, StateOf
  <2> HIDE DEF start
  <2>2. <<>> \o <<>> = <<>>
    OBVIOUS
  <2> QED
    BY <2>0, <2>1, <2>2, ChatSaidEmpty, LinesEmpty DEF Told
<1> HIDE DEF start
<1>2. <<>> \in T
  <2>1. F(<<>>) = start /\ <<>> \in Seq(Items)
    BY <1>1, ItemsSteps, FoldedEmpty
  <2> HIDE DEF F
  <2> QED
    BY <1>1, <2>1, ItemsSaidEmpty
<1>3. ASSUME NEW s \in Seq(Items), NEW x \in Items, s \in T PROVE Append(s, x) \in T
  <2> DEFINE more == Append(s, x)
  <2>1. F(s) \in ChatStates /\ F(more) = ItemStep[<<F(s), x>>]
    BY <1>1, ItemsSteps, FoldedTyped, FoldedAppend
  <2> HIDE DEF F
  <2>2. F(more) = AddItem(F(s), x)
    BY <2>1 DEF ItemStep
  <2>3. Tells(F(s), F(more), x)
    BY <2>1, <2>2, ItemTells
  <2>4. ItemsSaid(more) = ItemsSaid(s) \o ItemLines(x)
    BY ItemsSaidAppend
  <2>5. F(s).ok => Told(F(s)) = ItemsSaid(s)
    BY <1>3
  <2>6. F(more).ok => Told(F(more)) = ItemsSaid(more)
    BY <2>3, <2>4, <2>5 DEF Tells
  <2>7. more \in Seq(Items)
    OBVIOUS
  <2> QED
    BY <2>6, <2>7
<1> HIDE DEF T
<1>4. items \in T
  BY <1>2, <1>3, SequencesGrow
<1> DEFINE f == F(items)
           end == FlushToolCalls(f)
<1>5. f \in ChatStates /\ FoldLeft(AddItem, start, items) = f
  BY <1>1, ItemsSteps, FoldedTyped, ItemsFolded
<1>6. /\ TranslateInputItems(items).messages = end.messages
      /\ TranslateInputItems(items).ok = (end.ok /\ end.outstanding = {})
  BY <1>5 DEF TranslateInputItems, start
<1>7. f.ok => Told(f) = ItemsSaid(items)
  BY <1>4 DEF T
<1> HIDE DEF f
<1>8. /\ end \in ChatStates /\ end.ok = f.ok /\ ChatSaid(end.messages) = Told(f)
  BY <1>5, CallsFlushed
<1>9. end.messages \in Seq(ChatMessages)
  BY <1>8, StatesTyped
<1> HIDE DEF end
<1> QED
  BY <1>6, <1>7, <1>8, <1>9
-----------------------------------------------------------------------------
(* One translation, or two in a row.                                        *)

\* What a client records, in the format of its route.
Recorder(api) ==
    CASE api = "messages"  -> BlockMessages
      [] api = "chat"      -> ChatRecords
      [] api = "responses" -> Items

Apis == {"messages", "chat", "responses"}

RouteTyped == route \in [api : Apis, via : {"responses", "chat"}, stream : BOOLEAN]

Plain == Words \ SystemWords

\* What a chat client records has no line of the system.
LEMMA RecordsPlain ==
    ASSUME NEW messages \in Seq(ChatRecords)
    PROVE  ChatSaid(messages) \in Seq(Plain)
<1> DEFINE g == [m \in ChatRecords |-> ChatLines(m)]
<1>1. ASSUME NEW m \in ChatRecords PROVE ChatLines(m) \in Seq(Plain)
  <2>1. m \in ChatMessages /\ m.role \in {"user", "assistant", "tool"}
    BY RecordsTyped
  <2>2. CASE m.role = "tool"
    <3>1. ChatLines(m) = Lines("tool", <<Result(m.id)>>) /\ m.id \in Nat
      BY <2>1, <2>2, ChatLinesOf
    <3>2. <<Result(m.id)>> \in Seq(Parts)
      BY <3>1, PartTyped
    <3> QED
      BY <3>1, <3>2, LinesOthers DEF Plain
  <2>3. CASE m.role # "tool"
    <3> DEFINE one == Each(Text, m.texts)
               two == m.calls
    <3>1. ChatLines(m) = Lines(m.role, one \o two)
      BY <2>1, <2>3, ChatLinesOf
    <3>2. m.texts \in Seq(Nat) /\ two \in Seq(Calls)
      BY <2>1, <2>3, ChatLinesOf
    <3>3. one \in Seq(Parts) /\ two \in Seq(Parts)
      BY <3>2, NamedTyped DEF Parts
    <3> HIDE DEF one, two
    <3>4. one \o two \in Seq(Parts)
      BY <3>3
    <3> QED
      BY <2>1, <3>1, <3>4, LinesOthers DEF Plain
  <2> QED
    BY <2>2, <2>3
<1>2. g \in [ChatRecords -> Seq(Plain)]
  BY <1>1
<1>3. ChatSaid(messages) = Joint(g, messages)
  <2>1. \A i \in DOMAIN messages : messages[i] \in ChatRecords
    OBVIOUS
  <2>2. Each(ChatLines, messages) = Mapped(g, messages)
    BY <2>1 DEF Each, Mapped
  <2> QED
    BY <2>2 DEF ChatSaid, Joint
<1> HIDE DEF g
<1> QED
  BY <1>2, <1>3, JointTyped

\* Input items have no line of the system.
LEMMA ItemsPlain ==
    ASSUME NEW items \in Seq(Items)
    PROVE  ItemsSaid(items) \in Seq(Plain)
<1>1. ASSUME NEW x \in Items PROVE ItemLines(x) \in Seq(Plain)
  <2>1. CASE x \in MessageItems
    <3>1. ItemLines(x) = Lines(x.role, Each(Text, x.texts)) /\ x.role \in {"user", "assistant", "tool"}
      BY <2>1 DEF MessageItems, ItemLines
    <3>2. Each(Text, x.texts) \in Seq(Parts)
      BY <2>1, NamedTyped DEF MessageItems
    <3> QED
      BY <3>1, <3>2, LinesOthers DEF Plain
  <2>2. CASE x \in CallItems
    <3>1. ItemLines(x) = Lines("assistant", <<Call(x.id, x.tool)>>) /\ x.id \in Nat /\ x.tool \in AnyTools
      BY <2>2 DEF CallItems, ItemLines
    <3>2. <<Call(x.id, x.tool)>> \in Seq(Parts)
      BY <3>1, PartTyped
    <3> QED
      BY <3>1, <3>2, LinesOthers DEF Plain
  <2>3. CASE x \in OutputItems
    <3>1. ItemLines(x) = Lines("tool", <<Result(x.id)>>) /\ x.id \in Nat
      BY <2>3 DEF OutputItems, ItemLines
    <3>2. <<Result(x.id)>> \in Seq(Parts)
      BY <3>1, PartTyped
    <3> QED
      BY <3>1, <3>2, LinesOthers DEF Plain
  <2> QED
    BY <2>1, <2>2, <2>3 DEF Items
<1>2. ItemWords \in [Items -> Seq(Plain)]
  BY <1>1 DEF ItemWords
<1> QED
  BY <1>2, ItemsSaidJoint, JointTyped

\* What a history in the route's format says.
HistorySaid(h) ==
    CASE route.api = "messages"  -> BlocksSaid(h)
      [] route.api = "chat"      -> ChatSaid(h)
      [] route.api = "responses" -> ItemsSaid(h)

\* Every handler's first translation.
LEMMA TranslationSays ==
    ASSUME RouteTyped, NEW messages \in Seq(Recorder(route.api))
    PROVE  /\ AsResponses(messages).instructions \in Seq(Nat)
           /\ AsResponses(messages).input \in Seq(Items)
           /\ Lines("system", Each(Text, AsResponses(messages).instructions)) = SystemOf(HistorySaid(messages))
           /\ ItemsSaid(AsResponses(messages).input) = OthersOf(HistorySaid(messages))
<1>0. <<>> \in Seq(Nat) /\ Lines("system", Each(Text, <<>>)) = <<>>
  BY NamedEmpty, LinesEmpty
<1>1. CASE route.api = "messages"
  <2>1. messages \in Seq(BlockMessages)
    BY <1>1 DEF Recorder
  <2>2. AsResponses(messages) = AnthropicToResponses(messages)
    BY <1>1 DEF AsResponses
  <2>3. HistorySaid(messages) = BlocksSaid(messages)
    BY <1>1 DEF HistorySaid
  <2> QED
    BY <2>1, <2>2, <2>3, AnthropicKept
<1>2. CASE route.api = "chat"
  <2>1. messages \in Seq(ChatRecords)
    BY <1>2 DEF Recorder
  <2>2. AsResponses(messages) = ChatToResponsesInput(messages)
    BY <1>2 DEF AsResponses
  <2>3. HistorySaid(messages) = ChatSaid(messages)
    BY <1>2 DEF HistorySaid
  <2>4. SystemOf(HistorySaid(messages)) = <<>> /\ OthersOf(HistorySaid(messages)) = HistorySaid(messages)
    BY <2>1, <2>3, RecordsPlain, SystemLinesSplit DEF Plain
  <2> QED
    BY <1>0, <2>1, <2>2, <2>3, <2>4, ChatKept
<1>3. CASE route.api = "responses"
  <2>1. messages \in Seq(Items)
    BY <1>3 DEF Recorder
  <2>2. AsResponses(messages) = [instructions |-> <<>>, input |-> messages]
    BY <1>3 DEF AsResponses
  <2>3. HistorySaid(messages) = ItemsSaid(messages)
    BY <1>3 DEF HistorySaid
  <2>4. SystemOf(HistorySaid(messages)) = <<>> /\ OthersOf(HistorySaid(messages)) = HistorySaid(messages)
    BY <2>1, <2>3, ItemsPlain, SystemLinesSplit DEF Plain
  <2> QED
    BY <1>0, <2>1, <2>2, <2>3, <2>4
<1> QED
  BY <1>1, <1>2, <1>3 DEF RouteTyped, Apis

\* Of the history it is given.
LEMMA FirstTranslation ==
    ASSUME RouteTyped, history \in Seq(Recorder(route.api))
    PROVE  /\ HistoryLines = HistorySaid(history)
           /\ AsResponses(history).instructions \in Seq(Nat)
           /\ AsResponses(history).input \in Seq(Items)
           /\ Lines("system", Each(Text, AsResponses(history).instructions)) = SystemOf(HistoryLines)
           /\ ItemsSaid(AsResponses(history).input) = OthersOf(HistoryLines)
<1>1. HistoryLines = HistorySaid(history)
  BY DEF HistoryLines, HistorySaid, BlocksSaid, ChatSaid, ItemsSaid
<1> QED
  BY <1>1, TranslationSays

\* The instructions of a chat request lead it as its system message.
LEMMA SecondTranslation ==
    ASSUME NEW body, body.instructions \in Seq(Nat), body.input \in Seq(Items), ResponsesToChatRequest(body).ok
    PROVE  /\ ResponsesToChatRequest(body).messages \in Seq(ChatMessages)
           /\ ChatSaid(ResponsesToChatRequest(body).messages)
                 = Lines("system", Each(Text, body.instructions)) \o ItemsSaid(body.input)
<1> DEFINE r == TranslateInputItems(body.input)
           lead == IF body.instructions = <<>> THEN <<>> ELSE <<ChatMessage("system", body.instructions, <<>>)>>
<1>1. ResponsesToChatRequest(body).ok = r.ok /\ ResponsesToChatRequest(body).messages = lead \o r.messages
  BY DEF ResponsesToChatRequest
<1>2. r.messages \in Seq(ChatMessages) /\ ChatSaid(r.messages) = ItemsSaid(body.input)
  BY <1>1, ItemsKept
<1>3. lead \in Seq(ChatMessages) /\ ChatSaid(lead) = Lines("system", Each(Text, body.instructions))
  <2>1. CASE body.instructions = <<>>
    <3>1. lead = <<>> /\ <<>> \in Seq(ChatMessages)
      BY <2>1
    <3> HIDE DEF lead
    <3> QED
      BY <2>1, <3>1, ChatSaidEmpty, NamedEmpty, LinesEmpty
  <2>2. CASE body.instructions # <<>>
    <3> DEFINE m == ChatMessage("system", body.instructions, <<>>)
               ts == Each(Text, body.instructions)
    <3>1. m = [role |-> "system", texts |-> body.instructions, calls |-> <<>>, id |-> 0]
      BY DEF ChatMessage
    <3>2. m.role = "system" /\ m.texts = body.instructions /\ m.calls = <<>> /\ lead = <<m>>
      BY <2>2, <3>1
    <3>3. m \in ChatMessages
      <4> HIDE DEF m
      <4>1. m \in Remarks
        BY <2>2, <3>1 DEF Remarks
      <4> QED
        BY <4>1 DEF ChatMessages
    <3>4. ts \in Seq(Parts)
      BY NamedTyped
    <3>5. ChatLines(m) = Lines("system", ts \o <<>>)
      BY <3>2 DEF ChatLines
    <3> HIDE DEF ts, m, lead
    <3>6. ts \o <<>> = ts
      BY <3>4
    <3>7. ChatSaid(<<m>>) = ChatLines(m) /\ <<m>> \in Seq(ChatMessages)
      <4>1. <<>> \in Seq(ChatMessages) /\ Append(<<>>, m) = <<m>> /\ <<m>> \in Seq(ChatMessages)
        BY <3>3
      <4>2. ChatSaid(Append(<<>>, m)) = ChatSaid(<<>>) \o ChatLines(m)
        BY <3>3, <4>1, ChatSaidAppend
      <4>3. ChatLines(m) \in Seq(Words)
        BY <3>3, ChatWordsTyped DEF ChatWords
      <4>4. <<>> \o ChatLines(m) = ChatLines(m)
        BY <4>3
      <4> QED
        BY <4>1, <4>2, <4>4, ChatSaidEmpty
    <3> QED
      BY <3>2, <3>5, <3>6, <3>7 DEF ts
  <2> QED
    BY <2>1, <2>2
<1> HIDE DEF lead
<1> DEFINE ms == r.messages
<1>4. ChatSaid(lead \o ms) = ChatSaid(lead) \o ChatSaid(ms)
  <2> HIDE DEF ms
  <2> QED
    BY <1>2, <1>3, ChatSaidConcat DEF ms
<1>5. lead \o r.messages \in Seq(ChatMessages)
  BY <1>2, <1>3
<1> QED
  BY <1>1, <1>2, <1>3, <1>4, <1>5

\* Whatever a client of a format has recorded: what the model is shown of it.
THEOREM TranslationKeepsWords ==
    ASSUME RouteTyped, history \in Seq(Recorder(route.api)), prompt = Translated(history),
           route.via = "chat" => prompt.ok
    PROVE  PromptLines = SystemOf(HistoryLines) \o OthersOf(HistoryLines)
<1> DEFINE body == AsResponses(history)
<1>1. /\ body.instructions \in Seq(Nat) /\ body.input \in Seq(Items)
      /\ Lines("system", Each(Text, body.instructions)) = SystemOf(HistoryLines)
      /\ ItemsSaid(body.input) = OthersOf(HistoryLines)
  BY FirstTranslation
<1>2. CASE route.via = "chat"
  <2>1. prompt = ResponsesToChatRequest(body)
    BY <1>2 DEF Translated
  <2>2. PromptLines = ChatSaid(prompt.messages)
    BY <1>2 DEF PromptLines, ChatSaid
  <2> HIDE DEF body
  <2>3. ChatSaid(prompt.messages) = Lines("system", Each(Text, body.instructions)) \o ItemsSaid(body.input)
    BY <1>1, <1>2, <2>1, SecondTranslation
  <2> QED
    BY <1>1, <2>2, <2>3
<1>3. CASE route.via # "chat"
  <2>1. prompt.instructions = body.instructions /\ prompt.input = body.input
    BY <1>3 DEF Translated
  <2>2. PromptLines = Lines("system", Each(Text, prompt.instructions)) \o ItemsSaid(prompt.input)
    BY <1>3 DEF PromptLines, ItemsSaid
  <2> QED
    BY <1>1, <2>1, <2>2
<1> QED
  BY <1>2, <1>3
-----------------------------------------------------------------------------
(* What a client records of a turn.                                         *)

Spoke == Texts \union Calls
Wrote == Texts \union Results

\* A part is of one kind.
LEMMA KindsOfParts ==
    ASSUME NEW p \in Parts
    PROVE  /\ p \in Texts <=> p.kind = "text"
           /\ p \in Calls <=> p.kind = "call"
           /\ p \in Results <=> p.kind = "result"
  BY DEF Parts, Texts, Calls, Results

\* The texts, the calls and the results among parts, kept.
LEMMA PartsSorted ==
    ASSUME NEW parts \in Seq(Parts)
    PROVE  /\ TextsOf(parts) = Kept(Parts, Texts, parts) /\ TextsOf(parts) \in Seq(Texts)
           /\ CallsOf(parts) = Kept(Parts, Calls, parts) /\ CallsOf(parts) \in Seq(Calls)
           /\ Those(parts, LAMBDA p : p.kind = "result") = Kept(Parts, Results, parts)
           /\ Kept(Parts, Results, parts) \in Seq(Results)
<1>1. \A i \in DOMAIN parts : parts[i] \in Parts
  OBVIOUS
<1>2. [i \in DOMAIN parts |-> IF parts[i].kind = "text" THEN <<parts[i]>> ELSE <<>>]
         = Mapped(Picks(Parts, Texts), parts)
  BY <1>1, KindsOfParts DEF Mapped, Picks
<1>3. [i \in DOMAIN parts |-> IF parts[i].kind = "call" THEN <<parts[i]>> ELSE <<>>]
         = Mapped(Picks(Parts, Calls), parts)
  BY <1>1, KindsOfParts DEF Mapped, Picks
<1>4. [i \in DOMAIN parts |-> IF parts[i].kind = "result" THEN <<parts[i]>> ELSE <<>>]
         = Mapped(Picks(Parts, Results), parts)
  BY <1>1, KindsOfParts DEF Mapped, Picks
<1>5. TextsOf(parts) = Kept(Parts, Texts, parts)
  BY <1>2 DEF TextsOf, Those, Kept, Joint
<1>6. CallsOf(parts) = Kept(Parts, Calls, parts)
  BY <1>3 DEF CallsOf, Those, Kept, Joint
<1>7. Those(parts, LAMBDA p : p.kind = "result") = Kept(Parts, Results, parts)
  BY <1>4 DEF Those, Kept, Joint
<1>8. Parts \intersect Texts = Texts /\ Parts \intersect Calls = Calls /\ Parts \intersect Results = Results
  BY DEF Parts
<1>9. /\ Kept(Parts, Texts, parts) \in Seq(Texts) /\ Kept(Parts, Calls, parts) \in Seq(Calls)
      /\ Kept(Parts, Results, parts) \in Seq(Results)
  BY <1>8, KeptTyped
<1> QED
  BY <1>5, <1>6, <1>7, <1>9

\* The ids of texts and of results.
LEMMA IdsTyped ==
    ASSUME NEW parts \in Seq(Parts)
    PROVE  Each(LAMBDA p : p.id, parts) \in Seq(Nat)
<1>1. \A i \in DOMAIN parts : parts[i] \in Parts /\ parts[i].id \in Nat
  BY DEF Parts, Texts, Calls, Results
<1>2. Len(parts) \in Nat /\ DOMAIN parts = 1..Len(parts)
  OBVIOUS
<1>3. Each(LAMBDA p : p.id, parts) \in [1..Len(parts) -> Nat]
  BY <1>1, <1>2 DEF Each
<1> QED
  BY <1>2, <1>3, IsSequence

\* What the model and what the client say are parts, and the client calls nothing.
LEMMA SpokenHeard ==
    /\ \A parts \in Seq(Spoke) : parts \in Seq(Parts)
    /\ \A parts \in Seq(Wrote) : parts \in Seq(Parts) /\ Kept(Parts, Calls, parts) = <<>>
<1>1. Spoke \subseteq Parts /\ Wrote \subseteq Parts /\ Wrote \subseteq Parts \ Calls
  <2>1. Spoke \subseteq Parts /\ Wrote \subseteq Parts
    BY DEF Spoke, Wrote, Parts
  <2>2. \A p \in Wrote : p.kind # "call"
    BY DEF Wrote, Texts, Results
  <2>3. \A p \in Calls : p.kind = "call"
    BY DEF Calls
  <2> QED
    BY <2>1, <2>2, <2>3
<1>2. ASSUME NEW parts \in Seq(Wrote) PROVE parts \in Seq(Parts) /\ Kept(Parts, Calls, parts) = <<>>
  <2>1. parts \in Seq(Parts) /\ parts \in Seq(Parts \ Calls)
    BY <1>1
  <2> QED
    BY <2>1, KeptNone
<1>3. ASSUME NEW parts \in Seq(Spoke) PROVE parts \in Seq(Parts)
  BY <1>1
<1> QED
  BY <1>2, <1>3

\* Of members one of which is to be kept, something is.
LEMMA KeptFinds ==
    ASSUME NEW A, NEW K, NEW s \in Seq(A), NEW i \in DOMAIN s, s[i] \in K
    PROVE  Kept(A, K, s) # <<>>
<1> DEFINE T == {r \in Seq(A) : Kept(A, K, r) = <<>> => \A j \in DOMAIN r : r[j] \notin K}
<1>1. <<>> \in T
  OBVIOUS
<1>2. ASSUME NEW r \in Seq(A), NEW x \in A, r \in T PROVE Append(r, x) \in T
  <2>1. Kept(A, K, Append(r, x)) = IF x \in K THEN Append(Kept(A, K, r), x) ELSE Kept(A, K, r)
    BY KeptAppend
  <2>2. Kept(A, K, r) \in Seq(A \intersect K)
    BY KeptTyped
  <2> DEFINE k == Kept(A, K, r)
             more == Append(r, x)
  <2>3. Append(k, x) # <<>>
    <3> HIDE DEF k
    <3> QED
      BY <2>2
  <2>4. \A j \in DOMAIN more : more[j] = x \/ (j \in DOMAIN r /\ more[j] = r[j])
    OBVIOUS
  <2>5. more \in Seq(A)
    OBVIOUS
  <2> HIDE DEF more
  <2>6. Kept(A, K, more) = <<>> => \A j \in DOMAIN more : more[j] \notin K
    BY <1>2, <2>1, <2>3, <2>4 DEF more
  <2> QED
    BY <2>5, <2>6 DEF more
<1> HIDE DEF T
<1>3. s \in T
  BY <1>1, <1>2, SequencesGrow
<1> QED
  BY <1>3 DEF T

\* Whoever says anything says a text, or a call or a result.
LEMMA SomethingSaid ==
    ASSUME NEW parts \in Seq(Parts), parts # <<>>
    PROVE  /\ parts \in Seq(Spoke) => TextsOf(parts) # <<>> \/ CallsOf(parts) # <<>>
           /\ parts \in Seq(Wrote) => TextsOf(parts) # <<>> \/ Kept(Parts, Results, parts) # <<>>
<1>1. 1 \in DOMAIN parts
  OBVIOUS
<1>2. /\ parts[1] \in Texts => TextsOf(parts) # <<>>
      /\ parts[1] \in Calls => CallsOf(parts) # <<>>
      /\ parts[1] \in Results => Kept(Parts, Results, parts) # <<>>
  BY <1>1, KeptFinds, PartsSorted
<1>3. \A S : parts \in Seq(S) => parts[1] \in S
  BY <1>1
<1> QED
  BY <1>2, <1>3 DEF Spoke, Wrote

\* What one side says: a client records it in the format of the route.
SaysAs(role, parts) ==
    \/ role = "assistant" /\ parts \in Seq(Spoke)
    \/ role = "user" /\ parts \in Seq(Wrote)

\* A part makes an item.
LEMMA ItemRecorded ==
    ASSUME NEW role \in {"user", "assistant"}, NEW p \in Parts
    PROVE  (CASE p.kind = "text"   -> Message(role, <<p.id>>)
              [] p.kind = "call"   -> CallItem(p.id, p.tool)
              [] p.kind = "result" -> OutputItem(p.id)) \in Items
<1>1. CASE p \in Texts
  <2>1. p.kind = "text" /\ <<p.id>> \in Seq(Nat)
    BY <1>1 DEF Texts
  <2>2. Message(role, <<p.id>>) \in Items
    BY <2>1, ItemLinesOf
  <2> QED
    BY <2>1, <2>2
<1>2. CASE p \in Calls
  <2>1. p.kind = "call" /\ p.id \in Nat /\ p.tool \in AnyTools
    BY <1>2 DEF Calls
  <2>2. CallItem(p.id, p.tool) \in Items
    BY <2>1, ItemLinesOf
  <2> QED
    BY <2>1, <2>2
<1>3. CASE p \in Results
  <2>1. p.kind = "result" /\ p.id \in Nat
    BY <1>3 DEF Results
  <2>2. OutputItem(p.id) \in Items
    BY <2>1, ItemLinesOf
  <2> QED
    BY <2>1, <2>2
<1> QED
  BY <1>1, <1>2, <1>3 DEF Parts

\* What is recorded is in the format of the route.
LEMMA RecordTyped ==
    ASSUME RouteTyped, NEW role, NEW parts, SaysAs(role, parts)
    PROVE  Recorded(role, parts) \in Seq(Recorder(route.api))
<1>0. role \in {"user", "assistant"} /\ parts \in Seq(Parts)
  BY SpokenHeard DEF SaysAs
<1>1. CASE parts = <<>>
  <2>1. Recorded(role, parts) = <<>>
    BY <1>1 DEF Recorded
  <2> QED
    BY <2>1
<1>2. CASE parts # <<>> /\ route.api = "messages"
  <2> DEFINE m == [role |-> role, blocks |-> parts]
  <2>1. Recorded(role, parts) = <<m>>
    BY <1>2 DEF Recorded
  <2>2. m \in BlockMessages
    <3>1. m \in AssistantMessages \/ m \in UserMessages
      BY DEF SaysAs, AssistantMessages, UserMessages, Spoke, Wrote
    <3> QED
      BY <3>1 DEF BlockMessages, Turned
  <2> HIDE DEF m
  <2> QED
    BY <1>2, <2>1, <2>2 DEF Recorder
<1>3. CASE parts # <<>> /\ route.api = "responses"
  <2> DEFINE f == [i \in DOMAIN parts |->
                     CASE parts[i].kind = "text"   -> Message(role, <<parts[i].id>>)
                       [] parts[i].kind = "call"   -> CallItem(parts[i].id, parts[i].tool)
                       [] parts[i].kind = "result" -> OutputItem(parts[i].id)]
  <2>1. Recorded(role, parts) = f
    BY <1>3 DEF Recorded, Each
  <2>2. Len(parts) \in Nat /\ DOMAIN parts = 1..Len(parts) /\ \A i \in DOMAIN parts : parts[i] \in Parts
    BY <1>0
  <2>3. f \in [1..Len(parts) -> Items]
    BY <1>0, <2>2, ItemRecorded
  <2> HIDE DEF f
  <2>4. f \in Seq(Items)
    BY <2>2, <2>3, IsSequence
  <2> QED
    BY <1>3, <2>1, <2>4 DEF Recorder
<1>4. CASE parts # <<>> /\ route.api = "chat"
  <2> DEFINE results == Kept(Parts, Results, parts)
             texts == Each(LAMBDA p : p.id, TextsOf(parts))
             m == ChatMessage(role, texts, CallsOf(parts))
             answers == Each(LAMBDA p : ToolMessage(p.id), results)
             words == IF results # <<>> /\ texts = <<>> THEN <<>> ELSE <<m>>
  <2>1. Recorded(role, parts) = answers \o words
    BY <1>0, <1>4, PartsSorted DEF Recorded
  <2>2. texts \in Seq(Nat)
    <3>1. TextsOf(parts) \in Seq(Parts)
      <4>1. TextsOf(parts) \in Seq(Texts)
        BY <1>0, PartsSorted
      <4>2. Texts \subseteq Parts
        BY DEF Parts
      <4> QED
        BY <4>1, <4>2
    <3> QED
      BY <3>1, IdsTyped
  <2>3. m \in ChatRecords \/ (results # <<>> /\ texts = <<>>)
    <3>0. texts = <<>> <=> TextsOf(parts) = <<>>
      <4>1. TextsOf(parts) \in Seq(Texts)
        BY <1>0, PartsSorted
      <4> DEFINE ts == TextsOf(parts)
      <4> HIDE DEF ts
      <4>2. Each(LAMBDA p : p.id, ts) = <<>> <=> ts = <<>>
        BY <4>1 DEF ts, Each
      <4> QED
        BY <4>2 DEF ts
    <3>1. m = [role |-> role, texts |-> texts, calls |-> CallsOf(parts), id |-> 0]
      BY DEF ChatMessage
    <3>2. CASE role = "assistant"
      <4>1. CallsOf(parts) \in Seq(Calls)
        BY <1>0, PartsSorted
      <4>3. texts # <<>> \/ CallsOf(parts) # <<>>
        BY <1>0, <1>4, <3>0, <3>2, SomethingSaid DEF SaysAs
      <4> HIDE DEF m, texts
      <4>2. m \in Replies
        BY <2>2, <3>1, <3>2, <4>1, <4>3 DEF Replies
      <4> QED
        BY <4>2 DEF ChatRecords
    <3>3. CASE role # "assistant"
      <4>1. role = "user" /\ CallsOf(parts) = <<>>
        <5>1. role = "user" /\ parts \in Seq(Wrote)
          BY <3>3 DEF SaysAs
        <5> QED
          BY <5>1, SpokenHeard, PartsSorted
      <4>3. texts # <<>> \/ results # <<>>
        BY <1>0, <1>4, <3>0, <4>1, SomethingSaid DEF SaysAs
      <4> HIDE DEF m, texts, results
      <4>2. texts # <<>> => m \in UserRemarks
        BY <2>2, <3>1, <4>1 DEF UserRemarks
      <4> QED
        BY <4>2, <4>3 DEF ChatRecords
    <3> QED
      BY <3>2, <3>3
  <2>4. answers \in Seq(ChatRecords)
    <3>1. results \in Seq(Results)
      BY <1>0, PartsSorted
    <3> HIDE DEF results
    <3>2. Len(results) \in Nat /\ DOMAIN results = 1..Len(results) /\ \A i \in DOMAIN results : results[i] \in Results
      BY <3>1
    <3>3. \A p \in Results : ToolMessage(p.id) \in ChatRecords
      BY DEF Results, ToolMessage, Answers, ChatRecords
    <3>4. answers \in [1..Len(results) -> ChatRecords]
      BY <3>2, <3>3 DEF Each
    <3> QED
      BY <3>2, <3>4, IsSequence
  <2>5. words \in Seq(ChatRecords)
    <3> HIDE DEF m, results, texts
    <3>1. (m \in ChatRecords => <<m>> \in Seq(ChatRecords)) /\ <<>> \in Seq(ChatRecords)
      OBVIOUS
    <3> QED
      BY <2>3, <3>1
  <2> HIDE DEF answers, words
  <2>6. answers \o words \in Seq(ChatRecords)
    BY <2>4, <2>5
  <2> QED
    BY <1>4, <2>1, <2>6 DEF Recorder
<1> QED
  BY <1>1, <1>2, <1>3, <1>4 DEF RouteTyped, Apis

\* The results a client sends, in whatever order.
LEMMA OrdersTyped ==
    ASSUME NEW parts \in Seq(Spoke), NEW asked \in SUBSET DOMAIN parts,
           NEW order \in SetToSeqs({parts[i].id : i \in asked})
    PROVE  /\ Each(Result, order) \in Seq(Results) /\ Each(Result, order) \in Seq(Wrote)
           /\ order = <<>> <=> Each(Result, order) = <<>>
           /\ order # <<>> => parts # <<>>
<1> DEFINE ids == {parts[i].id : i \in asked}
<1>1. ids \in SUBSET Nat
  <2>1. \A i \in DOMAIN parts : parts[i] \in Spoke
    OBVIOUS
  <2> QED
    BY <2>1 DEF Spoke, Texts, Calls
<1>2. IsFiniteSet(ids)
  <2>1. IsFiniteSet(DOMAIN parts)
    <3>1. DOMAIN parts = 1..Len(parts) /\ 1 \in Int /\ Len(parts) \in Int
      OBVIOUS
    <3> QED
      BY <3>1, FS_Interval
  <2>2. IsFiniteSet(asked)
    BY <2>1, FS_Subset
  <2> DEFINE f == [i \in asked |-> parts[i].id]
  <2>3. f \in Surjection(asked, ids)
    BY DEF Surjection
  <2> HIDE DEF f, ids
  <2> QED
    BY <2>2, <2>3, FS_Surjection
<1>3. Cardinality(ids) \in Nat
  BY <1>2, FS_CardinalityType
<1>4. order \in [1..Cardinality(ids) -> ids]
  BY DEF SetToSeqs
<1>45. order # <<>> => parts # <<>>
  <2> SUFFICES ASSUME parts = <<>> PROVE order = <<>>
    OBVIOUS
  <2>1. ids = {}
    OBVIOUS
  <2>2. Cardinality(ids) = 0
    BY <2>1, FS_EmptySet
  <2> HIDE DEF ids
  <2> QED
    BY <1>4, <2>2
<1> HIDE DEF ids
<1> DEFINE n == Cardinality(ids)
           r == Each(Result, order)
<1>5. r \in [1..n -> Results] /\ DOMAIN order = 1..n
  <2>1. DOMAIN order = 1..n /\ \A i \in 1..n : order[i] \in Nat
    BY <1>1, <1>4
  <2>2. \A id \in Nat : Result(id) \in Results
    BY DEF Result, Results
  <2> QED
    BY <2>1, <2>2 DEF Each
<1>6. order \in Seq(Nat)
  BY ZenonT(30), <1>1, <1>3, <1>4, IsSequence
<1> HIDE DEF r, n
<1>7. r \in Seq(Results) /\ Len(r) = n
  BY <1>3, <1>5, IsSequence DEF n
<1>8. r \in Seq(Wrote)
  BY <1>7 DEF Wrote
<1>9. order = <<>> <=> r = <<>>
  BY <1>5, <1>6, <1>7
<1> QED
  BY <1>45, <1>7, <1>8, <1>9 DEF r
-----------------------------------------------------------------------------
(* The registry of tools.                                                   *)

\* The tools one entry of the tool list declares.
DeclaredBy(ts, i) ==
    CASE ts[i].type = "namespace" ->
             [j \in DOMAIN ts[i].tools |->
                 [upstream |-> NamespacedName(i, j, ts[i].tools[j].name),
                  tool |-> [ts[i].tools[j] EXCEPT !.space = ts[i].name]]]
      [] ts[i].type = "tool" -> <<[upstream |-> ts[i].tool.name, tool |-> ts[i].tool]>>

Declarations(ts) == UNION {{DeclaredBy(ts, i)[j] : j \in DOMAIN DeclaredBy(ts, i)} : i \in DOMAIN ts}

\* What an entry of the tool list declares.
LEMMA DeclaredByTyped ==
    ASSUME NEW ts \in Seq(Entries), NEW i \in DOMAIN ts
    PROVE  /\ DeclaredBy(ts, i) \in Seq(Declarations(ts))
           /\ \A j \in DOMAIN DeclaredBy(ts, i) : DeclaredBy(ts, i)[j].tool \in AnyTools
<1> DEFINE f == DeclaredBy(ts, i)
<1>0. ts[i] \in Entries
  OBVIOUS
<1>1. \A j \in DOMAIN f : f[j] \in Declarations(ts)
  BY DEF Declarations
<1>2. CASE ts[i] \in [type : {"namespace"}, name : Spaces, tools : Seq(Tools)]
  <2> DEFINE n == Len(ts[i].tools)
  <2>1. ts[i].type = "namespace" /\ ts[i].name \in Spaces /\ ts[i].tools \in Seq(Tools)
    BY <1>2
  <2>2. n \in Nat /\ DOMAIN ts[i].tools = 1..n /\ \A j \in 1..n : ts[i].tools[j] \in Tools
    BY <2>1
  <2>3. f = [j \in DOMAIN ts[i].tools |->
                 [upstream |-> NamespacedName(i, j, ts[i].tools[j].name),
                  tool |-> [ts[i].tools[j] EXCEPT !.space = ts[i].name]]]
    BY <2>1 DEF DeclaredBy
  <2>4. \A tool \in Tools, space \in Spaces : [tool EXCEPT !.space = space] \in AnyTools
    BY DEF Tools, AnyTools, AnyNames
  <2>5. ASSUME NEW j \in DOMAIN f PROVE f[j].tool \in AnyTools
    BY <2>1, <2>2, <2>3, <2>4
  <2>6. DOMAIN f = 1..n
    BY <2>2, <2>3
  <2>7. f = [j \in 1..n |-> f[j]]
    BY <2>2, <2>3
  <2> HIDE DEF f, n
  <2>8. f \in [1..n -> Declarations(ts)]
    BY <1>1, <2>6, <2>7
  <2> QED
    BY <2>2, <2>5, <2>8, IsSequence DEF f
<1>3. CASE ts[i] \in [type : {"tool"}, tool : Tools]
  <2> DEFINE d == [upstream |-> ts[i].tool.name, tool |-> ts[i].tool]
  <2>1. f = <<d>>
    BY <1>3 DEF DeclaredBy
  <2>2. d.tool \in AnyTools
    <3>1. ts[i].tool \in Tools
      BY <1>3
    <3>2. Tools \subseteq AnyTools
      BY DEF Tools, AnyTools, AnyNames
    <3> QED
      BY <3>1, <3>2
  <2> HIDE DEF d, f
  <2>3. DOMAIN f = {1} /\ f[1] = d
    BY <2>1
  <2>4. f \in Seq(Declarations(ts))
    BY <1>1, <2>1, <2>3
  <2> QED
    BY <2>2, <2>3, <2>4 DEF f
<1> QED
  BY <1>0, <1>2, <1>3 DEF Entries

\* What a tool list declares.
LEMMA DeclaredTyped ==
    ASSUME NEW ts \in Seq(Entries)
    PROVE  /\ Declared(ts) \in Seq(Declarations(ts))
           /\ \A d \in Declarations(ts) : d.tool \in AnyTools
<1> DEFINE n == Len(ts)
           A == Declarations(ts)
           B == Seq(A)
           ss == [i \in DOMAIN ts |-> DeclaredBy(ts, i)]
<1>1. n \in Nat /\ DOMAIN ts = 1..n
  OBVIOUS
<1>2. ss \in [1..n -> B]
  BY <1>1, DeclaredByTyped
<1>3. ss \in Seq(B)
  <2> HIDE DEF ss, B
  <2> QED
    BY <1>1, <1>2, IsSequence
<1>4. FlattenSeq(ss) = Declared(ts)
  BY DEF Declared, DeclaredBy
<1>5. Declared(ts) \in Seq(A)
  <2> HIDE DEF ss, A
  <2> QED
    BY <1>3, <1>4, FlattenType
<1>6. ASSUME NEW d \in Declarations(ts) PROVE d.tool \in AnyTools
  <2>1. PICK i \in DOMAIN ts : \E j \in DOMAIN DeclaredBy(ts, i) : d = DeclaredBy(ts, i)[j]
    BY DEF Declarations
  <2> QED
    BY <2>1, DeclaredByTyped
<1> QED
  BY <1>5, <1>6

\* What register_tool has of the tools so far.
Upstreams(D)  == {d.upstream : d \in D}
Registries(D) == [ok : BOOLEAN, tools : UNION {[us -> AnyTools] : us \in SUBSET Upstreams(D)}]

ToolsKnown(D) == \A d \in D : d.tool \in AnyTools

\* A tool is registered and none is forgotten, whether its name clashes or not.
LEMMA ToolRegistered ==
    ASSUME NEW D, ToolsKnown(D), NEW reg \in Registries(D), NEW d \in D
    PROVE  /\ RegisterTool(reg, d) \in Registries(D)
           /\ d.upstream \in DOMAIN RegisterTool(reg, d).tools
           /\ DOMAIN reg.tools \subseteq DOMAIN RegisterTool(reg, d).tools
<1> DEFINE r == RegisterTool(reg, d)
<1>0. PICK us \in SUBSET Upstreams(D) : reg.tools \in [us -> AnyTools]
  BY DEF Registries
<1>1. reg.ok \in BOOLEAN /\ reg = [ok |-> reg.ok, tools |-> reg.tools]
  BY DEF Registries
<1>2. \A b \in BOOLEAN, f \in UNION {[vs -> AnyTools] : vs \in SUBSET Upstreams(D)} :
         [ok |-> b, tools |-> f] \in Registries(D)
  BY DEF Registries
<1>3. CASE d.upstream \in DOMAIN reg.tools
  <2>1. r = [reg EXCEPT !.ok = FALSE]
    BY <1>3 DEF RegisterTool
  <2>2. \A b \in BOOLEAN : [reg EXCEPT !.ok = b] = [ok |-> b, tools |-> reg.tools]
    BY DEF Registries
  <2>3. r = [ok |-> FALSE, tools |-> reg.tools]
    BY <2>1, <2>2
  <2> HIDE DEF r
  <2>4. r \in Registries(D)
    BY <1>0, <1>2, <2>3
  <2>5. r.tools = reg.tools
    BY <2>3
  <2> QED
    BY <1>3, <2>4, <2>5 DEF r
<1>4. CASE d.upstream \notin DOMAIN reg.tools
  <2> DEFINE f == With(reg.tools, d.upstream, d.tool)
             vs == us \union {d.upstream}
  <2>1. r = [reg EXCEPT !.tools = With(@, d.upstream, d.tool)]
    BY <1>4 DEF RegisterTool
  <2>2. f \in [vs -> AnyTools] /\ vs \in SUBSET Upstreams(D)
    <3>1. d.tool \in AnyTools /\ d.upstream \in Upstreams(D)
      BY DEF ToolsKnown, Upstreams
    <3>2. DOMAIN reg.tools = us
      BY <1>0
    <3> QED
      BY <1>0, <3>1, <3>2 DEF With
  <2> HIDE DEF f, vs
  <2>3. r = [ok |-> reg.ok, tools |-> f]
    BY <1>1, <2>1 DEF f
  <2> HIDE DEF r
  <2>4. r \in Registries(D) /\ r.tools = f
    BY <1>1, <1>2, <2>2, <2>3
  <2>5. DOMAIN f = vs /\ DOMAIN reg.tools = us
    BY <1>0, <2>2
  <2> QED
    BY <2>4, <2>5 DEF r, vs
<1> QED
  BY <1>3, <1>4

\* translate_tools goes through the declared tools.
ToolStep(D) == [x \in Registries(D) \X D |-> RegisterTool(x[1], x[2])]

ToolsFolding(F, start, s, D) ==
    F = [p \in SUBSET DOMAIN s |-> IF p = {} THEN start ELSE RegisterTool(F[p \ {Max(p)}], s[Max(p)])]

\* Registering a tool is a step from registry to registry.
LEMMA ToolsSteps ==
    ASSUME NEW D, ToolsKnown(D)
    PROVE  Steps(ToolStep(D), Registries(D), D)
  BY ToolRegistered DEF Steps, ToolStep

\* The fold over the declarations is a fold by that step.
LEMMA ToolsFolded ==
    ASSUME NEW D, ToolsKnown(D), NEW start \in Registries(D), NEW s \in Seq(D)
    PROVE  FoldLeft(RegisterTool, start, s) = Folded(ToolStep(D), start, s)
<1> DEFINE n == Len(s)
<1>0. n \in Nat /\ DOMAIN s = 1..n /\ Steps(ToolStep(D), Registries(D), D)
  BY ToolsSteps
<1>1. PICK F \in [SUBSET (1..n) -> Registries(D)] : FoldsUp(F, ToolStep(D), start, s)
  BY <1>0, FoldsUpExists
<1>2. ToolsFolding(F, start, s, D)
  <2>1. ASSUME NEW p \in SUBSET DOMAIN s
        PROVE  F[p] = IF p = {} THEN start ELSE RegisterTool(F[p \ {Max(p)}], s[Max(p)])
    <3>1. F[p] = IF p = {} THEN start ELSE ToolStep(D)[<<F[p \ {Max(p)}], s[Max(p)]>>]
      BY <1>0, <1>1 DEF FoldsUp
    <3>2. CASE p # {}
      <4>1. Max(p) \in 1..n
        BY <1>0, <3>2, Greatest
      <4>2. F[p \ {Max(p)}] \in Registries(D) /\ s[Max(p)] \in D
        BY <1>0, <4>1
      <4> DEFINE one == F[p \ {Max(p)}]
                 two == s[Max(p)]
      <4> HIDE DEF one, two
      <4>3. ToolStep(D)[<<one, two>>] = RegisterTool(one, two)
        BY <4>2 DEF ToolStep, one, two
      <4> QED
        BY <3>1, <3>2, <4>3 DEF one, two
    <3> QED
      BY <3>1, <3>2
  <2> QED
    BY <1>0, <2>1 DEF ToolsFolding
<1> DEFINE G == CHOOSE G : ToolsFolding(G, start, s, D)
           f == [i \in 0..n |-> G[1..i]]
<1>3. ToolsFolding(G, start, s, D)
  BY <1>2
<1>4. FoldLeft(RegisterTool, start, s) = G[1..n]
  BY <1>0 DEF FoldLeft, MapThenFoldSet, ToolsFolding
<1> HIDE DEF G
<1>5. ASSUME NEW p \in SUBSET (1..n)
      PROVE  G[p] = IF p = {} THEN start ELSE RegisterTool(G[p \ {Max(p)}], s[Max(p)])
  BY <1>0, <1>3 DEF ToolsFolding
<1>6. f[0] = start
  <2>1. {} \in SUBSET (1..n) /\ 1..0 = {} /\ 0 \in 0..n
    BY <1>0
  <2>2. G[{}] = start
    BY <1>5, <2>1
  <2> QED
    BY <2>1, <2>2
<1>7. ASSUME NEW i \in 1..n, f[i - 1] \in Registries(D)
      PROVE  f[i] = ToolStep(D)[<<f[i - 1], s[i]>>]
  <2>1. 1..i \in SUBSET (1..n) /\ 1..i # {} /\ Max(1..i) = i /\ (1..i) \ {i} = 1..(i - 1)
    BY <1>0, Top
  <2>2. G[1..i] = RegisterTool(G[1..(i - 1)], s[i])
    BY <1>5, <2>1
  <2>3. f[i] = G[1..i] /\ f[i - 1] = G[1..(i - 1)] /\ s[i] \in D
    BY <1>0
  <2> DEFINE one == f[i - 1]
             two == s[i]
  <2>4. f[i] = RegisterTool(one, two) /\ one \in Registries(D) /\ two \in D
    BY <1>7, <2>2, <2>3
  <2> HIDE DEF one, two, f
  <2>5. ToolStep(D)[<<one, two>>] = RegisterTool(one, two)
    BY <2>4 DEF ToolStep
  <2> QED
    BY <2>4, <2>5 DEF one, two
<1>8. f[n] = G[1..n]
  BY <1>0
<1> HIDE DEF f
<1>9. f[n] = Folded(ToolStep(D), start, s)
  BY <1>0, <1>6, <1>7, ChainIs
<1> QED
  BY <1>4, <1>8, <1>9

\* Every declared tool has its name upstream registered.
LEMMA AllRegistered ==
    ASSUME NEW ts \in Seq(Entries)
    PROVE  /\ \A d \in ToSet(Declared(ts)) : d.upstream \in DOMAIN TranslateTools(ts).tools /\ d.tool \in AnyTools
           /\ \A u \in DOMAIN TranslateTools(ts).tools : TranslateTools(ts).tools[u] \in AnyTools
<1> DEFINE D == Declarations(ts)
           start == [ok |-> TRUE, tools |-> <<>>]
           F(s) == Folded(ToolStep(D), start, s)
           All(s) == \A i \in DOMAIN s : s[i].upstream \in DOMAIN F(s).tools
           T == {s \in Seq(D) : All(s)}
<1>0. ToolsKnown(D) /\ Declared(ts) \in Seq(D)
  BY DeclaredTyped DEF ToolsKnown
<1> HIDE DEF D
<1>1. start \in Registries(D)
  <2>1. \A b \in BOOLEAN, f \in UNION {[us -> AnyTools] : us \in SUBSET Upstreams(D)} :
           [ok |-> b, tools |-> f] \in Registries(D)
    BY DEF Registries
  <2>2. <<>> \in [{} -> AnyTools] /\ {} \in SUBSET Upstreams(D)
    OBVIOUS
  <2>3. <<>> \in UNION {[us -> AnyTools] : us \in SUBSET Upstreams(D)}
    BY <2>2
  <2> QED
    BY <2>1, <2>3
<1> HIDE DEF start
<1>2. <<>> \in T
  OBVIOUS
<1>3. ASSUME NEW s \in Seq(D), NEW d \in D, s \in T PROVE Append(s, d) \in T
  <2> DEFINE more == Append(s, d)
  <2>0. Steps(ToolStep(D), Registries(D), D)
    BY <1>0, ToolsSteps
  <2>1. F(s) \in Registries(D) /\ F(more) = ToolStep(D)[<<F(s), d>>]
    BY <1>1, <2>0, FoldedTyped, FoldedAppend
  <2> HIDE DEF F
  <2>2. F(more) = RegisterTool(F(s), d)
    BY <2>1 DEF ToolStep
  <2>3. d.upstream \in DOMAIN F(more).tools /\ DOMAIN F(s).tools \subseteq DOMAIN F(more).tools
    BY <1>0, <2>1, <2>2, ToolRegistered
  <2>4. \A i \in DOMAIN more : more[i] = d \/ (i \in DOMAIN s /\ more[i] = s[i])
    OBVIOUS
  <2>5. more \in Seq(D)
    OBVIOUS
  <2> HIDE DEF more
  <2>6. All(more)
    BY <1>3, <2>3, <2>4
  <2> QED
    BY <2>5, <2>6 DEF more
<1> HIDE DEF T
<1>4. Declared(ts) \in T
  BY <1>0, <1>2, <1>3, SequencesGrow
<1> DEFINE reg == F(Declared(ts))
<1>5. reg \in Registries(D) /\ FoldLeft(RegisterTool, start, Declared(ts)) = reg
  BY <1>0, <1>1, ToolsSteps, FoldedTyped, ToolsFolded
<1>6. TranslateTools(ts).tools = reg.tools
  <2>1. TranslateTools(ts) = [reg EXCEPT !.ok = @ /\ ~NamesClash(ts)]
    BY <1>5 DEF TranslateTools, start
  <2> HIDE DEF reg
  <2>2. \A b : [reg EXCEPT !.ok = b].tools = reg.tools
    BY <1>5 DEF Registries
  <2> QED
    BY <2>1, <2>2
<1>7. \A d \in ToSet(Declared(ts)) : d.upstream \in DOMAIN reg.tools
  BY <1>4 DEF T, ToSet
<1>8. \A d \in ToSet(Declared(ts)) : d.tool \in AnyTools
  BY <1>0 DEF ToolsKnown, ToSet
<1> HIDE DEF reg
<1>9. PICK us : reg.tools \in [us -> AnyTools]
  BY <1>5 DEF Registries
<1> QED
  BY <1>6, <1>7, <1>8, <1>9
-----------------------------------------------------------------------------
(* The turns of a model, and answers that come whole.                       *)

\* The output items of a model.
SaidItems == {Message("assistant", <<t>>) : t \in Nat}
ThoughtItems == {Thought(<<t>>) : t \in Nat}
Outs      == SaidItems \union CallItems \union {Reasoning} \union ThoughtItems

ToolsTyped == tools \in Seq(Entries)

\* Every declared tool is in the registry, under its upstream name.
LEMMA RegisteredTyped ==
    ASSUME ToolsTyped
    PROVE  /\ \A d \in ToSet(Declared(tools)) : d.upstream \in DOMAIN Registered.tools /\ d.tool \in AnyTools
           /\ \A u \in DOMAIN Registered.tools : Registered.tools[u] \in AnyTools
  BY AllRegistered DEF ToolsTyped, Registered

\* A turn of the model.
TurnTyped(turn) ==
    /\ turn \in Seq(Kinds) /\ Len(turn) \in Nat /\ DOMAIN turn = 1..Len(turn)
    /\ \A k \in DOMAIN turn : /\ turn[k].kind \in {"text", "reasoning", "thought", "call"}
                              /\ turn[k].kind = "call" => /\ turn[k].tool \in AnyTools
                                                          /\ turn[k].upstream \in DOMAIN Registered.tools

\* A turn of the model uses declared tools only.
LEMMA TurnsTyped ==
    ASSUME ToolsTyped, NEW turn \in Turns
    PROVE  TurnTyped(turn)
<1>1. turn \in BoundedSeq(Kinds, MaxParts + 2 - 2 * requests)
  BY DEF Turns
<1>2. PICK m \in 0..(MaxParts + 2 - 2 * requests) : turn \in [1..m -> Kinds]
  BY <1>1 DEF BoundedSeq, SeqOf
<1>3. m \in Nat
  OBVIOUS
<1>4. turn \in Seq(Kinds) /\ Len(turn) = m
  BY <1>2, <1>3, IsSequence
<1>5. ASSUME NEW k \in DOMAIN turn
      PROVE  /\ turn[k].kind \in {"text", "reasoning", "thought", "call"}
             /\ turn[k].kind = "call" => /\ turn[k].tool \in AnyTools
                                         /\ turn[k].upstream \in DOMAIN Registered.tools
  <2>1. turn[k] \in Kinds
    BY <1>2
  <2>2. CASE turn[k] \in {[kind |-> x, upstream |-> <<>>, tool |-> NoTool] : x \in {"text", "reasoning", "thought"}}
    BY <2>2
  <2>3. CASE turn[k] \in {[kind |-> "call", upstream |-> d.upstream, tool |-> d.tool] : d \in ToSet(Declared(tools))}
    <3>1. PICK d \in ToSet(Declared(tools)) : turn[k] = [kind |-> "call", upstream |-> d.upstream, tool |-> d.tool]
      BY <2>3
    <3>2. d.upstream \in DOMAIN Registered.tools /\ d.tool \in AnyTools
      BY RegisteredTyped
    <3> QED
      BY <3>1, <3>2
  <2> QED
    BY <2>1, <2>2, <2>3 DEF Kinds
<1> QED
  BY <1>2, <1>3, <1>4, <1>5 DEF TurnTyped

\* Numbers of parts are numbers.
LEMMA IdTyped ==
    ASSUME requests \in Nat, NEW k \in Nat
    PROVE  Id(k) \in Nat
<1>1. MaxParts * requests \in Nat
  BY ConversationAssumption, SMT
<1> QED
  BY <1>1 DEF Id

\* A call item is typed.
LEMMA CallItemTyped ==
    ASSUME NEW id \in Nat, NEW tool \in AnyTools
    PROVE  CallItem(id, tool) \in CallItems
  BY DEF CallItem, CallItems

\* The output of a turn has an item for each member of the turn.
LEMMA OutputTyped ==
    ASSUME ToolsTyped, requests \in Nat, NEW turn, TurnTyped(turn)
    PROVE  /\ Output(turn) \in Seq(Outs) /\ Len(Output(turn)) = Len(turn)
<1> DEFINE n == Len(turn)
           f == Output(turn)
<1>1. n \in Nat /\ DOMAIN turn = 1..n
  BY DEF TurnTyped
<1>2. ASSUME NEW k \in 1..n PROVE ItemAt(turn, k) \in Outs
  <2>0. k \in DOMAIN turn /\ Id(k) \in Nat
    BY <1>1, IdTyped
  <2>1. CASE turn[k].kind = "text"
    BY <2>0, <2>1 DEF ItemAt, Outs, SaidItems
  <2>2. CASE turn[k].kind = "reasoning"
    BY <2>0, <2>2 DEF ItemAt, Outs
  <2>3. CASE turn[k].kind = "call"
    <3> DEFINE tool == IF route.via = "chat" THEN Registered.tools[turn[k].upstream] ELSE turn[k].tool
    <3>1. tool \in AnyTools
      BY <2>0, <2>3, RegisteredTyped DEF TurnTyped
    <3>2. ItemAt(turn, k) = CallItem(Id(k), tool)
      BY <2>0, <2>3 DEF ItemAt
    <3> HIDE DEF tool
    <3> QED
      BY <2>0, <3>1, <3>2, CallItemTyped DEF Outs
  <2>4. CASE turn[k].kind = "thought"
    BY <2>0, <2>4 DEF ItemAt, Outs, ThoughtItems
  <2> QED
    BY <1>1, <2>1, <2>2, <2>3, <2>4 DEF TurnTyped
<1>4. f \in [1..n -> Outs]
  BY <1>1, <1>2 DEF Output
<1> HIDE DEF f, n
<1> QED
  BY <1>1, <1>4, IsSequence DEF f, n

-----------------------------------------------------------------------------
\* What a client takes from the items of a whole answer.
PartsOfItem(item) ==
    IF item.type = "message" THEN Each(Text, item.texts)
    ELSE IF IsFunctionCall(item) THEN <<Call(item.id, item.tool)>> ELSE <<>>

EveryPart(item) == IF item.type = "message" THEN Each(Text, item.texts) ELSE <<Call(item.id, item.tool)>>

\* An output item has one text, or it has an id and a tool.
LEMMA OutTyped ==
    ASSUME NEW item \in Outs
    PROVE  /\ item.type = "message" => \E t \in Nat : item.texts = <<t>>
           /\ item.type # "message" => item.id \in Nat /\ item.tool \in AnyTools
           /\ item.type \in {"message", "call", "reasoning"}
           /\ item.texts = <<>> \/ \E t \in Nat : item.texts = <<t>>
           /\ item.type = "call" => item.texts = <<>>
<1>1. CASE item \in SaidItems
  BY <1>1 DEF SaidItems, Message
<1>2. CASE item \in CallItems
  BY <1>2 DEF CallItems
<1>3. CASE item = Reasoning
  BY <1>3, NoToolTyped DEF Reasoning
<1>4. CASE item \in ThoughtItems
  BY <1>4, NoToolTyped DEF Reasoning, Thought, ThoughtItems
<1> QED
  BY <1>1, <1>2, <1>3, <1>4 DEF Outs

\* The texts of an item, of whatever type.
TextsWithin(item) == Each(Text, item.texts)

\* One number names one text.
LEMMA TextAlone ==
    ASSUME NEW t \in Nat
    PROVE  Each(Text, <<t>>) = <<Text(t)>> /\ <<Text(t)>> \in Seq(Spoke)
<1>1. Text(t) \in Spoke
  BY TextTyped DEF Spoke
<1>2. Each(Text, <<t>>) = <<Text(t)>>
  <2>1. <<>> \in Seq(Nat) /\ Append(<<>>, t) = <<t>>
    OBVIOUS
  <2>2. Each(Text, Append(<<>>, t)) = Append(Each(Text, <<>>), Text(t))
    BY <2>1, NamedAppend
  <2>3. Append(<<>>, Text(t)) = <<Text(t)>>
    OBVIOUS
  <2> QED
    BY <2>1, <2>2, <2>3, NamedEmpty
<1>3. <<Text(t)>> \in Seq(Spoke)
  BY <1>1
<1> QED
  BY <1>2, <1>3

\* The parts of an output item are what a model can say.
LEMMA PartsOfTyped ==
    ASSUME NEW item \in Outs
    PROVE  PartsOfItem(item) \in Seq(Spoke) /\ EveryPart(item) \in Seq(Spoke)
<1>1. CASE item.type = "message"
  <2>1. PICK t \in Nat : item.texts = <<t>>
    BY <1>1, OutTyped
  <2>2. PartsOfItem(item) = <<Text(t)>> /\ EveryPart(item) = <<Text(t)>>
    BY <1>1, <2>1, TextAlone DEF PartsOfItem, EveryPart
  <2> QED
    BY <2>2, TextAlone
<1>2. CASE item.type # "message"
  <2> DEFINE p == Call(item.id, item.tool)
  <2>1. p \in Spoke
    BY <1>2, OutTyped, PartTyped DEF Spoke
  <2>2. (PartsOfItem(item) = <<p>> \/ PartsOfItem(item) = <<>>) /\ EveryPart(item) = <<p>>
    BY <1>2 DEF PartsOfItem, EveryPart
  <2> HIDE DEF p
  <2>3. <<p>> \in Seq(Spoke) /\ <<>> \in Seq(Spoke)
    BY <2>1
  <2> QED
    BY <2>2, <2>3
<1> QED
  BY <1>1, <1>2

\* A whole Messages answer has parts that a model can say.
LEMMA AnthropicParts ==
    ASSUME NEW output \in Seq(Outs), NEW status
    PROVE  ResponsesToAnthropic(output, status).parts \in Seq(Spoke)
<1> DEFINE g == [item \in Outs |-> PartsOfItem(item)]
<1>1. g \in [Outs -> Seq(Spoke)]
  BY PartsOfTyped
<1>2. \A i \in DOMAIN output : output[i] \in Outs
  OBVIOUS
<1>3. [i \in DOMAIN output |-> PartsOfItem(output[i])] = Mapped(g, output)
  BY <1>2 DEF Mapped
<1>4. ResponsesToAnthropic(output, status).parts = FlattenSeq([i \in DOMAIN output |-> PartsOfItem(output[i])])
  BY DEF ResponsesToAnthropic, Each, PartsOfItem
<1> HIDE DEF g
<1>5. Joint(g, output) \in Seq(Spoke)
  BY <1>1, JointTyped
<1> QED
  BY <1>3, <1>4, <1>5 DEF Joint

\* The items a Responses client has are parts that a model can say.
LEMMA ItemPartsTyped ==
    ASSUME NEW output \in Seq(Outs)
    PROVE  ItemParts(output) \in Seq(Spoke)
<1> DEFINE g == [item \in Outs |-> EveryPart(item)]
<1>1. g \in [Outs -> Seq(Spoke)]
  BY PartsOfTyped
<1>2. \A i \in DOMAIN output : output[i] \in Outs
  OBVIOUS
<1>3. [i \in DOMAIN output |-> EveryPart(output[i])] = Mapped(g, output)
  BY <1>2 DEF Mapped
<1>4. ItemParts(output) = FlattenSeq([i \in DOMAIN output |-> EveryPart(output[i])])
  BY DEF ItemParts, Each, EveryPart
<1> HIDE DEF g
<1>5. Joint(g, output) \in Seq(Spoke)
  BY <1>1, JointTyped
<1> QED
  BY <1>3, <1>4, <1>5 DEF Joint

\* MISSING WithinTyped
LEMMA WithinTyped ==
    ASSUME NEW item \in Outs
    PROVE  TextsWithin(item) \in Seq(Spoke)
<1>1. CASE item.texts = <<>>
  <2>1. Each(Text, <<>>) = <<>> /\ <<>> \in Seq(Spoke)
    BY NamedEmpty
  <2> QED
    BY <1>1, <2>1 DEF TextsWithin
<1>2. ASSUME NEW t \in Nat, item.texts = <<t>> PROVE TextsWithin(item) \in Seq(Spoke)
  BY <1>2, TextAlone DEF TextsWithin
<1> QED
  BY <1>1, <1>2, OutTyped

\* A whole chat answer has parts that a model can say.
LEMMA ChatParts ==
    ASSUME NEW output \in Seq(Outs)
    PROVE  ResponsesToChat(output).parts \in Seq(Spoke)
<1> DEFINE parts == ResponsesToAnthropic(output, "completed").parts
           one == FlattenSeq(Each(LAMBDA item : Each(Text, item.texts), output))
           two == CallsOf(parts)
           g == [item \in Outs |-> TextsWithin(item)]
<1>1. ResponsesToChat(output).parts = one \o two
  BY DEF ResponsesToChat
<1>2. parts \in Seq(Parts)
  BY AnthropicParts, SpokenHeard
<1>3. one = Joint(g, output)
  <2>1. \A i \in DOMAIN output : output[i] \in Outs
    OBVIOUS
  <2>2. [i \in DOMAIN output |-> TextsWithin(output[i])] = Mapped(g, output)
    BY <2>1 DEF Mapped
  <2>3. one = FlattenSeq([i \in DOMAIN output |-> TextsWithin(output[i])])
    BY DEF Each, TextsWithin
  <2> QED
    BY <2>2, <2>3 DEF Joint
<1>4. g \in [Outs -> Seq(Spoke)]
  BY WithinTyped
<1> HIDE DEF parts, g, one
<1>5. one \in Seq(Spoke)
  BY <1>3, <1>4, JointTyped
<1>6. two \in Seq(Calls)
  BY <1>2, PartsSorted
<1> HIDE DEF two
<1>7. two \in Seq(Spoke)
  BY <1>6 DEF Spoke
<1>8. one \o two \in Seq(Spoke)
  BY <1>5, <1>7
<1> QED
  BY <1>1, <1>8

\* The answer of a chat model becomes output items.
LEMMA ChatOutputTyped ==
    ASSUME ToolsTyped, requests \in Nat, NEW turn, TurnTyped(turn), NEW finish
    PROVE  ChatToResponses(ChatAnswer(turn, finish), Registered.tools).output \in Seq(Outs)
<1> DEFINE chat == ChatAnswer(turn, finish)
           reg == Registered.tools
           known == \A i \in DOMAIN chat.calls : chat.calls[i].name \in DOMAIN reg
           texts == IF chat.texts = <<>> THEN <<>> ELSE <<Message("assistant", chat.texts)>>
           items == Each(LAMBDA c : CallItem(c.id, reg[c.name]), chat.calls)
           r == ChatToResponses(chat, reg)
<1> DEFINE n == Len(turn)
           all == [k \in DOMAIN turn |-> k]
           Callers == {k \in 1..n : turn[k].kind = "call"}
           calls == Those(all, LAMBDA k : turn[k].kind = "call")
<1>0. n \in Nat /\ DOMAIN turn = 1..n
  BY DEF TurnTyped
<1>1. calls \in Seq(1..n)
  <2>1. all \in Seq(1..n) /\ DOMAIN all = 1..n /\ \A i \in 1..n : all[i] = i
    <3>1. all \in [1..n -> 1..n]
      BY <1>0
    <3> HIDE DEF all
    <3>2. all \in Seq(1..n)
      BY <1>0, <3>1, IsSequence
    <3> QED
      BY <1>0, <3>1, <3>2 DEF all
  <2>2. [i \in DOMAIN all |-> IF turn[all[i]].kind = "call" THEN <<all[i]>> ELSE <<>>]
           = Mapped(Picks(1..n, Callers), all)
    BY <2>1 DEF Mapped, Picks
  <2> HIDE DEF all, Callers
  <2>3. calls = Kept(1..n, Callers, all)
    BY <2>2 DEF Those, Kept, Joint
  <2>4. Kept(1..n, Callers, all) \in Seq((1..n) \intersect Callers)
    BY <2>1, KeptTyped
  <2> DEFINE c == Kept(1..n, Callers, all)
  <2> HIDE DEF c
  <2>5. c \in Seq(1..n)
    BY <2>4 DEF c
  <2> QED
    BY <2>3, <2>5 DEF c
<1>2. /\ chat.calls = [i \in DOMAIN calls |-> [id |-> Id(calls[i]), name |-> turn[calls[i]].upstream]]
      /\ chat.texts = IF turn[1].kind = "text" THEN <<Id(1)>> ELSE <<>>
  BY DEF ChatAnswer, Each
<1> HIDE DEF all, calls
<1> DEFINE m == Len(calls)
<1>3. m \in Nat /\ DOMAIN calls = 1..m /\ \A i \in 1..m : calls[i] \in 1..n
  BY <1>1
<1>4. DOMAIN chat.calls = 1..m /\ \A i \in 1..m : chat.calls[i].id \in Nat
  <2>1. \A i \in 1..m : chat.calls[i].id = Id(calls[i]) /\ calls[i] \in Nat
    BY <1>2, <1>3
  <2>2. DOMAIN chat.calls = 1..m
    BY <1>2, <1>3
  <2> QED
    BY <2>1, <2>2, IdTyped
<1>5. texts \in Seq(Outs)
  <2>1. Id(1) \in Nat
    BY IdTyped
  <2>2. CASE chat.texts = <<>>
    <3>1. texts = <<>> /\ <<>> \in Seq(Outs)
      BY <2>2
    <3> QED
      BY <3>1
  <2>3. CASE chat.texts # <<>>
    <3> DEFINE x == Message("assistant", <<Id(1)>>)
    <3>1. texts = <<x>>
      BY <1>2, <2>3
    <3>2. x \in Outs
      BY <2>1 DEF Outs, SaidItems
    <3> HIDE DEF x
    <3>3. <<x>> \in Seq(Outs)
      BY <3>2
    <3> QED
      BY <3>1, <3>3
  <2> QED
    BY <2>2, <2>3
<1> HIDE DEF chat
<1>6. known => items \in Seq(Outs)
  <2> SUFFICES ASSUME known PROVE items \in Seq(Outs)
    OBVIOUS
  <2>1. \A i \in 1..m : chat.calls[i].id \in Nat /\ reg[chat.calls[i].name] \in AnyTools
    BY <1>4, RegisteredTyped
  <2>2. \A i \in 1..m : CallItem(chat.calls[i].id, reg[chat.calls[i].name]) \in Outs
    BY <2>1, CallItemTyped DEF Outs
  <2>3. items \in [1..m -> Outs]
    BY <1>4, <2>2 DEF Each
  <2> HIDE DEF items, m
  <2> QED
    BY <1>3, <2>3, IsSequence
<1>7. \/ r.output = <<>>
      \/ known /\ r.output = texts \o items
  <2> DEFINE unique == \A i, j \in DOMAIN chat.calls : chat.calls[i].id = chat.calls[j].id => i = j
             good == chat.finish \in {"stop", "tool_calls", "length", "content_filter"} /\ unique /\ known
             one == [ok |-> TRUE, status |-> Status(chat.finish), output |-> texts \o items]
             two == [ok |-> FALSE, status |-> "failed", output |-> <<>>]
  <2>1. r = IF good THEN one ELSE two
    BY DEF ChatToResponses
  <2>2. one.output = texts \o items /\ two.output = <<>>
    OBVIOUS
  <2>3. good => known
    OBVIOUS
  <2> HIDE DEF good, one, two, r, known
  <2> QED
    BY <2>1, <2>2, <2>3
<1>8. <<>> \in Seq(Outs)
  OBVIOUS
<1> HIDE DEF texts, items, known, r
<1>9. known => texts \o items \in Seq(Outs)
  BY <1>5, <1>6
<1>10. r.output \in Seq(Outs)
  BY <1>7, <1>8, <1>9
<1> QED
  BY <1>10 DEF r, chat, reg
-----------------------------------------------------------------------------
(* The events of a turn.                                                    *)

\* The events of a stream: those on the way, and the one that ends it.
Live == [type : {"created", "added", "delta", "done"}, index : Nat, item : Outs, outcome : {None}, output : {<<>>}]
Ends == [type : {"terminal"}, index : {0}, item : {Reasoning}, outcome : {"completed", "incomplete", "filtered"},
         output : Seq(Outs)]
Happenings == Live \union Ends

EventOf(output, type, k) == Event(type, k - 1, output[k], None, <<>>)

Orders == {<<"added", "delta", "done">>, <<"added", "delta">>, <<"added", "added", "delta", "done">>}

\* The first n items, each with its events.
Begun(output, types, n) == <<Created>> \o FlattenSeq(Firsts(Bursts(output, types), n))
\* And then the first n of them closed.
Closed(output, types, n) == Begun(output, types, Len(output)) \o FlattenSeq(Firsts(Bursts(output, <<"done">>), n))

\* The events about an item are events before the end.
LEMMA LiveTyped ==
    ASSUME NEW output \in Seq(Outs), NEW k \in DOMAIN output, NEW type \in {"added", "delta", "done"}
    PROVE  EventOf(output, type, k) \in Live
<1>1. output[k] \in Outs /\ k - 1 \in Nat
  OBVIOUS
<1> QED
  BY <1>1 DEF EventOf, Event, Live

\* The first event is one before the end.
LEMMA CreatedTyped == Created \in Live
  BY DEF Created, Event, Live, Outs

\* So are the events of one item.
LEMMA BurstTyped ==
    ASSUME NEW output \in Seq(Outs), NEW k \in DOMAIN output, NEW types \in Orders \union {<<"done">>}
    PROVE  Burst(output, types, k) \in Seq(Live)
<1>1. types \in Seq({"added", "delta", "done"})
  <2>1. \/ types = <<"added", "delta", "done">> \/ types = <<"added", "delta">>
        \/ types = <<"added", "added", "delta", "done">> \/ types = <<"done">>
    BY DEF Orders
  <2>2. CASE types = <<"added", "delta", "done">>
    BY <2>2
  <2>3. CASE types = <<"added", "delta">>
    BY <2>3
  <2>4. CASE types = <<"added", "added", "delta", "done">>
    BY <2>4
  <2>5. CASE types = <<"done">>
    BY <2>5
  <2> QED
    BY <2>1, <2>2, <2>3, <2>4, <2>5
<1>2. Len(types) \in Nat /\ DOMAIN types = 1..Len(types) /\ \A i \in DOMAIN types : types[i] \in {"added", "delta", "done"}
  BY <1>1
<1>3. Burst(output, types, k) \in [1..Len(types) -> Live]
  BY <1>2, LiveTyped DEF Burst, EventOf
<1> QED
  BY <1>2, <1>3, IsSequence

\* There is a burst of events for each item.
LEMMA BurstsTyped ==
    ASSUME NEW output \in Seq(Outs), NEW types \in Orders \union {<<"done">>}
    PROVE  Bursts(output, types) \in Seq(Seq(Live)) /\ Len(Bursts(output, types)) = Len(output)
<1> DEFINE f == Bursts(output, types)
           B == Seq(Live)
<1>1. Len(output) \in Nat /\ DOMAIN output = 1..Len(output)
  OBVIOUS
<1>2. f \in [1..Len(output) -> B]
  BY <1>1, BurstTyped DEF Bursts
<1> HIDE DEF f, B
<1>3. f \in Seq(B) /\ Len(f) = Len(output)
  BY <1>1, <1>2, IsSequence
<1> QED
  BY <1>3 DEF f, B

\* One item more behind what was before.
LEMMA BurstBehind ==
    ASSUME NEW output \in Seq(Outs), NEW types \in Orders \union {<<"done">>}, NEW base \in Seq(Live),
           NEW n \in 1..Len(output)
    PROVE  /\ base \o FlattenSeq(Firsts(Bursts(output, types), n - 1)) \in Seq(Live)
           /\ base \o FlattenSeq(Firsts(Bursts(output, types), n))
                 = (base \o FlattenSeq(Firsts(Bursts(output, types), n - 1))) \o Burst(output, types, n)
           /\ Burst(output, types, n) \in Seq(Live)
<1> DEFINE f == Bursts(output, types)
           B == Seq(Live)
           b == Burst(output, types, n)
           ss == Firsts(f, n - 1)
<1>1. f \in Seq(B) /\ n \in 1..Len(f) /\ f[n] = b /\ b \in Seq(Live)
  <2>1. n \in DOMAIN output
    OBVIOUS
  <2>2. f[n] = b
    BY <2>1 DEF Bursts
  <2>3. b \in Seq(Live)
    BY <2>1, BurstTyped
  <2>4. f \in Seq(B) /\ Len(f) = Len(output)
    BY BurstsTyped
  <2> QED
    BY <2>2, <2>3, <2>4
<1>2. ss \in Seq(B) /\ Firsts(f, n) = Append(ss, f[n])
  <2> HIDE DEF f, B
  <2> QED
    BY <1>1, FirstsGrow
<1> HIDE DEF f, b, ss
<1>3. FlattenSeq(Append(ss, b)) = FlattenSeq(ss) \o b /\ FlattenSeq(ss) \in Seq(Live)
  BY <1>1, <1>2, FlattenAppend, FlattenType
<1> DEFINE one == FlattenSeq(ss)
<1>8. one \in Seq(Live) /\ b \in Seq(Live) /\ base \in Seq(Live)
  BY <1>1, <1>3
<1> HIDE DEF one
<1>4. base \o (one \o b) = (base \o one) \o b
  <2> DEFINE S == Live
  <2>1. one \in Seq(S) /\ b \in Seq(S) /\ base \in Seq(S)
    BY <1>8
  <2> HIDE DEF S
  <2>2. Associate(base, one, b)
    BY <2>1, Associates
  <2> QED
    BY <2>2 DEF Associate
<1>5. base \o one \in Seq(Live)
  BY <1>3 DEF one
<1>6. FlattenSeq(Firsts(f, n)) = one \o b
  BY <1>1, <1>2, <1>3 DEF one
<1>7. base \o FlattenSeq(Firsts(f, n)) = (base \o one) \o b
  BY <1>4, <1>6
<1> QED
  BY <1>1, <1>5, <1>7 DEF f, b, ss, one

\* In front of the first burst there is none.
LEMMA NoBurst ==
    ASSUME NEW output \in Seq(Outs), NEW types \in Orders \union {<<"done">>}, NEW base \in Seq(Live)
    PROVE  base \o FlattenSeq(Firsts(Bursts(output, types), 0)) = base
<1>1. Firsts(Bursts(output, types), 0) = <<>>
  BY DEF Firsts
<1>2. base \o <<>> = base
  OBVIOUS
<1> QED
  BY <1>1, <1>2, FlattenEmpty

\* All the bursts behind some events.
LEMMA BurstsBehind ==
    ASSUME NEW output \in Seq(Outs), NEW types \in Orders \union {<<"done">>}, NEW base \in Seq(Live)
    PROVE  /\ FlattenSeq(Firsts(Bursts(output, types), Len(output))) = FlattenSeq(Bursts(output, types))
           /\ base \o FlattenSeq(Bursts(output, types)) \in Seq(Live)
<1> DEFINE f == Bursts(output, types)
           B == Seq(Live)
<1>1. f \in Seq(B) /\ Len(f) = Len(output)
  BY BurstsTyped
<1>2. Firsts(f, Len(f)) = f
  <2> HIDE DEF f, B
  <2> QED
    BY <1>1, FirstsEnds
<1> HIDE DEF f
<1>3. FlattenSeq(f) \in Seq(Live)
  BY <1>1, FlattenType
<1> DEFINE one == FlattenSeq(f)
<1> HIDE DEF one
<1>4. base \o one \in Seq(Live)
  BY <1>3 DEF one
<1> QED
  BY <1>1, <1>2, <1>4 DEF f, one

\* The events of a turn.
LEMMA EventsAre ==
    ASSUME NEW turn, Output(turn) \in Seq(Outs), NEW manner \in {"each", "late", "twice"}, NEW finish \in Finishes
    PROVE  \E types \in Orders :
              /\ Begun(Output(turn), types, Len(Output(turn))) \in Seq(Live)
              /\ Closed(Output(turn), types, Len(Output(turn))) \in Seq(Live)
              /\ Terminal(Output(turn), finish) \in Ends
              /\ \/ Events(turn, manner, finish)
                       = Begun(Output(turn), types, Len(Output(turn))) \o <<Terminal(Output(turn), finish)>>
                 \/ Events(turn, manner, finish)
                       = Closed(Output(turn), types, Len(Output(turn))) \o <<Terminal(Output(turn), finish)>>
<1> DEFINE output == Output(turn)
           types == Manner(manner)
           last == Terminal(output, finish)
           one == FlattenSeq(Bursts(output, types))
           two == FlattenSeq(Bursts(output, <<"done">>))
<1>0. output \in Seq(Outs) /\ types \in Orders
  BY DEF Orders, Manner
<1>1. Events(turn, manner, finish) = <<Created>> \o one \o (IF manner = "late" THEN two ELSE <<>>) \o <<last>>
  BY DEF Events, Closing
<1>2. last \in Ends
  BY <1>0 DEF Terminal, Event, Ends, Status, Finishes
<1> HIDE DEF types, last
<1>3. <<Created>> \in Seq(Live)
  BY CreatedTyped
<1>4. Begun(output, types, Len(output)) = <<Created>> \o one /\ <<Created>> \o one \in Seq(Live)
  BY <1>0, <1>3, BurstsBehind DEF Begun
<1>5. Closed(output, types, Len(output)) = (<<Created>> \o one) \o two /\ (<<Created>> \o one) \o two \in Seq(Live)
  <2> DEFINE base == <<Created>> \o one
  <2> HIDE DEF base, output
  <2>1. FlattenSeq(Firsts(Bursts(output, <<"done">>), Len(output))) = two /\ base \o two \in Seq(Live)
    BY <1>0, <1>4, BurstsBehind DEF base
  <2> QED
    BY <1>4, <2>1 DEF Closed, base
<1> HIDE DEF output, one, two
<1>6. CASE manner = "late"
  <2>1. Events(turn, manner, finish) = Closed(output, types, Len(output)) \o <<last>>
    BY <1>1, <1>5, <1>6
  <2> QED
    BY <1>0, <1>2, <1>4, <1>5, <2>1 DEF output, last
<1>7. CASE manner # "late"
  <2> DEFINE base == <<Created>> \o one
  <2> HIDE DEF base
  <2>1. base \o <<>> = base
    BY <1>4 DEF base
  <2>2. Events(turn, manner, finish) = Begun(output, types, Len(output)) \o <<last>>
    BY <1>1, <1>4, <1>7, <2>1 DEF base
  <2> QED
    BY <1>0, <1>2, <1>4, <1>5, <2>2 DEF output, last
<1> QED
  BY <1>6, <1>7

\* A stream that breaks off has no end.
LEMMA CutLive ==
    ASSUME NEW base \in Seq(Live), NEW last, NEW cut \in Nat, cut < Len(base \o <<last>>)
    PROVE  SubSeq(base \o <<last>>, 1, cut) \in Seq(Live)
<1> DEFINE all == base \o <<last>>
<1>1. Len(base) \in Nat /\ Len(all) = Len(base) + 1 /\ \A i \in 1..Len(base) : all[i] = base[i] /\ base[i] \in Live
  OBVIOUS
<1>2. cut <= Len(base)
  BY <1>1
<1> HIDE DEF all
<1>3. SubSeq(all, 1, cut) = [i \in 1..cut |-> all[i]]
  BY <1>1, <1>2
<1>4. [i \in 1..cut |-> all[i]] \in [1..cut -> Live]
  BY <1>1, <1>2
<1>5. [i \in 1..cut |-> all[i]] \in Seq(Live)
  BY <1>4, IsSequence
<1> QED
  BY <1>3, <1>5 DEF all
-----------------------------------------------------------------------------
(* What a client does with its blocks.                                      *)

\* What a client has of a stream.
Blks    == [part : Spoke, body : Seq(Nat)]
Held    == UNION {[D -> Blks] : D \in SUBSET Nat}
Stops   == {None, "calls", "length", "end"}
Clients == [texts : Seq(Texts), blocks : Held, stop : Stops]

Place(part)            == [part |-> part, body |-> <<>>]
Grow(b, id)            == [part |-> b.part, body |-> Append(b.body, id)]
Placed(c, i, part)     == [texts |-> c.texts, blocks |-> With(c.blocks, i, Place(part)), stop |-> c.stop]
Grown(c, i, id)        == [texts |-> c.texts, blocks |-> With(c.blocks, i, Grow(c.blocks[i], id)), stop |-> c.stop]
Stopped(c, stop)       == [texts |-> c.texts, blocks |-> c.blocks, stop |-> stop]
Heard(c, p)            == [texts |-> Append(c.texts, p), blocks |-> c.blocks, stop |-> c.stop]

Complete(b)   == b.body = <<b.part.id>>
Whole(c)      == \A i \in DOMAIN c.blocks : Complete(c.blocks[i])
Open(c, i, p) == /\ i \in DOMAIN c.blocks /\ c.blocks[i] = Place(p)
                 /\ \A j \in DOMAIN c.blocks \ {i} : Complete(c.blocks[j])

\* A block put at an index is there, and the others are where they were.
LEMMA HeldWith ==
    ASSUME NEW blocks \in Held, NEW i \in Nat, NEW b \in Blks
    PROVE  /\ With(blocks, i, b) \in Held
           /\ DOMAIN With(blocks, i, b) = DOMAIN blocks \union {i}
           /\ DOMAIN blocks \in SUBSET Nat
           /\ With(blocks, i, b)[i] = b
           /\ \A j \in DOMAIN blocks \ {i} : With(blocks, i, b)[j] = blocks[j]
<1>1. PICK D \in SUBSET Nat : blocks \in [D -> Blks]
  BY DEF Held
<1> DEFINE E == D \union {i}
           f == With(blocks, i, b)
<1>2. DOMAIN blocks = D /\ f = [x \in E |-> IF x = i THEN b ELSE blocks[x]]
  BY <1>1 DEF With
<1>3. E \in SUBSET Nat /\ f \in [E -> Blks]
  BY <1>1, <1>2
<1>4. f \in Held
  <2> HIDE DEF f, E
  <2> QED
    BY <1>3 DEF Held
<1> QED
  BY <1>1, <1>2, <1>3, <1>4

Put(f, blocks, i, b) ==
    /\ DOMAIN f = DOMAIN blocks \union {i} /\ f[i] = b
    /\ \A j \in DOMAIN blocks \ {i} : f[j] = blocks[j]

\* The same, for proofs that only need to know where the blocks are.
LEMMA HeldPut ==
    ASSUME NEW blocks \in Held, NEW i \in Nat, NEW b \in Blks
    PROVE  Put(With(blocks, i, b), blocks, i, b)
  BY HeldWith DEF Put

\* What is at an index is a block.
LEMMA HeldBlock ==
    ASSUME NEW blocks \in Held, NEW i \in DOMAIN blocks
    PROVE  blocks[i] \in Blks /\ i \in Nat
  BY DEF Held

\* A block that is placed and then grown by its own content is complete.
LEMMA BlksTyped ==
    /\ \A p \in Spoke : Place(p) \in Blks /\ p.id \in Nat
    /\ \A b \in Blks, id \in Nat : Grow(b, id) \in Blks
    /\ \A p \in Spoke : Complete(Grow(Place(p), p.id))
<1>1. ASSUME NEW p \in Spoke PROVE Place(p) \in Blks /\ p.id \in Nat /\ Complete(Grow(Place(p), p.id))
  <2>1. <<>> \in Seq(Nat) /\ p.id \in Nat
    BY DEF Spoke, Texts, Calls
  <2>2. Append(<<>>, p.id) = <<p.id>>
    BY <2>1
  <2> QED
    BY <2>1, <2>2 DEF Place, Blks, Complete, Grow
<1>2. ASSUME NEW b \in Blks, NEW id \in Nat PROVE Grow(b, id) \in Blks
  <2>1. Append(b.body, id) \in Seq(Nat) /\ b.part \in Spoke
    BY DEF Blks
  <2> QED
    BY <2>1 DEF Grow, Blks
<1> QED
  BY <1>1, <1>2

\* Whatever a client does with its blocks leaves it a client.
LEMMA ClientsTyped ==
    ASSUME NEW c \in Clients
    PROVE  /\ \A i \in Nat, p \in Spoke : Placed(c, i, p) \in Clients
           /\ \A i \in DOMAIN c.blocks, id \in Nat : Grown(c, i, id) \in Clients
           /\ \A stop \in Stops : Stopped(c, stop) \in Clients
           /\ \A p \in Texts : Heard(c, p) \in Clients
<1>0. c.texts \in Seq(Texts) /\ c.blocks \in Held /\ c.stop \in Stops
  BY DEF Clients
<1>1. \A texts \in Seq(Texts), blocks \in Held, stop \in Stops :
         [texts |-> texts, blocks |-> blocks, stop |-> stop] \in Clients
  BY DEF Clients
<1>2. ASSUME NEW i \in Nat, NEW p \in Spoke PROVE Placed(c, i, p) \in Clients
  BY <1>0, <1>1, HeldWith, BlksTyped DEF Placed
<1>3. ASSUME NEW i \in DOMAIN c.blocks, NEW id \in Nat PROVE Grown(c, i, id) \in Clients
  <2>1. c.blocks[i] \in Blks /\ i \in Nat
    BY <1>0, HeldBlock
  <2> QED
    BY <1>0, <1>1, <2>1, HeldWith, BlksTyped DEF Grown
<1>4. ASSUME NEW p \in Texts PROVE Heard(c, p) \in Clients
  <2>1. Append(c.texts, p) \in Seq(Texts)
    BY <1>0
  <2> QED
    BY <1>0, <1>1, <2>1 DEF Heard
<1> QED
  BY <1>0, <1>1, <1>2, <1>3, <1>4 DEF Stopped

\* A block that is put down is open until its body has come.
LEMMA PlacedOpen ==
    ASSUME NEW c \in Clients, NEW i \in Nat, NEW p \in Spoke, Whole(c) \/ Open(c, i, p)
    PROVE  Open(Placed(c, i, p), i, p)
<1> DEFINE held == c.blocks
           b == Place(p)
           f == With(held, i, b)
<1>0. held \in Held /\ b \in Blks
  BY BlksTyped DEF Clients
<1> HIDE DEF held, b
<1>1. Put(f, held, i, b)
  BY <1>0, HeldPut
<1> USE DEF held
<1>2. \A j \in DOMAIN c.blocks \ {i} : Complete(c.blocks[j])
  BY DEF Whole, Open
<1>3. Placed(c, i, p).blocks = f
  BY DEF Placed, b
<1> HIDE DEF f
<1> QED
  BY <1>1, <1>2, <1>3 DEF Open, Put, b

\* A client whose one open block is grown has complete blocks only.
LEMMA GrownWhole ==
    ASSUME NEW c \in Clients, NEW i \in Nat, NEW p \in Spoke, Open(c, i, p)
    PROVE  Grown(c, i, p.id) \in Clients /\ Whole(Grown(c, i, p.id)) /\ DOMAIN Grown(c, i, p.id).blocks = DOMAIN c.blocks
<1>0. c.blocks \in Held /\ i \in DOMAIN c.blocks /\ c.blocks[i] = Place(p) /\ p.id \in Nat
  BY BlksTyped DEF Clients, Open
<1> DEFINE held == c.blocks
           b == Grow(Place(p), p.id)
           f == With(held, i, b)
<1>1. b \in Blks /\ Complete(b)
  BY BlksTyped
<1> HIDE DEF held, b
<1>2. Put(f, held, i, b)
  <2>1. held \in Held
    BY DEF Clients, held
  <2> QED
    BY <1>1, <2>1, HeldPut
<1> USE DEF held
<1>3. \A j \in DOMAIN c.blocks \ {i} : Complete(c.blocks[j])
  BY DEF Open
<1>4. Grown(c, i, p.id).blocks = f
  BY <1>0 DEF Grown, b
<1>5. Grown(c, i, p.id) \in Clients
  BY <1>0, ClientsTyped
<1> HIDE DEF f
<1> QED
  BY <1>0, <1>1, <1>2, <1>3, <1>4, <1>5 DEF Whole, Put

\* The model's EXCEPT, spelled out.
LEMMA GrownIs ==
    ASSUME NEW c \in Clients, NEW i, NEW id \in Nat
    PROVE  /\ i \in DOMAIN c.blocks => [c EXCEPT !.blocks[i].body = Append(@, id)] = Grown(c, i, id)
           /\ i \notin DOMAIN c.blocks => [c EXCEPT !.blocks[i].body = Append(@, id)] = c
<1>0. c = [texts |-> c.texts, blocks |-> c.blocks, stop |-> c.stop] /\ c.blocks \in Held
  BY DEF Clients
<1>1. PICK D \in SUBSET Nat : c.blocks \in [D -> Blks]
  BY <1>0 DEF Held
<1> DEFINE v == Append(c.blocks[i].body, id)
           f == [c.blocks EXCEPT ![i] = [c.blocks[i] EXCEPT !.body = v]]
<1>2. [c EXCEPT !.blocks[i].body = Append(@, id)] = [texts |-> c.texts, blocks |-> f, stop |-> c.stop]
  <2> HIDE DEF v
  <2>1. [c EXCEPT !.blocks[i].body = v] = [texts |-> c.texts, blocks |-> f, stop |-> c.stop]
    BY <1>0
  <2> QED
    BY <2>1 DEF v
<1>3. f = [x \in D |-> IF x = i THEN [c.blocks[i] EXCEPT !.body = v] ELSE c.blocks[x]]
  <2> HIDE DEF v
  <2> QED
    BY <1>1
<1>4. DOMAIN c.blocks = D /\ c.blocks = [x \in D |-> c.blocks[x]]
  BY <1>1
<1>5. ASSUME i \notin D PROVE f = c.blocks
  BY <1>3, <1>4, <1>5
<1>6. ASSUME i \in D PROVE f = With(c.blocks, i, Grow(c.blocks[i], id))
  <2> DEFINE b == c.blocks[i]
  <2>1. b \in Blks
    BY <1>1, <1>6
  <2> HIDE DEF b
  <2>2. b = [part |-> b.part, body |-> b.body]
    BY <2>1 DEF Blks
  <2>3. [b EXCEPT !.body = Append(@, id)] = Grow(b, id)
    BY <2>2 DEF Grow
  <2>5. [c.blocks[i] EXCEPT !.body = v] = Grow(c.blocks[i], id)
    BY <2>3 DEF b
  <2>4. D \union {i} = D
    BY <1>6
  <2> QED
    BY <1>3, <1>4, <2>4, <2>5 DEF With
<1> HIDE DEF f, v
<1> QED
  BY <1>0, <1>2, <1>4, <1>5, <1>6 DEF Grown

\* Growing a block that is not there changes nothing.
LEMMA GrownNowhere ==
    ASSUME NEW c \in Clients, NEW i, NEW id \in Nat, i \notin DOMAIN c.blocks
    PROVE  [c EXCEPT !.blocks[i].body = Append(@, id)] = c
  BY GrownIs

\* Placing a block, as it is written in the model.
LEMMA PlacedIs ==
    ASSUME NEW c \in Clients, NEW i, NEW p
    PROVE  [c EXCEPT !.blocks = With(@, i, [part |-> p, body |-> <<>>])] = Placed(c, i, p)
  BY DEF Clients, Placed, Place

\* Stopping, as it is written in the model.
LEMMA StoppedIs ==
    ASSUME NEW c \in Clients, NEW stop
    PROVE  [c EXCEPT !.stop = stop] = Stopped(c, stop)
  BY DEF Clients, Stopped

\* Hearing a text, as it is written in the model.
LEMMA HeardIs ==
    ASSUME NEW c \in Clients, NEW p
    PROVE  [c EXCEPT !.texts = Append(@, p)] = Heard(c, p)
  BY DEF Clients, Heard

\* A new client has nothing, all of it complete.
LEMMA NewClientTyped == NewClient \in Clients /\ Whole(NewClient) /\ NewClient.stop = None /\ NewClient.blocks = <<>>
<1>1. <<>> \in Seq(Texts) /\ None \in Stops
  BY DEF Stops
<1>2. <<>> \in Held /\ DOMAIN <<>> = {}
  <2>1. <<>> \in [{} -> Blks] /\ {} \in SUBSET Nat
    OBVIOUS
  <2> QED
    BY <2>1 DEF Held
<1> QED
  BY <1>1, <1>2 DEF NewClient, Clients, Whole
-----------------------------------------------------------------------------
(* What a Messages client has of a stream.                                  *)

\* The frames of a Messages stream.
Marks       == [type : {"message_start", "message_stop"}, index : {0}, part : {NoTool}, stop : Stops]
BlockFrames == [type : {"added", "delta", "done"}, index : Nat, part : Spoke, stop : {None}]
AFrames     == Marks \union BlockFrames

\* What a Messages client makes of a frame, by its type.
LEMMA FrameReceived ==
    ASSUME NEW c \in Clients, NEW f \in AFrames
    PROVE  /\ f.type = "added" => ReceiveFrame(c, f) = Placed(c, f.index, f.part)
           /\ f.type = "delta" => ReceiveFrame(c, f) = IF f.index \in DOMAIN c.blocks THEN Grown(c, f.index, f.part.id)
                                                       ELSE c
           /\ f.type = "message_stop" => ReceiveFrame(c, f) = Stopped(c, f.stop)
           /\ f.type \in {"message_start", "done"} => ReceiveFrame(c, f) = c
           /\ ReceiveFrame(c, f) \in Clients
<1>0. /\ f.type \in {"added", "delta", "done"} => f.index \in Nat /\ f.part \in Spoke
      /\ f.type \in {"message_start", "message_stop", "added", "delta", "done"} /\ f.stop \in Stops
  BY DEF AFrames, Marks, BlockFrames, Stops
<1>1. CASE f.type = "added"
  <2>1. ReceiveFrame(c, f) = [c EXCEPT !.blocks = With(@, f.index, [part |-> f.part, body |-> <<>>])]
    BY <1>1 DEF ReceiveFrame
  <2>2. ReceiveFrame(c, f) = Placed(c, f.index, f.part)
    BY <2>1, PlacedIs
  <2> QED
    BY <1>0, <1>1, <2>2, ClientsTyped
<1>2. CASE f.type = "delta"
  <2>0. f.part.id \in Nat
    BY <1>0, <1>2, BlksTyped
  <2>1. f.index \in DOMAIN c.blocks => ReceiveFrame(c, f) = [c EXCEPT !.blocks[f.index].body = Append(@, f.part.id)]
    BY <1>2 DEF ReceiveFrame
  <2>2. f.index \notin DOMAIN c.blocks => ReceiveFrame(c, f) = c
    BY <1>2 DEF ReceiveFrame
  <2>3. f.index \in DOMAIN c.blocks => ReceiveFrame(c, f) = Grown(c, f.index, f.part.id)
    BY <2>0, <2>1, GrownIs
  <2>4. f.index \in DOMAIN c.blocks => Grown(c, f.index, f.part.id) \in Clients
    BY <2>0, ClientsTyped
  <2> QED
    BY <1>2, <2>2, <2>3, <2>4
<1>3. CASE f.type = "message_stop"
  <2>1. ReceiveFrame(c, f) = [c EXCEPT !.stop = f.stop]
    BY <1>3 DEF ReceiveFrame
  <2>2. ReceiveFrame(c, f) = Stopped(c, f.stop)
    BY <2>1, StoppedIs
  <2> QED
    BY <1>0, <1>3, <2>2, ClientsTyped
<1>4. CASE f.type \in {"message_start", "done"}
  BY <1>4 DEF ReceiveFrame
<1> QED
  BY <1>0, <1>1, <1>2, <1>3, <1>4

\* A Messages client takes the frames one by one.
FrameStep == [x \in Clients \X AFrames |-> ReceiveFrame(x[1], x[2])]

FramesFolding(F, start, s) ==
    F = [p \in SUBSET DOMAIN s |-> IF p = {} THEN start ELSE ReceiveFrame(F[p \ {Max(p)}], s[Max(p)])]

\* Receiving a frame is a step from client to client.
LEMMA FramesSteps ==
    Steps(FrameStep, Clients, AFrames)
  BY FrameReceived DEF Steps, FrameStep

\* The fold over the frames is a fold by that step.
LEMMA FramesFolded ==
    ASSUME NEW start \in Clients, NEW s \in Seq(AFrames)
    PROVE  FoldLeft(ReceiveFrame, start, s) = Folded(FrameStep, start, s)
<1> DEFINE n == Len(s)
<1>0. n \in Nat /\ DOMAIN s = 1..n /\ Steps(FrameStep, Clients, AFrames)
  BY FramesSteps
<1>1. PICK F \in [SUBSET (1..n) -> Clients] : FoldsUp(F, FrameStep, start, s)
  BY <1>0, FoldsUpExists
<1>2. FramesFolding(F, start, s)
  <2>1. ASSUME NEW p \in SUBSET DOMAIN s
        PROVE  F[p] = IF p = {} THEN start ELSE ReceiveFrame(F[p \ {Max(p)}], s[Max(p)])
    <3>1. F[p] = IF p = {} THEN start ELSE FrameStep[<<F[p \ {Max(p)}], s[Max(p)]>>]
      BY <1>0, <1>1 DEF FoldsUp
    <3>2. CASE p # {}
      <4>1. Max(p) \in 1..n
        BY <1>0, <3>2, Greatest
      <4>2. F[p \ {Max(p)}] \in Clients /\ s[Max(p)] \in AFrames
        BY <1>0, <4>1
      <4> DEFINE one == F[p \ {Max(p)}]
                 two == s[Max(p)]
      <4> HIDE DEF one, two
      <4>3. FrameStep[<<one, two>>] = ReceiveFrame(one, two)
        BY <4>2 DEF FrameStep, one, two
      <4> QED
        BY <3>1, <3>2, <4>3 DEF one, two
    <3> QED
      BY <3>1, <3>2
  <2> QED
    BY <1>0, <2>1 DEF FramesFolding
<1> DEFINE G == CHOOSE G : FramesFolding(G, start, s)
           f == [i \in 0..n |-> G[1..i]]
<1>3. FramesFolding(G, start, s)
  BY <1>2
<1>4. FoldLeft(ReceiveFrame, start, s) = G[1..n]
  BY <1>0 DEF FoldLeft, MapThenFoldSet, FramesFolding
<1> HIDE DEF G
<1>5. ASSUME NEW p \in SUBSET (1..n)
      PROVE  G[p] = IF p = {} THEN start ELSE ReceiveFrame(G[p \ {Max(p)}], s[Max(p)])
  BY <1>0, <1>3 DEF FramesFolding
<1>6. f[0] = start
  <2>1. {} \in SUBSET (1..n) /\ 1..0 = {} /\ 0 \in 0..n
    BY <1>0
  <2>2. G[{}] = start
    BY <1>5, <2>1
  <2> QED
    BY <2>1, <2>2
<1>7. ASSUME NEW i \in 1..n, f[i - 1] \in Clients
      PROVE  f[i] = FrameStep[<<f[i - 1], s[i]>>]
  <2>1. 1..i \in SUBSET (1..n) /\ 1..i # {} /\ Max(1..i) = i /\ (1..i) \ {i} = 1..(i - 1)
    BY <1>0, Top
  <2>2. G[1..i] = ReceiveFrame(G[1..(i - 1)], s[i])
    BY <1>5, <2>1
  <2>3. f[i] = G[1..i] /\ f[i - 1] = G[1..(i - 1)] /\ s[i] \in AFrames
    BY <1>0
  <2> DEFINE one == f[i - 1]
             two == s[i]
  <2>4. f[i] = ReceiveFrame(one, two) /\ one \in Clients /\ two \in AFrames
    BY <1>7, <2>2, <2>3
  <2> HIDE DEF one, two, f
  <2>5. FrameStep[<<one, two>>] = ReceiveFrame(one, two)
    BY <2>4 DEF FrameStep
  <2> QED
    BY <2>4, <2>5 DEF one, two
<1>8. f[n] = G[1..n]
  BY <1>0
<1> HIDE DEF f
<1>9. f[n] = Folded(FrameStep, start, s)
  BY <1>0, <1>6, <1>7, ChainIs
<1> QED
  BY <1>4, <1>8, <1>9

-----------------------------------------------------------------------------
\* The events that a client is shown, and as what.
Shows(item)          == item.type = "message" \/ IsFunctionCall(item)
PlaceOf(item, index) == IF item.type = "message" THEN 0 ELSE index
PartOf(item)         == IF item.type = "message" THEN Text(item.texts[1]) ELSE Call(item.id, item.tool)

\* The part an output item shows as, and its place.
LEMMA PartOfTyped ==
    ASSUME NEW item \in Outs, NEW index \in Nat
    PROVE  /\ Shows(item) => PartOf(item) \in Spoke
           /\ PlaceOf(item, index) \in Nat
           /\ item.type = "message" => item.texts = <<item.texts[1]>> /\ item.texts[1] \in Nat /\ PartOf(item) \in Texts
<1>1. CASE item.type = "message"
  <2>1. PICK t \in Nat : item.texts = <<t>>
    BY <1>1, OutTyped
  <2>2. item.texts[1] = t /\ PartOf(item) = Text(t)
    BY <1>1, <2>1 DEF PartOf
  <2>3. Text(t) \in Texts
    BY TextTyped
  <2> QED
    BY <1>1, <2>1, <2>2, <2>3 DEF PlaceOf, Spoke
<1>2. CASE item.type # "message"
  <2>1. item.id \in Nat /\ item.tool \in AnyTools
    BY <1>2, OutTyped
  <2>2. PartOf(item) = Call(item.id, item.tool)
    BY <1>2 DEF PartOf
  <2>3. PartOf(item) \in Calls
    BY <2>1, <2>2, PartTyped
  <2> QED
    BY <1>2, <2>3 DEF PlaceOf, Spoke
<1> QED
  BY <1>1, <1>2

FrameOf(e) == Frame(e.type, PlaceOf(e.item, e.index), PartOf(e.item), None)

\* An event makes one frame at most.
LEMMA FramesOf ==
    ASSUME NEW e \in Happenings
    PROVE  /\ e.type = "created" => AnthropicFrames(e) = <<Frame("message_start", 0, NoTool, None)>>
           /\ e.type \in {"added", "delta", "done"} /\ Shows(e.item) =>
                 AnthropicFrames(e) = <<FrameOf(e)>> /\ FrameOf(e) \in BlockFrames
           /\ e.type \in {"added", "delta", "done"} /\ ~Shows(e.item) => AnthropicFrames(e) = <<>>
           /\ e.type = "terminal" =>
                 AnthropicFrames(e) = <<Frame("message_stop", 0, NoTool, StopReason(e.output, e.outcome))>>
           /\ AnthropicFrames(e) \in Seq(AFrames)
<1>0. /\ e.type \in {"created", "added", "delta", "done", "terminal"}
      /\ e.type \in {"added", "delta", "done"} => e.item \in Outs /\ e.index \in Nat
      /\ e.type = "terminal" => e.outcome # "failed"
  BY DEF Happenings, Live, Ends
<1> DEFINE r == AnthropicFrames(e)
<1>1. CASE e.type = "created"
  <2> DEFINE f == Frame("message_start", 0, NoTool, None)
  <2>1. r = <<f>>
    BY <1>1 DEF AnthropicFrames
  <2>2. f \in AFrames
    BY DEF Frame, AFrames, Marks, Stops
  <2> HIDE DEF f
  <2>3. <<f>> \in Seq(AFrames)
    BY <2>2
  <2> QED
    BY <1>1, <2>1, <2>3 DEF f
<1>2. CASE e.type = "terminal"
  <2> DEFINE f == Frame("message_stop", 0, NoTool, StopReason(e.output, e.outcome))
  <2>1. r = <<f>>
    BY <1>0, <1>2 DEF AnthropicFrames
  <2>2. StopReason(e.output, e.outcome) \in Stops
    BY DEF StopReason, Stops
  <2>3. f \in AFrames
    BY <2>2 DEF Frame, AFrames, Marks
  <2> HIDE DEF f
  <2>4. <<f>> \in Seq(AFrames)
    BY <2>3
  <2> QED
    BY <1>2, <2>1, <2>4 DEF f
<1>3. CASE e.type \in {"added", "delta", "done"} /\ ~Shows(e.item)
  <2>1. r = <<>>
    BY <1>3 DEF AnthropicFrames, Shows
  <2>2. <<>> \in Seq(AFrames)
    OBVIOUS
  <2> QED
    BY <1>3, <2>1, <2>2
<1>4. CASE e.type \in {"added", "delta", "done"} /\ Shows(e.item)
  <2>0. e.item \in Outs /\ e.index \in Nat
    BY <1>0, <1>4
  <2>1. FrameOf(e) \in BlockFrames
    <3>1. PartOf(e.item) \in Spoke /\ PlaceOf(e.item, e.index) \in Nat
      BY <1>4, <2>0, PartOfTyped
    <3> QED
      BY <1>4, <3>1 DEF FrameOf, Frame, BlockFrames
  <2>2. r = <<FrameOf(e)>>
    <3>1. CASE e.item.type = "message"
      <4>1. r = [k \in DOMAIN e.item.texts |-> Frame(e.type, k - 1, Text(e.item.texts[k]), None)]
        BY <1>4, <3>1 DEF AnthropicFrames, IsFunctionCall
      <4>2. e.item.texts = <<e.item.texts[1]>>
        BY <2>0, <3>1, PartOfTyped
      <4>3. FrameOf(e) = Frame(e.type, 0, Text(e.item.texts[1]), None)
        BY <3>1 DEF FrameOf, PlaceOf, PartOf
      <4> DEFINE ts == e.item.texts
                 g(k) == Frame(e.type, k - 1, Text(ts[k]), None)
      <4>4. DOMAIN ts = {1}
        BY <4>2
      <4>5. r = [k \in {1} |-> g(k)] /\ g(1) = FrameOf(e)
        BY <4>1, <4>3, <4>4
      <4> HIDE DEF g, r
      <4>6. [k \in {1} |-> g(k)] = <<g(1)>>
        OBVIOUS
      <4> QED
        BY <4>5, <4>6
    <3>2. CASE e.item.type # "message"
      <4>1. r = <<Frame(e.type, e.index, Call(e.item.id, e.item.tool), None)>>
        BY <1>4, <3>2 DEF AnthropicFrames, Shows
      <4> QED
        BY <3>2, <4>1 DEF FrameOf, PlaceOf, PartOf
    <3> QED
      BY <3>1, <3>2
  <2> HIDE DEF r
  <2>3. r \in Seq(AFrames)
    BY <2>1, <2>2 DEF AFrames
  <2> QED
    BY <1>4, <2>1, <2>2, <2>3 DEF r
<1> QED
  BY <1>0, <1>1, <1>2, <1>3, <1>4

-----------------------------------------------------------------------------
\* What the client has of the events so far.
FramesShown == [e \in Happenings |-> AnthropicFrames(e)]
Shown(events) == Folded(FrameStep, NewClient, Joint(FramesShown, events))

\* What a Messages client has of a stream of events.
LEMMA ShownIs ==
    ASSUME NEW events \in Seq(Happenings)
    PROVE  /\ FoldLeft(ReceiveFrame, NewClient, FlattenSeq(Each(AnthropicFrames, events))) = Shown(events)
           /\ Shown(events) \in Clients
<1>1. Maps(FramesShown, Happenings, Seq(AFrames))
  BY FramesOf DEF FramesShown, Maps
<1>2. \A i \in DOMAIN events : events[i] \in Happenings
  OBVIOUS
<1>3. Each(AnthropicFrames, events) = Mapped(FramesShown, events)
  BY <1>2 DEF Each, Mapped, FramesShown
<1> DEFINE s == Joint(FramesShown, events)
<1>4. s = FlattenSeq(Each(AnthropicFrames, events)) /\ s \in Seq(AFrames)
  BY <1>1, <1>3, JointTyped DEF Joint, Maps
<1> HIDE DEF s
<1>5. FoldLeft(ReceiveFrame, NewClient, s) = Folded(FrameStep, NewClient, s)
  BY <1>4, NewClientTyped, FramesFolded
<1>6. Folded(FrameStep, NewClient, s) \in Clients
  BY <1>4, NewClientTyped, FramesSteps, FoldedTyped
<1> QED
  BY <1>4, <1>5, <1>6 DEF s, Shown

\* Of no events it has nothing.
LEMMA ShownNothing == Shown(<<>>) = NewClient
  BY JointEmpty, FoldedEmpty, FramesSteps, NewClientTyped DEF Shown

\* Of one more event it has what the frame of that event adds.
LEMMA ShownAppend ==
    ASSUME NEW events \in Seq(Happenings), NEW e \in Happenings
    PROVE  /\ AnthropicFrames(e) = <<>> => Shown(Append(events, e)) = Shown(events)
           /\ \A f \in AFrames : AnthropicFrames(e) = <<f>> => Shown(Append(events, e)) = ReceiveFrame(Shown(events), f)
<1> DEFINE s == Joint(FramesShown, events)
           t == Joint(FramesShown, Append(events, e))
           r == AnthropicFrames(e)
<1>1. Maps(FramesShown, Happenings, Seq(AFrames)) /\ FramesShown[e] = r
  BY FramesOf DEF FramesShown, Maps
<1>2. t = s \o r /\ s \in Seq(AFrames)
  BY <1>1, JointAppend, JointTyped DEF Maps
<1>3. NewClient \in Clients /\ Steps(FrameStep, Clients, AFrames)
  BY NewClientTyped, FramesSteps
<1> HIDE DEF s, t, r
<1>4. ASSUME r = <<>> PROVE t = s
  BY <1>2, <1>4
<1>5. ASSUME NEW f \in AFrames, r = <<f>> PROVE Folded(FrameStep, NewClient, t) = ReceiveFrame(Folded(FrameStep, NewClient, s), f)
  <2>1. t = Append(s, f)
    BY <1>2, <1>5
  <2>2. Folded(FrameStep, NewClient, t) = FrameStep[<<Folded(FrameStep, NewClient, s), f>>]
    BY <1>2, <1>3, <2>1, FoldedAppend
  <2> DEFINE c == Folded(FrameStep, NewClient, s)
  <2>3. c \in Clients
    BY <1>2, <1>3, FoldedTyped
  <2> HIDE DEF c
  <2>4. FrameStep[<<c, f>>] = ReceiveFrame(c, f)
    BY <2>3 DEF FrameStep
  <2> QED
    BY <2>2, <2>4 DEF c
<1> QED
  BY <1>4, <1>5 DEF Shown, s, t, r
-----------------------------------------------------------------------------
(* From burst to burst to the end of a stream.                              *)

\* What holds when a stream opens, and with each item that is told.
Opens(G)               == <<0, <<Created>>>> \in G
Recounts(G, output, types) ==
    \A n \in 1..Len(output), base \in Seq(Live) :
        <<n - 1, base>> \in G => <<n, base \o Burst(output, types, n)>> \in G
Closes(G, output) ==
    \A n \in 1..Len(output), base \in Seq(Live) :
        <<Len(output), base>> \in G => <<Len(output), base \o Burst(output, <<"done">>, n)>> \in G

\* A set of prefixes of the stream that is closed under its bursts has the whole stream.
LEMMA StreamTold ==
    ASSUME NEW output \in Seq(Outs), NEW types \in Orders, NEW G,
           Opens(G), Recounts(G, output, types), Closes(G, output)
    PROVE  /\ <<Len(output), Begun(output, types, Len(output))>> \in G
           /\ <<Len(output), Closed(output, types, Len(output))>> \in G
<1> DEFINE N == Len(output)
           start == <<Created>>
           S == {n \in 0..N : Begun(output, types, n) \in Seq(Live) /\ <<n, Begun(output, types, n)>> \in G}
<1>0. N \in Nat /\ start \in Seq(Live) /\ N \in 0..N
  BY CreatedTyped
<1>1. 0 \in S
  <2>1. Begun(output, types, 0) = start
    BY <1>0, NoBurst DEF Begun
  <2>2. 0 \in 0..N /\ <<0, start>> \in G
    BY <1>0 DEF Opens
  <2> HIDE DEF start
  <2> QED
    BY <1>0, <2>1, <2>2
<1>2. ASSUME NEW n \in 1..N, n - 1 \in S PROVE n \in S
  <2> DEFINE base == Begun(output, types, n - 1)
             b == Burst(output, types, n)
  <2>1. base \in Seq(Live) /\ <<n - 1, base>> \in G
    BY <1>2
  <2>2. Begun(output, types, n) = base \o b /\ b \in Seq(Live)
    <3>1. start \o FlattenSeq(Firsts(Bursts(output, types), n))
             = (start \o FlattenSeq(Firsts(Bursts(output, types), n - 1))) \o Burst(output, types, n)
      BY <1>0, BurstBehind
    <3>2. b \in Seq(Live)
      BY <1>0, BurstBehind
    <3> QED
      BY <3>1, <3>2 DEF Begun
  <2>3. <<n, base \o b>> \in G
    BY <2>1 DEF Recounts
  <2> HIDE DEF base, b
  <2>4. base \o b \in Seq(Live)
    BY <2>1, <2>2
  <2>5. n \in 0..N
    BY <1>0
  <2>6. Begun(output, types, n) \in Seq(Live) /\ <<n, Begun(output, types, n)>> \in G
    BY <2>2, <2>3, <2>4
  <2> QED
    BY <2>5, <2>6
<1>3. ASSUME NEW n \in 0..N PROVE n \in S
  <2> HIDE DEF S, N
  <2> QED
    BY <1>0, <1>1, <1>2, UpTo
<1> DEFINE told == Begun(output, types, N)
           done == <<"done">>
           U == {n \in 0..N : Closed(output, types, n) \in Seq(Live) /\ <<N, Closed(output, types, n)>> \in G}
<1>4. told \in Seq(Live) /\ <<N, told>> \in G
  BY <1>0, <1>3
<1>5. 0 \in U
  <2>1. Closed(output, types, 0) = told
    BY <1>4, NoBurst DEF Closed
  <2> QED
    BY SMTT(30), <1>0, <1>4, <2>1
<1>6. ASSUME NEW n \in 1..N, n - 1 \in U PROVE n \in U
  <2> DEFINE base == Closed(output, types, n - 1)
             b == Burst(output, done, n)
  <2>1. base \in Seq(Live) /\ <<N, base>> \in G
    BY <1>6
  <2>2. Closed(output, types, n) = base \o b /\ b \in Seq(Live)
    <3>1. told \o FlattenSeq(Firsts(Bursts(output, done), n))
             = (told \o FlattenSeq(Firsts(Bursts(output, done), n - 1))) \o Burst(output, done, n)
      BY <1>4, BurstBehind
    <3>2. b \in Seq(Live)
      BY <1>4, BurstBehind
    <3> QED
      BY <3>1, <3>2 DEF Closed
  <2>3. <<N, base \o b>> \in G
    BY <2>1 DEF Closes
  <2> HIDE DEF base, b
  <2>4. base \o b \in Seq(Live)
    BY <2>1, <2>2
  <2>5. n \in 0..N
    BY <1>0
  <2>6. Closed(output, types, n) \in Seq(Live) /\ <<N, Closed(output, types, n)>> \in G
    BY <2>2, <2>3, <2>4
  <2> QED
    BY <2>5, <2>6
<1>7. ASSUME NEW n \in 0..N PROVE n \in U
  <2> HIDE DEF U, N
  <2> QED
    BY <1>0, <1>5, <1>6, UpTo
<1> QED
  BY <1>0, <1>4, <1>7

\* A burst, event by event.
LEMMA EventsBehind ==
    \A S : \A base \in Seq(S), a, b, c, d \in S :
        /\ base \o <<a>> = Append(base, a)
        /\ base \o <<a, b>> = Append(Append(base, a), b)
        /\ base \o <<a, b, c>> = Append(Append(Append(base, a), b), c)
        /\ base \o <<a, b, c, d>> = Append(Append(Append(Append(base, a), b), c), d)
<1> SUFFICES ASSUME NEW S, NEW base \in Seq(S), NEW a \in S, NEW b \in S, NEW c \in S, NEW d \in S
             PROVE  /\ base \o <<a>> = Append(base, a)
                    /\ base \o <<a, b>> = Append(Append(base, a), b)
                    /\ base \o <<a, b, c>> = Append(Append(Append(base, a), b), c)
                    /\ base \o <<a, b, c, d>> = Append(Append(Append(Append(base, a), b), c), d)
  OBVIOUS
<1> DEFINE one == <<a>>
           two == <<a, b>>
           three == <<a, b, c>>
           four == <<a, b, c, d>>
<1>1. base \o one = Append(base, a)
  OBVIOUS
<1>2. two = Append(one, b) /\ three = Append(two, c) /\ four = Append(three, d)
  OBVIOUS
<1>3. one \in Seq(S) /\ two \in Seq(S) /\ three \in Seq(S)
  OBVIOUS
<1> HIDE DEF one, two, three, four
<1>4. base \o two = Append(base \o one, b)
  BY <1>2, <1>3, AppendedBehind
<1>5. base \o three = Append(base \o two, c)
  BY <1>2, <1>3, AppendedBehind
<1>6. base \o four = Append(base \o three, d)
  BY <1>2, <1>3, AppendedBehind
<1> QED
  BY <1>1, <1>4, <1>5, <1>6 DEF one, two, three, four

\* The events of one item behind some events, one by one.
LEMMA BurstIs ==
    ASSUME NEW output \in Seq(Outs), NEW k \in DOMAIN output, NEW base \in Seq(Live)
    PROVE  LET added == EventOf(output, "added", k)
               delta == EventOf(output, "delta", k)
               done  == EventOf(output, "done", k)
           IN  /\ base \o Burst(output, <<"added", "delta">>, k) = Append(Append(base, added), delta)
               /\ base \o Burst(output, <<"added", "delta", "done">>, k)
                     = Append(Append(Append(base, added), delta), done)
               /\ base \o Burst(output, <<"added", "added", "delta", "done">>, k)
                     = Append(Append(Append(Append(base, added), added), delta), done)
               /\ base \o Burst(output, <<"done">>, k) = Append(base, done)
<1> DEFINE added == EventOf(output, "added", k)
           delta == EventOf(output, "delta", k)
           done  == EventOf(output, "done", k)
<1>1. added \in Live /\ delta \in Live /\ done \in Live
  BY LiveTyped
<1>2. /\ Burst(output, <<"added", "delta">>, k) = <<added, delta>>
      /\ Burst(output, <<"added", "delta", "done">>, k) = <<added, delta, done>>
      /\ Burst(output, <<"added", "added", "delta", "done">>, k) = <<added, added, delta, done>>
      /\ Burst(output, <<"done">>, k) = <<done>>
  <2>1. \A types : Burst(output, types, k) = [i \in DOMAIN types |-> EventOf(output, types[i], k)]
    BY DEF Burst, EventOf
  <2>2. Burst(output, <<"added", "delta">>, k) = <<added, delta>>
    BY <2>1
  <2>3. Burst(output, <<"added", "delta", "done">>, k) = <<added, delta, done>>
    BY <2>1
  <2>4. Burst(output, <<"added", "added", "delta", "done">>, k) = <<added, added, delta, done>>
    BY <2>1
  <2>5. Burst(output, <<"done">>, k) = <<done>>
    BY <2>1
  <2> QED
    BY <2>2, <2>3, <2>4, <2>5
<1> HIDE DEF added, delta, done
<1>3. base \o <<added, delta>> = Append(Append(base, added), delta)
  BY <1>1, EventsBehind
<1>4. base \o <<added, delta, done>> = Append(Append(Append(base, added), delta), done)
  BY <1>1, EventsBehind
<1>5. base \o <<added, added, delta, done>> = Append(Append(Append(Append(base, added), added), delta), done)
  BY <1>1, EventsBehind
<1>6. base \o <<done>> = Append(base, done)
  BY <1>1, EventsBehind
<1>7. /\ base \o Burst(output, <<"added", "delta">>, k) = Append(Append(base, added), delta)
      /\ base \o Burst(output, <<"added", "delta", "done">>, k) = Append(Append(Append(base, added), delta), done)
      /\ base \o Burst(output, <<"added", "added", "delta", "done">>, k)
            = Append(Append(Append(Append(base, added), added), delta), done)
      /\ base \o Burst(output, <<"done">>, k) = Append(base, done)
  BY <1>2, <1>3, <1>4, <1>5, <1>6
<1> QED
  BY <1>7 DEF added, delta, done
-----------------------------------------------------------------------------
(* At the end of each burst the blocks of a Messages client are complete.   *)

\* An event before the end, by its parts.
LEMMA LiveIs ==
    ASSUME NEW e \in Live
    PROVE  /\ e \in Happenings /\ e.item \in Outs /\ e.index \in Nat
           /\ e.type \in {"created", "added", "delta", "done"}
  BY DEF Live, Happenings

\* What one event more does to what a Messages client has.
LEMMA LiveShown ==
    ASSUME NEW events \in Seq(Live), NEW e \in Live
    PROVE  LET c == Shown(events)
               d == Shown(Append(events, e))
               i == PlaceOf(e.item, e.index)
               p == PartOf(e.item)
           IN  /\ events \in Seq(Happenings) /\ c \in Clients /\ Append(events, e) \in Seq(Live)
               /\ e.type = "added" /\ Shows(e.item) => d = Placed(c, i, p)
               /\ e.type = "delta" /\ Shows(e.item) => d = IF i \in DOMAIN c.blocks THEN Grown(c, i, p.id) ELSE c
               /\ e.type \in {"created", "done"} \/ ~Shows(e.item) => d = c
               /\ d.stop = c.stop
<1> DEFINE c == Shown(events)
           d == Shown(Append(events, e))
           i == PlaceOf(e.item, e.index)
           p == PartOf(e.item)
<1>0. e \in Happenings /\ e.type \in {"created", "added", "delta", "done"} /\ e.item \in Outs /\ e.index \in Nat
  BY LiveIs
<1>1. events \in Seq(Happenings) /\ Append(events, e) \in Seq(Live)
  BY DEF Happenings
<1>2. c \in Clients
  BY <1>1, ShownIs
<1>3. CASE e.type = "created"
  <2> DEFINE f == Frame("message_start", 0, NoTool, None)
  <2>1. AnthropicFrames(e) = <<f>>
    BY <1>0, <1>3, FramesOf
  <2>2. f \in AFrames /\ f.type = "message_start"
    BY DEF Frame, AFrames, Marks, Stops
  <2> HIDE DEF f
  <2>3. d = ReceiveFrame(c, f)
    BY <1>0, <1>1, <2>1, <2>2, ShownAppend
  <2> HIDE DEF c, d
  <2>4. d = c
    BY <1>2, <2>2, <2>3, FrameReceived
  <2> QED
    BY <1>1, <1>2, <1>3, <2>4 DEF c, d
<1>4. CASE e.type # "created" /\ ~Shows(e.item)
  <2>1. AnthropicFrames(e) = <<>>
    BY <1>0, <1>4, FramesOf
  <2>2. d = c
    BY <1>0, <1>1, <2>1, ShownAppend
  <2> QED
    BY <1>1, <1>2, <1>4, <2>2
<1>5. CASE e.type # "created" /\ Shows(e.item)
  <2> DEFINE f == FrameOf(e)
  <2>1. AnthropicFrames(e) = <<f>> /\ f \in BlockFrames
    BY <1>0, <1>5, FramesOf
  <2>2. f \in AFrames /\ f.type = e.type /\ f.index = i /\ f.part = p
    BY <2>1 DEF FrameOf, Frame, AFrames
  <2> HIDE DEF f
  <2>3. d = ReceiveFrame(c, f)
    BY <1>0, <1>1, <2>1, <2>2, ShownAppend
  <2> HIDE DEF c, d, i, p
  <2>4. /\ e.type = "added" => d = Placed(c, i, p)
        /\ e.type = "delta" => d = IF i \in DOMAIN c.blocks THEN Grown(c, i, p.id) ELSE c
        /\ e.type = "done" => d = c
    BY <1>2, <2>2, <2>3, FrameReceived
  <2>5. d.stop = c.stop
    BY <1>0, <1>5, <2>4 DEF Placed, Grown
  <2> QED
    BY <1>0, <1>1, <1>2, <1>5, <2>4, <2>5 DEF c, d, i, p
<1> QED
  BY <1>3, <1>4, <1>5

\* Nobody is told that a stream has ended before it has.
LEMMA ShownUnended ==
    ASSUME NEW events \in Seq(Live)
    PROVE  Shown(events).stop = None
<1> DEFINE T == {s \in Seq(Live) : Shown(s).stop = None}
<1>1. <<>> \in T
  BY ShownNothing, NewClientTyped
<1>2. ASSUME NEW s \in Seq(Live), NEW e \in Live, s \in T PROVE Append(s, e) \in T
  BY <1>2, LiveShown
<1> HIDE DEF T
<1>3. events \in T
  BY <1>1, <1>2, SequencesGrow
<1> QED
  BY <1>3 DEF T

\* Before and within the events of an item.
ShownWhole(events) == events \in Seq(Live) /\ Whole(Shown(events))
ShownOpen(events, e) ==
    /\ events \in Seq(Live)
    /\ Shows(e.item) => Open(Shown(events), PlaceOf(e.item, e.index), PartOf(e.item))
    /\ ~Shows(e.item) => Whole(Shown(events))

\* Announcing an item opens its block and its delta completes it.
LEMMA ShownSteps ==
    ASSUME NEW events, NEW e \in Live
    PROVE  /\ e.type = "added" /\ (ShownWhole(events) \/ ShownOpen(events, e)) => ShownOpen(Append(events, e), e)
           /\ e.type = "delta" /\ ShownOpen(events, e) => ShownWhole(Append(events, e))
           /\ e.type \in {"created", "done"} /\ ShownWhole(events) => ShownWhole(Append(events, e))
<1> SUFFICES ASSUME events \in Seq(Live)
             PROVE  /\ e.type = "added" /\ (ShownWhole(events) \/ ShownOpen(events, e)) => ShownOpen(Append(events, e), e)
                    /\ e.type = "delta" /\ ShownOpen(events, e) => ShownWhole(Append(events, e))
                    /\ e.type \in {"created", "done"} /\ ShownWhole(events) => ShownWhole(Append(events, e))
  BY DEF ShownWhole, ShownOpen
<1> DEFINE more == Append(events, e)
           c == Shown(events)
           d == Shown(more)
           i == PlaceOf(e.item, e.index)
           p == PartOf(e.item)
<1>0. more \in Seq(Live) /\ c \in Clients
  BY LiveShown
<1>1. /\ e.type = "added" /\ Shows(e.item) => d = Placed(c, i, p)
      /\ e.type = "delta" /\ Shows(e.item) => d = IF i \in DOMAIN c.blocks THEN Grown(c, i, p.id) ELSE c
      /\ e.type \in {"created", "done"} \/ ~Shows(e.item) => d = c
  BY LiveShown
<1>2. i \in Nat /\ (Shows(e.item) => p \in Spoke)
  BY LiveIs, PartOfTyped
<1> HIDE DEF c, d, i, p
<1>3. ASSUME e.type = "added", Shows(e.item), Whole(c) \/ Open(c, i, p) PROVE Open(d, i, p)
  BY <1>0, <1>1, <1>2, <1>3, PlacedOpen
<1>4. ASSUME e.type = "delta", Shows(e.item), Open(c, i, p) PROVE Whole(d)
  <2>1. i \in DOMAIN c.blocks
    BY <1>4 DEF Open
  <2> QED
    BY <1>0, <1>1, <1>2, <1>4, <2>1, GrownWhole
<1>5. e.type = "added" /\ (ShownWhole(events) \/ ShownOpen(events, e)) => ShownOpen(more, e)
  BY <1>0, <1>1, <1>3 DEF ShownWhole, ShownOpen, c, d, i, p
<1>6. e.type = "delta" /\ ShownOpen(events, e) => ShownWhole(more)
  BY <1>0, <1>1, <1>4 DEF ShownWhole, ShownOpen, c, d, i, p
<1>7. e.type \in {"created", "done"} /\ ShownWhole(events) => ShownWhole(more)
  BY <1>0, <1>1 DEF ShownWhole, ShownOpen, c, d
<1> QED
  BY <1>5, <1>6, <1>7

\* Behind the events of an item all blocks are complete.
LEMMA BurstShown ==
    ASSUME NEW output \in Seq(Outs), NEW types \in Orders \union {<<"done">>}, NEW k \in DOMAIN output,
           NEW base, ShownWhole(base)
    PROVE  ShownWhole(base \o Burst(output, types, k))
<1> DEFINE added == EventOf(output, "added", k)
           delta == EventOf(output, "delta", k)
           done  == EventOf(output, "done", k)
           one   == Append(base, added)
           two   == Append(one, added)
<1>0. base \in Seq(Live)
  BY DEF ShownWhole
<1>1. /\ base \o Burst(output, <<"added", "delta">>, k) = Append(one, delta)
      /\ base \o Burst(output, <<"added", "delta", "done">>, k) = Append(Append(one, delta), done)
      /\ base \o Burst(output, <<"added", "added", "delta", "done">>, k) = Append(Append(two, delta), done)
      /\ base \o Burst(output, <<"done">>, k) = Append(base, done)
  BY <1>0, BurstIs
<1>2. /\ added \in Live /\ delta \in Live /\ done \in Live
      /\ added.type = "added" /\ delta.type = "delta" /\ done.type = "done"
  BY LiveTyped DEF EventOf, Event
<1>3. \A events : ShownOpen(events, added) <=> ShownOpen(events, delta)
  BY DEF ShownOpen, EventOf, Event
<1> HIDE DEF added, delta, done, one, two
<1>4. ShownOpen(one, added) /\ ShownOpen(two, added)
  BY <1>2, ShownSteps DEF one, two
<1>5. ShownWhole(Append(one, delta)) /\ ShownWhole(Append(two, delta))
  BY <1>2, <1>3, <1>4, ShownSteps
<1>6. ShownWhole(Append(Append(one, delta), done)) /\ ShownWhole(Append(Append(two, delta), done))
      /\ ShownWhole(Append(base, done))
  BY <1>2, <1>5, ShownSteps
<1> QED
  BY <1>1, <1>5, <1>6 DEF Orders

\* All the events of a turn leave every block whole.
LEMMA TurnShown ==
    ASSUME NEW output \in Seq(Outs), NEW types \in Orders
    PROVE  /\ ShownWhole(Begun(output, types, Len(output)))
           /\ ShownWhole(Closed(output, types, Len(output)))
<1> DEFINE N == Len(output)
           G == {x \in (0..N) \X Seq(Live) : ShownWhole(x[2])}
<1>0. N \in Nat /\ DOMAIN output = 1..N
  OBVIOUS
<1>1. \A n \in 0..N : \A events : ShownWhole(events) => <<n, events>> \in G
  BY DEF ShownWhole
<1>2. \A n, events : <<n, events>> \in G => ShownWhole(events)
  OBVIOUS
<1> HIDE DEF G
<1>3. Opens(G)
  <2>1. ShownWhole(<<>>)
    BY ShownNothing, NewClientTyped DEF ShownWhole
  <2>2. Created \in Live /\ Created.type = "created"
    BY CreatedTyped DEF Created, Event
  <2>3. ShownWhole(Append(<<>>, Created))
    BY <2>1, <2>2, ShownSteps
  <2>4. Append(<<>>, Created) = <<Created>>
    OBVIOUS
  <2> QED
    BY <1>0, <1>1, <2>3, <2>4 DEF Opens
<1>4. Recounts(G, output, types)
  <2> SUFFICES ASSUME NEW n \in 1..N, NEW base \in Seq(Live), <<n - 1, base>> \in G
               PROVE  <<n, base \o Burst(output, types, n)>> \in G
    BY DEF Recounts
  <2>1. ShownWhole(base) /\ n \in DOMAIN output /\ n \in 0..N
    BY <1>0, <1>2
  <2>2. ShownWhole(base \o Burst(output, types, n))
    BY <2>1, BurstShown
  <2> QED
    BY <1>1, <2>1, <2>2
<1>5. Closes(G, output)
  <2> SUFFICES ASSUME NEW n \in 1..N, NEW base \in Seq(Live), <<N, base>> \in G
               PROVE  <<N, base \o Burst(output, <<"done">>, n)>> \in G
    BY DEF Closes
  <2>1. ShownWhole(base) /\ n \in DOMAIN output /\ N \in 0..N
    BY <1>0, <1>2
  <2>2. ShownWhole(base \o Burst(output, <<"done">>, n))
    BY <2>1, BurstShown
  <2> QED
    BY <1>1, <2>1, <2>2
<1> HIDE DEF N
<1>6. /\ <<Len(output), Begun(output, types, Len(output))>> \in G
      /\ <<Len(output), Closed(output, types, Len(output))>> \in G
  BY <1>3, <1>4, <1>5, StreamTold
<1> QED
  BY <1>2, <1>6
-----------------------------------------------------------------------------
(* What a Messages client is told has ended.                                *)

\* A complete block is a part that the model said.
LEMMA BlockPartsTyped ==
    ASSUME NEW b \in Blks, Complete(b)
    PROVE  BlockParts(b) \in Seq(Spoke)
<1>0. b.part \in Spoke /\ b.body \in Seq(Nat) /\ b.body = <<b.part.id>>
  BY DEF Blks, Complete
<1>1. CASE b.part.kind = "text"
  <2>1. BlockParts(b) = Each(Text, b.body)
    BY <1>1 DEF BlockParts
  <2>2. Each(Text, b.body) \in Seq(Texts)
    BY <1>0, NamedTyped
  <2> DEFINE r == Each(Text, b.body)
  <2> HIDE DEF r
  <2>3. r \in Seq(Spoke)
    BY <2>2 DEF r, Spoke
  <2> QED
    BY <2>1, <2>3 DEF r
<1>2. CASE b.part.kind # "text"
  <2>1. BlockParts(b) = <<b.part>>
    BY <1>0, <1>2 DEF BlockParts
  <2> QED
    BY <1>0, <2>1
<1> QED
  BY <1>1, <1>2

\* A client whose blocks are whole has texts and calls.
LEMMA ReceivedTyped ==
    ASSUME MaxParts \in Nat, NEW c \in Clients, Whole(c)
    PROVE  Received(c).parts \in Seq(Spoke) /\ Received(c).stop = c.stop
<1> DEFINE D == DOMAIN c.blocks
           all == [i \in 1..MaxParts |-> i - 1]
           order == Those(all, LAMBDA i : i \in D)
           g == [i \in D |-> BlockParts(c.blocks[i])]
           rest == FlattenSeq(Each(LAMBDA i : BlockParts(c.blocks[i]), order))
<1>0. c.texts \in Seq(Texts) /\ c.blocks \in Held
  BY DEF Clients
<1>1. Received(c).parts = c.texts \o rest /\ Received(c).stop = c.stop
  BY DEF Received
<1>2. order \in Seq(D)
  <2>1. all \in Seq(Nat) /\ DOMAIN all = 1..MaxParts /\ \A i \in 1..MaxParts : all[i] \in Nat
    <3>1. all \in [1..MaxParts -> Nat]
      OBVIOUS
    <3> HIDE DEF all
    <3>2. all \in Seq(Nat)
      BY <3>1, IsSequence
    <3> QED
      BY <3>1, <3>2
  <2> HIDE DEF all, D
  <2>2. [i \in DOMAIN all |-> IF all[i] \in D THEN <<all[i]>> ELSE <<>>] = Mapped(Picks(Nat, D), all)
    BY <2>1 DEF Mapped, Picks
  <2>3. order = Kept(Nat, D, all)
    BY <2>2 DEF Those, Kept, Joint
  <2>4. Kept(Nat, D, all) \in Seq(Nat \intersect D)
    BY <2>1, KeptTyped
  <2> DEFINE r == Kept(Nat, D, all)
  <2> HIDE DEF r
  <2>5. r \in Seq(D)
    BY <2>4 DEF r
  <2> QED
    BY <2>3, <2>5 DEF r
<1>3. Maps(g, D, Seq(Spoke))
  <2>1. \A i \in D : c.blocks[i] \in Blks /\ Complete(c.blocks[i])
    BY <1>0, HeldBlock DEF Whole
  <2>2. \A i \in D : BlockParts(c.blocks[i]) \in Seq(Spoke)
    BY <2>1, BlockPartsTyped
  <2> QED
    BY <2>2 DEF Maps
<1> HIDE DEF order
<1>4. Each(LAMBDA i : BlockParts(c.blocks[i]), order) = Mapped(g, order)
  <2>1. \A j \in DOMAIN order : order[j] \in D
    BY <1>2
  <2> HIDE DEF D
  <2> QED
    BY <2>1 DEF Each, Mapped
<1> HIDE DEF g, D
<1>5. Joint(g, order) \in Seq(Spoke)
  BY <1>2, <1>3, JointTyped DEF Maps
<1>6. rest = Joint(g, order)
  BY <1>4 DEF Joint
<1> HIDE DEF rest
<1>7. rest \in Seq(Spoke)
  BY <1>5, <1>6
<1>8. c.texts \in Seq(Spoke)
  BY <1>0 DEF Spoke
<1>9. c.texts \o rest \in Seq(Spoke)
  BY <1>7, <1>8
<1> QED
  BY <1>1, <1>9

\* What has come of a stream that ended, or broke off.
StreamedTo(turn, manner, finish, cut) ==
    LET all == Events(turn, manner, finish)
    IN  SubSeq(all, 1, IF cut = 0 THEN Len(all) ELSE cut)

\* What is sent of a turn is cut before its end, or it is the whole stream.
LEMMA StreamIs ==
    ASSUME ToolsTyped, requests \in Nat, NEW turn, TurnTyped(turn), NEW manner \in {"each", "late", "twice"},
           NEW finish \in Finishes, NEW cut \in Nat, cut < Len(Events(turn, manner, finish))
    PROVE  \/ StreamedTo(turn, manner, finish, cut) \in Seq(Live)
           \/ \E types \in Orders, last \in Ends, base \in Seq(Live) :
                 /\ \/ base = Begun(Output(turn), types, Len(Output(turn)))
                    \/ base = Closed(Output(turn), types, Len(Output(turn)))
                 /\ last = Terminal(Output(turn), finish)
                 /\ StreamedTo(turn, manner, finish, cut) = Append(base, last)
<1> DEFINE output == Output(turn)
           all == Events(turn, manner, finish)
           last == Terminal(output, finish)
<1>0. output \in Seq(Outs)
  BY OutputTyped
<1>1. PICK types \in Orders :
              /\ Begun(output, types, Len(output)) \in Seq(Live)
              /\ Closed(output, types, Len(output)) \in Seq(Live)
              /\ last \in Ends
              /\ \/ all = Begun(output, types, Len(output)) \o <<last>>
                 \/ all = Closed(output, types, Len(output)) \o <<last>>
  BY <1>0, EventsAre
<1>2. PICK base \in Seq(Live) :
         /\ base = Begun(output, types, Len(output)) \/ base = Closed(output, types, Len(output))
         /\ all = base \o <<last>>
  BY <1>1
<1>3. StreamedTo(turn, manner, finish, cut) = SubSeq(all, 1, IF cut = 0 THEN Len(all) ELSE cut)
  BY DEF StreamedTo
<1> HIDE DEF all, last
<1>4. CASE cut # 0
  <2>1. SubSeq(base \o <<last>>, 1, cut) \in Seq(Live)
    BY <1>2, CutLive DEF all
  <2> QED
    BY <1>2, <1>3, <1>4, <2>1
<1>5. CASE cut = 0
  <2>1. all = Append(base, last) /\ all \in Seq(Happenings)
    <3>1. last \in Happenings /\ base \in Seq(Happenings)
      BY <1>1, <1>2 DEF Happenings
    <3> QED
      BY <1>2, <3>1
  <2>2. SubSeq(all, 1, Len(all)) = all
    BY <2>1
  <2> QED
    BY <1>1, <1>2, <1>3, <1>5, <2>1, <2>2 DEF output, last
<1> QED
  BY <1>4, <1>5

\* A Messages client that is told the end has parts that a model can say.
LEMMA AnthropicStreamTyped ==
    ASSUME MaxParts \in Nat, ToolsTyped, requests \in Nat, NEW turn, TurnTyped(turn),
           NEW manner \in {"each", "late", "twice"},
           NEW finish \in Finishes, NEW cut \in Nat, cut < Len(Events(turn, manner, finish)),
           AnthropicStream(StreamedTo(turn, manner, finish, cut)).stop # None
    PROVE  AnthropicStream(StreamedTo(turn, manner, finish, cut)).parts \in Seq(Spoke)
<1> DEFINE ev == StreamedTo(turn, manner, finish, cut)
<1>1. ASSUME NEW s \in Seq(Happenings) PROVE AnthropicStream(s) = Received(Shown(s)) /\ Shown(s) \in Clients
  BY ShownIs DEF AnthropicStream
<1>2. CASE ev \in Seq(Live)
  <2>1. ev \in Seq(Happenings)
    <3> HIDE DEF ev
    <3> QED
      BY <1>2 DEF Happenings
  <2>2. Shown(ev).stop = None
    BY <1>2, ShownUnended
  <2>3. Received(Shown(ev)).stop = None
    BY <2>2 DEF Received
  <2> QED
    BY <1>1, <2>1, <2>3
<1>3. CASE \E types \in Orders, last \in Ends, base \in Seq(Live) :
                 /\ \/ base = Begun(Output(turn), types, Len(Output(turn)))
                    \/ base = Closed(Output(turn), types, Len(Output(turn)))
                 /\ ev = Append(base, last)
  <2>1. PICK types \in Orders, last \in Ends, base \in Seq(Live) :
                 /\ \/ base = Begun(Output(turn), types, Len(Output(turn)))
                    \/ base = Closed(Output(turn), types, Len(Output(turn)))
                 /\ ev = Append(base, last)
    BY <1>3
  <2>2. ShownWhole(base)
    BY <2>1, OutputTyped, TurnShown
  <2> DEFINE f == Frame("message_stop", 0, NoTool, StopReason(last.output, last.outcome))
  <2>3. last \in Happenings /\ last.type = "terminal" /\ base \in Seq(Happenings) /\ ev \in Seq(Happenings)
    <3>1. last \in Happenings /\ last.type = "terminal"
      BY DEF Happenings, Ends
    <3>2. base \in Seq(Happenings)
      BY DEF Happenings
    <3>3. Append(base, last) \in Seq(Happenings)
      BY <3>1, <3>2
    <3> QED
      BY <2>1, <3>1, <3>2, <3>3
  <2>4. AnthropicFrames(last) = <<f>>
    BY <2>3, FramesOf
  <2>5. f \in AFrames /\ f.type = "message_stop"
    <3>1. StopReason(last.output, last.outcome) \in Stops
      BY DEF StopReason, Stops
    <3> QED
      BY <3>1 DEF Frame, AFrames, Marks
  <2> HIDE DEF f
  <2>6. Shown(ev) = ReceiveFrame(Shown(base), f)
    BY <2>1, <2>3, <2>4, <2>5, ShownAppend
  <2>7. Shown(ev) = Stopped(Shown(base), f.stop) /\ Shown(ev) \in Clients
    BY <1>1, <2>3, <2>5, <2>6, FrameReceived
  <2>8. Whole(Shown(ev))
    BY <2>2, <2>7 DEF ShownWhole, Whole, Stopped
  <2> HIDE DEF ev
  <2>9. Received(Shown(ev)).parts \in Seq(Spoke)
    BY <2>7, <2>8, ReceivedTyped
  <2> QED
    BY <1>1, <2>3, <2>9 DEF ev
<1>4. \/ ev \in Seq(Live)
      \/ \E types \in Orders, last \in Ends, base \in Seq(Live) :
                 /\ \/ base = Begun(Output(turn), types, Len(Output(turn)))
                    \/ base = Closed(Output(turn), types, Len(Output(turn)))
                 /\ ev = Append(base, last)
  <2>1. \/ ev \in Seq(Live)
        \/ \E types \in Orders, last \in Ends, base \in Seq(Live) :
                   /\ \/ base = Begun(Output(turn), types, Len(Output(turn)))
                      \/ base = Closed(Output(turn), types, Len(Output(turn)))
                   /\ last = Terminal(Output(turn), finish)
                   /\ ev = Append(base, last)
    BY StreamIs, SMTT(60)
  <2> HIDE DEF ev
  <2> QED
    BY <2>1, Zenon
<1> HIDE DEF ev
<1>5. AnthropicStream(ev).parts \in Seq(Spoke)
  BY <1>2, <1>3, <1>4 DEF ev
<1> QED
  BY <1>5 DEF ev
-----------------------------------------------------------------------------
(* What a chat client has of a stream.                                      *)

\* The chat adapter between a stream and its client.
Numbered == UNION {[D -> Nat] : D \in {E \in SUBSET Nat : IsFiniteSet(E)}}
Adapters == [completed : BOOLEAN, sawCall : BOOLEAN, calls : Numbered]
Relays   == [a : Adapters, c : Clients]

Numbering(calls, x) == IF x \in DOMAIN calls THEN calls ELSE With(calls, x, Cardinality(DOMAIN calls))

\* A call that has no number yet gets the next one, and the others keep theirs.
LEMMA NumberedMore ==
    ASSUME NEW calls \in Numbered, NEW x \in Nat
    PROVE  /\ Numbering(calls, x) \in Numbered
           /\ DOMAIN calls \in SUBSET Nat /\ IsFiniteSet(DOMAIN calls) /\ Cardinality(DOMAIN calls) \in Nat
           /\ DOMAIN Numbering(calls, x) = DOMAIN calls \union {x}
           /\ x \notin DOMAIN calls => /\ Numbering(calls, x)[x] = Cardinality(DOMAIN calls)
                                       /\ Cardinality(DOMAIN calls \union {x}) = Cardinality(DOMAIN calls) + 1
           /\ Numbering(calls, x)[x] \in Nat
<1>1. PICK D \in SUBSET Nat : IsFiniteSet(D) /\ calls \in [D -> Nat]
  BY DEF Numbered
<1>2. DOMAIN calls = D /\ Cardinality(D) \in Nat
  BY <1>1, FS_CardinalityType
<1>3. CASE x \in D
  <2>1. Numbering(calls, x) = calls /\ D \union {x} = D
    BY <1>2, <1>3 DEF Numbering
  <2> QED
    BY <1>1, <1>2, <1>3, <2>1
<1>4. CASE x \notin D
  <2> DEFINE k == Cardinality(D)
             E == D \union {x}
             f == With(calls, x, k)
  <2>1. Numbering(calls, x) = f
    BY <1>2, <1>4 DEF Numbering
  <2>2. IsFiniteSet(E) /\ Cardinality(E) = k + 1 /\ E \in SUBSET Nat
    BY <1>1, <1>4, FS_AddElement
  <2>3. k \in Nat
    BY <1>2
  <2> HIDE DEF k
  <2>4. f = [y \in E |-> IF y = x THEN k ELSE calls[y]]
    BY <1>2 DEF With
  <2>5. f \in [E -> Nat] /\ f[x] = k /\ DOMAIN f = E
    BY <1>1, <2>3, <2>4
  <2> HIDE DEF f, E
  <2>6. f \in Numbered
    BY <2>2, <2>5 DEF Numbered
  <2> QED
    BY <1>1, <1>2, <1>4, <2>1, <2>2, <2>3, <2>5, <2>6 DEF k, E
<1> QED
  BY <1>3, <1>4

Numbers(a, x) == [completed |-> a.completed, sawCall |-> TRUE, calls |-> Numbering(a.calls, x)]

\* Numbering a call, as it is written in the model.
LEMMA NumbersTyped ==
    ASSUME NEW a \in Adapters, NEW x \in Nat
    PROVE  /\ [a EXCEPT !.sawCall = TRUE,
                        !.calls = IF x \in DOMAIN @ THEN @ ELSE With(@, x, Cardinality(DOMAIN @))] = Numbers(a, x)
           /\ Numbers(a, x) \in Adapters
           /\ Numbers(a, x).calls = Numbering(a.calls, x)
<1> DEFINE v == Numbering(a.calls, x)
<1>1. \A b \in BOOLEAN, w \in Numbered :
         [a EXCEPT !.sawCall = b, !.calls = w] = [completed |-> a.completed, sawCall |-> b, calls |-> w]
  <2> SUFFICES ASSUME NEW b \in BOOLEAN, NEW w \in Numbered
               PROVE  [a EXCEPT !.sawCall = b, !.calls = w] = [completed |-> a.completed, sawCall |-> b, calls |-> w]
    OBVIOUS
  <2> DEFINE one == [a EXCEPT !.sawCall = b]
  <2>1. a = [completed |-> a.completed, sawCall |-> a.sawCall, calls |-> a.calls]
    BY DEF Adapters
  <2>2. one = [completed |-> a.completed, sawCall |-> b, calls |-> a.calls]
    BY <2>1
  <2>3. [a EXCEPT !.sawCall = b, !.calls = w] = [one EXCEPT !.calls = w]
    BY <2>1
  <2> HIDE DEF one
  <2>4. [one EXCEPT !.calls = w] = [completed |-> a.completed, sawCall |-> b, calls |-> w]
    BY <2>2
  <2> QED
    BY <2>3, <2>4
<1>2. \A b \in BOOLEAN, w \in Numbered : [completed |-> a.completed, sawCall |-> b, calls |-> w] \in Adapters
  BY DEF Adapters
<1>3. v \in Numbered
  BY NumberedMore DEF Adapters
<1>4. [a EXCEPT !.sawCall = TRUE,
                !.calls = IF x \in DOMAIN @ THEN @ ELSE With(@, x, Cardinality(DOMAIN @))]
         = [a EXCEPT !.sawCall = TRUE, !.calls = v]
  BY DEF Numbering
<1> HIDE DEF v
<1> QED
  BY <1>1, <1>2, <1>3, <1>4 DEF Numbers, v

\* At most one chunk comes of an event.
OneFolding(F, c, s) ==
    F = [p \in SUBSET DOMAIN s |-> IF p = {} THEN c ELSE ReceiveChunk(F[p \ {Max(p)}], s[Max(p)])]

\* No chunk leaves the client as it is, and one chunk is received once.
LEMMA ChunksReceived ==
    ASSUME NEW c
    PROVE  /\ FoldLeft(ReceiveChunk, c, <<>>) = c
           /\ \A f : FoldLeft(ReceiveChunk, c, <<f>>) = ReceiveChunk(c, f)
<1>1. FoldLeft(ReceiveChunk, c, <<>>) = c
  <2> DEFINE s == <<>>
             G == CHOOSE G : OneFolding(G, c, s)
             F == [p \in SUBSET DOMAIN s |-> c]
  <2>1. DOMAIN s = {}
    OBVIOUS
  <2>2. OneFolding(F, c, s)
    <3>1. SUBSET DOMAIN s = {{}}
      BY <2>1
    <3> HIDE DEF s
    <3>2. F = [p \in {{}} |-> c]
      BY <3>1
    <3>3. [p \in SUBSET DOMAIN s |-> IF p = {} THEN c ELSE ReceiveChunk(F[p \ {Max(p)}], s[Max(p)])] = [p \in {{}} |-> c]
      BY <3>1
    <3> QED
      BY <3>2, <3>3 DEF OneFolding
  <2>3. OneFolding(G, c, s)
    BY <2>2
  <2>4. FoldLeft(ReceiveChunk, c, s) = G[{}]
    BY <2>1 DEF FoldLeft, MapThenFoldSet, OneFolding
  <2> HIDE DEF G, s
  <2>5. G[{}] = c
    <3>1. {} \in SUBSET DOMAIN s
      OBVIOUS
    <3> QED
      BY <2>3, <3>1 DEF OneFolding
  <2> QED
    BY <2>4, <2>5 DEF s
<1>2. ASSUME NEW f PROVE FoldLeft(ReceiveChunk, c, <<f>>) = ReceiveChunk(c, f)
  <2> DEFINE s == <<f>>
             G == CHOOSE G : OneFolding(G, c, s)
             F == [p \in SUBSET DOMAIN s |-> IF p = {} THEN c ELSE ReceiveChunk(c, f)]
  <2>1. DOMAIN s = {1} /\ s[1] = f /\ DOMAIN s = 1..1
    OBVIOUS
  <2>0. Max({1}) = 1 /\ {1} \ {1} = {}
    <3>1. {1} \in SUBSET (1..1) /\ {1} # {} /\ 1 \in Nat
      OBVIOUS
    <3> QED
      BY <3>1, Greatest
  <2>2. OneFolding(F, c, s)
    <3> HIDE DEF s
    <3>1. ASSUME NEW p \in SUBSET DOMAIN s
          PROVE  F[p] = IF p = {} THEN c ELSE ReceiveChunk(F[p \ {Max(p)}], s[Max(p)])
      <4>1. p = {} \/ p = {1}
        BY <2>1
      <4>2. {} \in SUBSET DOMAIN s
        OBVIOUS
      <4>3. F[{}] = c
        BY <4>2
      <4>4. CASE p = {1}
        <5>1. F[p] = ReceiveChunk(c, f)
          BY <4>4
        <5>2. F[p \ {Max(p)}] = c /\ s[Max(p)] = f
          BY <2>0, <2>1, <4>3, <4>4
        <5> QED
          BY <4>4, <5>1, <5>2
      <4> QED
        BY <4>1, <4>3, <4>4
    <3>2. F = [p \in SUBSET DOMAIN s |-> F[p]]
      OBVIOUS
    <3> HIDE DEF F
    <3> QED
      BY <3>1, <3>2 DEF OneFolding
  <2>3. OneFolding(G, c, s)
    BY <2>2
  <2>4. FoldLeft(ReceiveChunk, c, s) = G[DOMAIN s]
    BY DEF FoldLeft, MapThenFoldSet, OneFolding
  <2> HIDE DEF G, s
  <2>5. ASSUME NEW p \in SUBSET DOMAIN s
        PROVE  G[p] = IF p = {} THEN c ELSE ReceiveChunk(G[p \ {Max(p)}], s[Max(p)])
    BY <2>3 DEF OneFolding
  <2>6. {} \in SUBSET DOMAIN s /\ {1} \in SUBSET DOMAIN s /\ {1} # {}
    BY <2>1
  <2>7. G[{}] = c
    BY <2>5, <2>6
  <2>8. G[{1}] = ReceiveChunk(G[{1} \ {Max({1})}], s[Max({1})])
    BY <2>5, <2>6
  <2>9. G[{1}] = ReceiveChunk(c, f)
    BY <2>0, <2>1, <2>7, <2>8
  <2> QED
    BY <2>1, <2>4, <2>9 DEF s
<1> QED
  BY <1>1, <1>2

\* What a chat client makes of a chunk, by its type.
LEMMA ChunkReceived ==
    ASSUME NEW c \in Clients
    PROVE  /\ \A p \in Texts : ReceiveChunk(c, Frame("delta", 0, p, None)) = Heard(c, p)
           /\ \A i : \A p \in Calls : ReceiveChunk(c, Frame("added", i, p, None))
                                     = IF i \in DOMAIN c.blocks THEN c ELSE Placed(c, i, p)
           /\ \A i : \A p \in Calls : ReceiveChunk(c, Frame("delta", i, p, None))
                                     = IF i \in DOMAIN c.blocks THEN Grown(c, i, p.id) ELSE c
           /\ \A stop : ReceiveChunk(c, Frame("finish", 0, NoTool, stop)) = Stopped(c, stop)
<1>0. \A type, i, p, stop : LET f == Frame(type, i, p, stop)
                            IN  f.type = type /\ f.index = i /\ f.part = p /\ f.stop = stop
  BY DEF Frame
<1>1. ASSUME NEW p \in Texts PROVE ReceiveChunk(c, Frame("delta", 0, p, None)) = Heard(c, p)
  <2> DEFINE f == Frame("delta", 0, p, None)
  <2>1. f.type = "delta" /\ f.part = p /\ p.kind = "text"
    BY <1>0 DEF Texts
  <2> HIDE DEF f
  <2>2. ReceiveChunk(c, f) = [c EXCEPT !.texts = Append(@, p)]
    BY <2>1 DEF ReceiveChunk
  <2> QED
    BY <2>2, HeardIs DEF f
<1>2. ASSUME NEW i, NEW p \in Calls
      PROVE  ReceiveChunk(c, Frame("added", i, p, None)) = IF i \in DOMAIN c.blocks THEN c ELSE Placed(c, i, p)
  <2> DEFINE f == Frame("added", i, p, None)
  <2>1. f.type = "added" /\ f.part = p /\ f.index = i
    BY <1>0
  <2> HIDE DEF f
  <2>2. i \notin DOMAIN c.blocks => ReceiveChunk(c, f) = [c EXCEPT !.blocks = With(@, i, [part |-> p, body |-> <<>>])]
    BY <2>1 DEF ReceiveChunk
  <2>3. i \in DOMAIN c.blocks => ReceiveChunk(c, f) = c
    BY <2>1 DEF ReceiveChunk
  <2> QED
    BY <2>2, <2>3, PlacedIs DEF f
<1>3. ASSUME NEW i, NEW p \in Calls
      PROVE  ReceiveChunk(c, Frame("delta", i, p, None)) = IF i \in DOMAIN c.blocks THEN Grown(c, i, p.id) ELSE c
  <2> DEFINE f == Frame("delta", i, p, None)
  <2>1. f.type = "delta" /\ f.part = p /\ f.index = i /\ p.kind = "call" /\ p.id \in Nat
    BY <1>0 DEF Calls
  <2> HIDE DEF f
  <2>2. ReceiveChunk(c, f) = [c EXCEPT !.blocks[i].body = Append(@, p.id)]
    BY <2>1 DEF ReceiveChunk
  <2> DEFINE id == p.id
  <2>3. id \in Nat /\ ReceiveChunk(c, f) = [c EXCEPT !.blocks[i].body = Append(@, id)]
    BY <2>1, <2>2
  <2> HIDE DEF id
  <2>4. i \in DOMAIN c.blocks => [c EXCEPT !.blocks[i].body = Append(@, id)] = Grown(c, i, id)
    BY <2>3, GrownIs
  <2>5. i \notin DOMAIN c.blocks => [c EXCEPT !.blocks[i].body = Append(@, id)] = c
    <3> SUFFICES ASSUME i \notin DOMAIN c.blocks
                 PROVE  [c EXCEPT !.blocks[i].body = Append(@, id)] = c
      OBVIOUS
    <3> QED
      BY <2>3, GrownNowhere
  <2>6. ReceiveChunk(c, f) = IF i \in DOMAIN c.blocks THEN Grown(c, i, id) ELSE c
    BY <2>3, <2>4, <2>5
  <2> QED
    BY <2>6 DEF f, id
<1>4. ASSUME NEW stop PROVE ReceiveChunk(c, Frame("finish", 0, NoTool, stop)) = Stopped(c, stop)
  <2> DEFINE f == Frame("finish", 0, NoTool, stop)
  <2>1. f.type = "finish" /\ f.stop = stop
    BY <1>0
  <2> HIDE DEF f
  <2>2. ReceiveChunk(c, f) = [c EXCEPT !.stop = stop]
    BY <2>1 DEF ReceiveChunk
  <2> QED
    BY <2>2, StoppedIs DEF f
<1> QED
  BY <1>1, <1>2, <1>3, <1>4
-----------------------------------------------------------------------------
(* One event through the adapter.                                           *)

Passed(a, c) == [a |-> a, c |-> c]

\* One event through the adapter to the client.
LEMMA RelayedQuiet ==
    ASSUME NEW s \in Relays, NEW e \in Happenings,
           e.type \in {"created", "done"} \/ (e.type # "terminal" /\ ~Shows(e.item))
               \/ (e.type = "added" /\ e.item.type = "message")
    PROVE  Relay(s, e) = s
<1>0. e.type \in {"created", "added", "delta", "done", "terminal"}
  BY DEF Happenings, Live, Ends
<1>1. ChatChunks(s.a, e) = [a |-> s.a, chunks |-> <<>>]
  BY <1>0 DEF ChatChunks, Shows, IsFunctionCall
<1>2. FoldLeft(ReceiveChunk, s.c, <<>>) = s.c
  BY ChunksReceived
<1>3. Relay(s, e) = [a |-> s.a, c |-> s.c]
  BY <1>1, <1>2 DEF Relay
<1> QED
  BY <1>3 DEF Relays

\* A text delta is heard.
LEMMA RelayedText ==
    ASSUME NEW s \in Relays, NEW e \in Live, e.type = "delta", e.item.type = "message"
    PROVE  Relay(s, e) = Passed(s.a, Heard(s.c, PartOf(e.item))) /\ PartOf(e.item) \in Texts
<1> DEFINE p == PartOf(e.item)
           f == Frame("delta", 0, p, None)
           t == e.item.texts[1]
           ts == e.item.texts
           g(x) == Frame("delta", 0, Text(x), None)
<1>0. ts = <<t>> /\ p \in Texts /\ s.c \in Clients
  BY LiveIs, PartOfTyped DEF Relays
<1>1. ChatChunks(s.a, e).chunks = Each(g, ts) /\ ChatChunks(s.a, e).a = s.a
  BY DEF ChatChunks, IsFunctionCall
<1>2. Each(g, ts) = <<f>>
  <2>1. p = Text(t)
    BY DEF PartOf
  <2>2. g(t) = f
    BY <2>1
  <2> HIDE DEF g, ts, t
  <2>3. Each(g, ts) = <<g(t)>>
    BY <1>0 DEF Each
  <2> QED
    BY <2>2, <2>3
<1>3. FoldLeft(ReceiveChunk, s.c, <<f>>) = ReceiveChunk(s.c, f)
  BY ChunksReceived
<1>4. ReceiveChunk(s.c, f) = Heard(s.c, p)
  BY <1>0, ChunkReceived
<1> HIDE DEF f, g, p
<1>5. Relay(s, e) = [a |-> s.a, c |-> Heard(s.c, p)]
  BY <1>1, <1>2, <1>3, <1>4 DEF Relay
<1> QED
  BY <1>0, <1>5 DEF Passed, p

\* The number that the adapter gives a call, and the client its arguments.
LEMMA RelayedCall ==
    ASSUME NEW s \in Relays, NEW e \in Live, IsFunctionCall(e.item)
    PROVE  /\ e.type = "added" =>
                 Relay(s, e) = LET calls == Numbering(s.a.calls, e.index)
                                   i == calls[e.index]
                               IN  Passed(Numbers(s.a, e.index),
                                          IF i \in DOMAIN s.c.blocks THEN s.c ELSE Placed(s.c, i, PartOf(e.item)))
           /\ e.type = "delta" =>
                 Relay(s, e) = LET i == s.a.calls[e.index]
                               IN  Passed(s.a, IF i \in DOMAIN s.c.blocks THEN Grown(s.c, i, PartOf(e.item).id) ELSE s.c)
           /\ PartOf(e.item) \in Calls
<1> DEFINE p == PartOf(e.item)
           a == s.a
<1>0. /\ e.item.type = "call" /\ e.index \in Nat /\ s.c \in Clients /\ a \in Adapters
      /\ e.item.id \in Nat /\ e.item.tool \in AnyTools
  <2>1. e.item.type = "call"
    BY DEF IsFunctionCall
  <2> QED
    BY <2>1, LiveIs, OutTyped DEF Relays
<1>1. p = Call(e.item.id, e.item.tool) /\ p \in Calls
  <2>1. p = Call(e.item.id, e.item.tool)
    BY <1>0 DEF PartOf
  <2> QED
    BY <1>0, <2>1, PartTyped
<1>2. ASSUME e.type = "added"
      PROVE  Relay(s, e) = Passed(Numbers(a, e.index),
                                  IF Numbering(a.calls, e.index)[e.index] \in DOMAIN s.c.blocks THEN s.c
                                  ELSE Placed(s.c, Numbering(a.calls, e.index)[e.index], p))
  <2> DEFINE b == Numbers(a, e.index)
             i == Numbering(a.calls, e.index)[e.index]
             f == Frame("added", i, p, None)
  <2>1. ChatChunks(a, e) = ChatCallAdded(a, e)
    BY <1>0, <1>2 DEF ChatChunks
  <2>2. b.calls = Numbering(a.calls, e.index)
    BY <1>0, NumbersTyped
  <2>3. ChatCallAdded(a, e) = [a |-> b, chunks |-> <<Frame("added", b.calls[e.index], p, None)>>]
    BY <1>0, <1>1, NumbersTyped DEF ChatCallAdded
  <2>4. ChatChunks(a, e) = [a |-> b, chunks |-> <<f>>]
    BY <2>1, <2>2, <2>3
  <2>5. FoldLeft(ReceiveChunk, s.c, <<f>>) = ReceiveChunk(s.c, f)
    BY ChunksReceived
  <2>6. ReceiveChunk(s.c, f) = IF i \in DOMAIN s.c.blocks THEN s.c ELSE Placed(s.c, i, p)
    <3> DEFINE c == s.c
    <3>1. c \in Clients /\ p \in Calls
      BY <1>0, <1>1
    <3> HIDE DEF c, i, p
    <3>2. ReceiveChunk(c, f) = IF i \in DOMAIN c.blocks THEN c ELSE Placed(c, i, p)
      BY <3>1, ChunkReceived
    <3> QED
      BY <3>2 DEF c
  <2> HIDE DEF b, f, i, p
  <2>7. Relay(s, e) = [a |-> b, c |-> FoldLeft(ReceiveChunk, s.c, <<f>>)]
    BY <2>4 DEF Relay
  <2>8. Relay(s, e) = [a |-> b, c |-> IF i \in DOMAIN s.c.blocks THEN s.c ELSE Placed(s.c, i, p)]
    BY <2>5, <2>6, <2>7
  <2> QED
    BY <2>8 DEF Passed, b, i
<1>3. ASSUME e.type = "delta"
      PROVE  Relay(s, e) = Passed(a, IF a.calls[e.index] \in DOMAIN s.c.blocks
                                     THEN Grown(s.c, a.calls[e.index], p.id) ELSE s.c)
  <2> DEFINE i == a.calls[e.index]
             f == Frame("delta", i, p, None)
  <2>4. ChatChunks(a, e) = [a |-> a, chunks |-> <<f>>]
    BY <1>0, <1>1, <1>3 DEF ChatChunks
  <2>5. FoldLeft(ReceiveChunk, s.c, <<f>>) = ReceiveChunk(s.c, f)
    BY ChunksReceived
  <2>6. ReceiveChunk(s.c, f) = IF i \in DOMAIN s.c.blocks THEN Grown(s.c, i, p.id) ELSE s.c
    <3> DEFINE c == s.c
    <3>1. c \in Clients /\ p \in Calls
      BY <1>0, <1>1
    <3> HIDE DEF c, i, p
    <3>2. ReceiveChunk(c, f) = IF i \in DOMAIN c.blocks THEN Grown(c, i, p.id) ELSE c
      BY <3>1, ChunkReceived
    <3> QED
      BY <3>2 DEF c
  <2> HIDE DEF f, i, p
  <2>7. Relay(s, e) = [a |-> a, c |-> FoldLeft(ReceiveChunk, s.c, <<f>>)]
    BY <2>4 DEF Relay
  <2>8. Relay(s, e) = [a |-> a, c |-> IF i \in DOMAIN s.c.blocks THEN Grown(s.c, i, p.id) ELSE s.c]
    BY <2>5, <2>6, <2>7
  <2> QED
    BY <2>8 DEF Passed, i
<1> QED
  BY <1>1, <1>2, <1>3

\* What a chat client is told at the end.
Ending(a, e) == IF a.sawCall \/ HasFunctionCall(e.output) THEN "calls" ELSE "end"

\* The end of a turn stops the client, or leaves it as it is if it was told before.
LEMMA RelayedEnd ==
    ASSUME NEW s \in Relays, NEW e \in Ends
    PROVE  /\ Relay(s, e).a \in Adapters
           /\ Relay(s, e).c = s.c \/ Relay(s, e).c = Stopped(s.c, Ending(s.a, e))
           /\ Ending(s.a, e) \in Stops
           /\ Relay(s, e) = Passed(Relay(s, e).a, Relay(s, e).c)
<1> DEFINE a == s.a
           r == ChatChunks(a, e)
           stop == Ending(a, e)
           f == Frame("finish", 0, NoTool, stop)
<1>0. a \in Adapters /\ s.c \in Clients /\ e.type = "terminal"
  BY DEF Relays, Ends
<1>1. \/ r.a = a /\ r.chunks = <<>>
      \/ r.a \in Adapters /\ r.chunks = <<f>>
  <2>1. \A b \in BOOLEAN : [a EXCEPT !.completed = b] \in Adapters
    <3>1. \A b \in BOOLEAN : [a EXCEPT !.completed = b] = [completed |-> b, sawCall |-> a.sawCall, calls |-> a.calls]
      BY <1>0 DEF Adapters
    <3>2. \A b \in BOOLEAN : [completed |-> b, sawCall |-> a.sawCall, calls |-> a.calls] \in Adapters
      BY <1>0 DEF Adapters
    <3> QED
      BY <3>1, <3>2
  <2> DEFINE done == [a EXCEPT !.completed = TRUE]
  <2>2. done \in Adapters
    BY <2>1
  <2>3. FinishChat(a, e.output) = IF a.completed THEN [a |-> a, chunks |-> <<>>] ELSE [a |-> done, chunks |-> <<f>>]
    BY DEF FinishChat, Ending
  <2>4. r = FinishChat(a, e.output) \/ r = [a |-> a, chunks |-> <<>>]
    BY <1>0 DEF ChatChunks
  <2> HIDE DEF done, f, r
  <2>5. \/ r = [a |-> a, chunks |-> <<>>]
        \/ r = [a |-> done, chunks |-> <<f>>]
    BY <2>3, <2>4
  <2> QED
    BY <2>2, <2>5
<1>2. Relay(s, e) = [a |-> r.a, c |-> FoldLeft(ReceiveChunk, s.c, r.chunks)]
  BY DEF Relay
<1>3. FoldLeft(ReceiveChunk, s.c, <<>>) = s.c /\ FoldLeft(ReceiveChunk, s.c, <<f>>) = Stopped(s.c, stop)
  <2>1. FoldLeft(ReceiveChunk, s.c, <<f>>) = ReceiveChunk(s.c, f)
    BY ChunksReceived
  <2>2. ReceiveChunk(s.c, f) = Stopped(s.c, stop)
    BY <1>0, ChunkReceived
  <2> QED
    BY <2>1, <2>2, ChunksReceived
<1>4. stop \in Stops
  BY DEF Stops, Ending
<1> HIDE DEF r, f, stop
<1>5. CASE r.a = a /\ r.chunks = <<>>
  BY <1>0, <1>2, <1>3, <1>4, <1>5 DEF Passed, stop
<1>6. CASE r.a \in Adapters /\ r.chunks = <<f>>
  <2>1. Relay(s, e) = [a |-> r.a, c |-> Stopped(s.c, stop)]
    BY <1>2, <1>3, <1>6
  <2> QED
    BY <1>4, <1>6, <2>1 DEF Passed, stop
<1> QED
  BY <1>1, <1>5, <1>6

\* An adapter and a client make a relay.
LEMMA PassedTyped ==
    ASSUME NEW a \in Adapters, NEW c \in Clients
    PROVE  Passed(a, c) \in Relays /\ Passed(a, c).a = a /\ Passed(a, c).c = c
  BY DEF Passed, Relays

\* Relaying an event leads from relay to relay.
LEMMA RelayTyped ==
    ASSUME NEW s \in Relays, NEW e \in Happenings
    PROVE  Relay(s, e) \in Relays
<1>0. s.a \in Adapters /\ s.c \in Clients
  BY DEF Relays
<1>1. CASE e \in Ends
  <2>1. Relay(s, e).a \in Adapters /\ Relay(s, e) = Passed(Relay(s, e).a, Relay(s, e).c)
    BY <1>1, RelayedEnd
  <2>2. Relay(s, e).c \in Clients
    BY <1>0, <1>1, RelayedEnd, ClientsTyped
  <2> QED
    BY <2>1, <2>2, PassedTyped
<1>2. CASE e \in Live
  <2>0. e.type \in {"created", "added", "delta", "done"} /\ e.index \in Nat
    BY <1>2, LiveIs
  <2>1. CASE e.type \in {"created", "done"} \/ (e.type # "terminal" /\ ~Shows(e.item))
                \/ (e.type = "added" /\ e.item.type = "message")
    BY <2>1, RelayedQuiet
  <2>2. CASE e.type = "delta" /\ e.item.type = "message"
    <3>1. Relay(s, e) = Passed(s.a, Heard(s.c, PartOf(e.item))) /\ PartOf(e.item) \in Texts
      BY <1>2, <2>2, RelayedText
    <3> QED
      BY <1>0, <3>1, PassedTyped, ClientsTyped
  <2>3. CASE e.type = "added" /\ IsFunctionCall(e.item)
    <3> DEFINE i == Numbering(s.a.calls, e.index)[e.index]
               p == PartOf(e.item)
               b == Numbers(s.a, e.index)
               c == IF i \in DOMAIN s.c.blocks THEN s.c ELSE Placed(s.c, i, p)
    <3>1. Relay(s, e) = Passed(b, c) /\ p \in Calls
      BY <1>2, <2>3, RelayedCall
    <3>2. i \in Nat /\ b \in Adapters
      BY <1>0, <2>0, NumberedMore, NumbersTyped DEF Adapters
    <3>3. p \in Spoke
      BY <3>1 DEF Spoke
    <3> HIDE DEF i, p, b
    <3>4. c \in Clients
      BY <1>0, <3>2, <3>3, ClientsTyped
    <3> HIDE DEF c
    <3> QED
      BY <3>1, <3>2, <3>4, PassedTyped
  <2>4. CASE e.type = "delta" /\ IsFunctionCall(e.item)
    <3> DEFINE i == s.a.calls[e.index]
               p == PartOf(e.item)
               c == IF i \in DOMAIN s.c.blocks THEN Grown(s.c, i, p.id) ELSE s.c
    <3>1. Relay(s, e) = Passed(s.a, c) /\ p \in Calls
      BY <1>2, <2>4, RelayedCall
    <3>2. p.id \in Nat
      BY <3>1 DEF Calls
    <3> HIDE DEF i, p
    <3>4. c \in Clients
      BY <1>0, <3>2, ClientsTyped
    <3> HIDE DEF c
    <3> QED
      BY <1>0, <3>1, <3>4, PassedTyped
  <2> QED
    BY <2>0, <2>1, <2>2, <2>3, <2>4 DEF Shows
<1> QED
  BY <1>1, <1>2 DEF Happenings

\* The events pass through the adapter one by one.
RelayStep == [x \in Relays \X Happenings |-> Relay(x[1], x[2])]

RelayFolding(F, start, s) ==
    F = [p \in SUBSET DOMAIN s |-> IF p = {} THEN start ELSE Relay(F[p \ {Max(p)}], s[Max(p)])]

\* Relaying an event is a step.
LEMMA RelaySteps ==
    Steps(RelayStep, Relays, Happenings)
  BY RelayTyped DEF Steps, RelayStep

\* The fold over the events is a fold by that step.
LEMMA RelayFolded ==
    ASSUME NEW start \in Relays, NEW s \in Seq(Happenings)
    PROVE  FoldLeft(Relay, start, s) = Folded(RelayStep, start, s)
<1> DEFINE n == Len(s)
<1>0. n \in Nat /\ DOMAIN s = 1..n /\ Steps(RelayStep, Relays, Happenings)
  BY RelaySteps
<1>1. PICK F \in [SUBSET (1..n) -> Relays] : FoldsUp(F, RelayStep, start, s)
  BY <1>0, FoldsUpExists
<1>2. RelayFolding(F, start, s)
  <2>1. ASSUME NEW p \in SUBSET DOMAIN s
        PROVE  F[p] = IF p = {} THEN start ELSE Relay(F[p \ {Max(p)}], s[Max(p)])
    <3>1. F[p] = IF p = {} THEN start ELSE RelayStep[<<F[p \ {Max(p)}], s[Max(p)]>>]
      BY <1>0, <1>1 DEF FoldsUp
    <3>2. CASE p # {}
      <4>1. Max(p) \in 1..n
        BY <1>0, <3>2, Greatest
      <4>2. F[p \ {Max(p)}] \in Relays /\ s[Max(p)] \in Happenings
        BY <1>0, <4>1
      <4> DEFINE one == F[p \ {Max(p)}]
                 two == s[Max(p)]
      <4> HIDE DEF one, two
      <4>3. RelayStep[<<one, two>>] = Relay(one, two)
        BY <4>2 DEF RelayStep, one, two
      <4> QED
        BY <3>1, <3>2, <4>3 DEF one, two
    <3> QED
      BY <3>1, <3>2
  <2> QED
    BY <1>0, <2>1 DEF RelayFolding
<1> DEFINE G == CHOOSE G : RelayFolding(G, start, s)
           f == [i \in 0..n |-> G[1..i]]
<1>3. RelayFolding(G, start, s)
  BY <1>2
<1>4. FoldLeft(Relay, start, s) = G[1..n]
  BY <1>0 DEF FoldLeft, MapThenFoldSet, RelayFolding
<1> HIDE DEF G
<1>5. ASSUME NEW p \in SUBSET (1..n)
      PROVE  G[p] = IF p = {} THEN start ELSE Relay(G[p \ {Max(p)}], s[Max(p)])
  BY <1>0, <1>3 DEF RelayFolding
<1>6. f[0] = start
  <2>1. {} \in SUBSET (1..n) /\ 1..0 = {} /\ 0 \in 0..n
    BY <1>0
  <2>2. G[{}] = start
    BY <1>5, <2>1
  <2> QED
    BY <2>1, <2>2
<1>7. ASSUME NEW i \in 1..n, f[i - 1] \in Relays
      PROVE  f[i] = RelayStep[<<f[i - 1], s[i]>>]
  <2>1. 1..i \in SUBSET (1..n) /\ 1..i # {} /\ Max(1..i) = i /\ (1..i) \ {i} = 1..(i - 1)
    BY <1>0, Top
  <2>2. G[1..i] = Relay(G[1..(i - 1)], s[i])
    BY <1>5, <2>1
  <2>3. f[i] = G[1..i] /\ f[i - 1] = G[1..(i - 1)] /\ s[i] \in Happenings
    BY <1>0
  <2> DEFINE one == f[i - 1]
             two == s[i]
  <2>4. f[i] = Relay(one, two) /\ one \in Relays /\ two \in Happenings
    BY <1>7, <2>2, <2>3
  <2> HIDE DEF one, two, f
  <2>5. RelayStep[<<one, two>>] = Relay(one, two)
    BY <2>4 DEF RelayStep
  <2> QED
    BY <2>4, <2>5 DEF one, two
<1>8. f[n] = G[1..n]
  BY <1>0
<1> HIDE DEF f
<1>9. f[n] = Folded(RelayStep, start, s)
  BY <1>0, <1>6, <1>7, ChainIs
<1> QED
  BY <1>4, <1>8, <1>9
-----------------------------------------------------------------------------
(* A stream through the adapter.                                            *)

RelayStart == [a |-> NewChatStream, c |-> NewClient]

\* At the start nothing is numbered and the client is new.
LEMMA RelayStartTyped == RelayStart \in Relays /\ DOMAIN RelayStart.a.calls = {} /\ RelayStart.c = NewClient
<1>1. <<>> \in Numbered /\ DOMAIN <<>> = {}
  <2>1. <<>> \in [{} -> Nat] /\ {} \in SUBSET Nat /\ IsFiniteSet({})
    BY FS_EmptySet
  <2> QED
    BY <2>1 DEF Numbered
<1>2. \A b \in BOOLEAN, w \in Numbered : [completed |-> b, sawCall |-> b, calls |-> w] \in Adapters
  BY DEF Adapters
<1>3. NewChatStream \in Adapters /\ NewChatStream.calls = <<>>
  BY <1>1, <1>2 DEF NewChatStream
<1> DEFINE a == NewChatStream
           c == NewClient
<1>4. c \in Clients
  BY NewClientTyped
<1> HIDE DEF a, c
<1>5. [a |-> a, c |-> c] \in Relays
  BY <1>3, <1>4 DEF Relays, a
<1> QED
  BY <1>1, <1>3, <1>5 DEF RelayStart, a, c

\* What the chat client has of the events so far, and the adapter of the calls.
Relayed(events) == Folded(RelayStep, RelayStart, events)

\* What a chat client has of a stream of events.
LEMMA RelayedIs ==
    ASSUME NEW events \in Seq(Happenings)
    PROVE  ChatStream(events) = Received(Relayed(events).c) /\ Relayed(events) \in Relays /\ Relayed(events).c \in Clients
<1>1. FoldLeft(Relay, RelayStart, events) = Relayed(events)
  BY RelayStartTyped, RelayFolded DEF Relayed
<1>2. Relayed(events) \in Relays
  BY RelayStartTyped, RelaySteps, FoldedTyped DEF Relayed
<1> QED
  BY <1>1, <1>2 DEF ChatStream, RelayStart, Relays

\* Of no events it has nothing.
LEMMA RelayedNothing == Relayed(<<>>) = RelayStart
  BY RelayStartTyped, RelaySteps, FoldedEmpty DEF Relayed

\* Of one more event it has what relaying that event adds.
LEMMA RelayedAppend ==
    ASSUME NEW events \in Seq(Happenings), NEW e \in Happenings
    PROVE  Relayed(Append(events, e)) = Relay(Relayed(events), e)
<1> DEFINE s == Relayed(events)
<1>1. Relayed(Append(events, e)) = RelayStep[<<s, e>>]
  BY RelayStartTyped, RelaySteps, FoldedAppend DEF Relayed
<1>2. s \in Relays
  BY RelayedIs
<1> HIDE DEF s
<1>3. RelayStep[<<s, e>>] = Relay(s, e)
  BY <1>2 DEF RelayStep
<1> QED
  BY <1>1, <1>3 DEF s

\* Between two items: the calls have the numbers 0, 1, ... and are whole.
Tally(s, n) ==
    /\ s \in Relays
    /\ \A x \in DOMAIN s.a.calls : x < n
    /\ DOMAIN s.c.blocks = 0..(Cardinality(DOMAIN s.a.calls) - 1)
RelayWhole(s, n) == Tally(s, n) /\ Whole(s.c)
RelayOpen(s, e) ==
    /\ IsFunctionCall(e.item) => /\ Tally(s, e.index + 1) /\ e.index \in DOMAIN s.a.calls
                                 /\ Open(s.c, s.a.calls[e.index], PartOf(e.item))
    /\ ~IsFunctionCall(e.item) => RelayWhole(s, e.index + 1)

\* Complete up to an index is complete up to the next.
LEMMA WholeLater ==
    ASSUME NEW s, NEW n \in Nat, RelayWhole(s, n)
    PROVE  RelayWhole(s, n + 1)
<1>1. s \in Relays /\ \A x \in DOMAIN s.a.calls : x < n
  BY DEF RelayWhole, Tally
<1>2. DOMAIN s.a.calls \in SUBSET Nat
  BY <1>1, NumberedMore DEF Relays, Adapters
<1>3. \A x \in DOMAIN s.a.calls : x < n + 1
  BY <1>1, <1>2
<1> QED
  BY <1>3 DEF RelayWhole, Tally

\* Events a chat client never hears of.
LEMMA QuietEvents ==
    ASSUME NEW s \in Relays, NEW e \in Live, e.type \in {"created", "done"} \/ (e.type = "added" /\ ~IsFunctionCall(e.item))
    PROVE  Relay(s, e) = s
<1>1. e \in Happenings /\ e.type \in {"created", "added", "delta", "done"}
  BY LiveIs
<1>2. ~IsFunctionCall(e.item) => ~Shows(e.item) \/ e.item.type = "message"
  BY DEF Shows
<1> QED
  BY <1>1, <1>2, RelayedQuiet

\* A call is announced.
LEMMA CallAnnounced ==
    ASSUME NEW s, NEW e \in Live, e.type = "added", RelayWhole(s, e.index) \/ RelayOpen(s, e)
    PROVE  RelayOpen(Relay(s, e), e)
<1>0. e.index \in Nat /\ e.item \in Outs
  BY LiveIs
<1>1. CASE ~IsFunctionCall(e.item)
  <2>1. RelayWhole(s, e.index + 1)
    BY <1>0, <1>1, WholeLater DEF RelayOpen
  <2>2. Relay(s, e) = s
    BY <1>1, <2>1, QuietEvents DEF RelayWhole, Tally
  <2> QED
    BY <1>1, <2>1, <2>2 DEF RelayOpen
<1>2. CASE IsFunctionCall(e.item)
  <2> DEFINE calls == s.a.calls
             x == e.index
             i == Numbering(calls, x)[x]
             p == PartOf(e.item)
             a == Numbers(s.a, x)
             c == IF i \in DOMAIN s.c.blocks THEN s.c ELSE Placed(s.c, i, p)
  <2>0. s \in Relays /\ s.a \in Adapters /\ s.c \in Clients /\ calls \in Numbered
    BY <1>2 DEF RelayWhole, RelayOpen, Tally, Relays, Adapters
  <2>1. Relay(s, e) = Passed(a, c) /\ p \in Spoke
    <3>1. Relay(s, e) = Passed(a, c) /\ p \in Calls
      BY <1>2, <2>0, RelayedCall
    <3> QED
      BY <3>1 DEF Spoke
  <2>2. a \in Adapters /\ a.calls = Numbering(calls, x)
    BY <1>0, <2>0, NumbersTyped
  <2>3. /\ DOMAIN calls \in SUBSET Nat /\ Cardinality(DOMAIN calls) \in Nat
        /\ DOMAIN Numbering(calls, x) = DOMAIN calls \union {x}
        /\ x \notin DOMAIN calls => /\ i = Cardinality(DOMAIN calls)
                                    /\ Cardinality(DOMAIN calls \union {x}) = Cardinality(DOMAIN calls) + 1
        /\ i \in Nat
    BY <1>0, <2>0, NumberedMore
  <2>4. CASE RelayWhole(s, e.index)
    <3>1. x \notin DOMAIN calls /\ \A y \in DOMAIN calls : y < x
      BY <1>0, <2>4 DEF RelayWhole, Tally
    <3>2. DOMAIN s.c.blocks = 0..(i - 1) /\ Whole(s.c)
      BY <2>3, <2>4, <3>1 DEF RelayWhole, Tally
    <3>3. i \notin DOMAIN s.c.blocks
      BY <2>3, <3>2
    <3>4. c = Placed(s.c, i, p)
      BY <3>3
    <3>5. c \in Clients /\ Open(c, i, p)
      BY <2>0, <2>1, <2>3, <3>2, <3>4, ClientsTyped, PlacedOpen
    <3>6. DOMAIN c.blocks = 0..i
      <4>1. DOMAIN c.blocks = DOMAIN s.c.blocks \union {i}
        BY <3>4 DEF Placed, With
      <4> HIDE DEF c, i
      <4>2. i \in Nat /\ (0..(i - 1)) \union {i} = 0..i
        BY <2>3
      <4> QED
        BY <3>2, <4>1, <4>2
    <3>7. \A y \in DOMAIN a.calls : y < x + 1
      BY <1>0, <2>2, <2>3, <3>1
    <3>8. DOMAIN c.blocks = 0..(Cardinality(DOMAIN a.calls) - 1)
      BY <2>2, <2>3, <3>1, <3>6
    <3>9. x \in DOMAIN a.calls /\ a.calls[x] = i
      BY <2>2, <2>3
    <3> HIDE DEF a, c, i, x, p
    <3>10. Passed(a, c) \in Relays /\ Passed(a, c).a = a /\ Passed(a, c).c = c
      BY <2>2, <3>5, PassedTyped
    <3> QED
      BY <1>2, <2>1, <3>5, <3>7, <3>8, <3>9, <3>10 DEF RelayOpen, Tally, x, p
  <2>5. CASE RelayOpen(s, e)
    <3>1. Tally(s, x + 1) /\ x \in DOMAIN calls /\ Open(s.c, calls[x], p)
      BY <1>2, <2>5 DEF RelayOpen
    <3>2. Numbering(calls, x) = calls /\ i = calls[x] /\ a.calls = calls
      BY <2>2, <3>1 DEF Numbering
    <3>3. c = s.c
      BY <3>1, <3>2 DEF Open
    <3> HIDE DEF a, c, i, x, p
    <3>4. Passed(a, c) \in Relays /\ Passed(a, c).a = a /\ Passed(a, c).c = c
      BY <2>0, <2>2, <3>3, PassedTyped
    <3> QED
      BY <1>2, <2>1, <3>1, <3>2, <3>3, <3>4 DEF RelayOpen, Tally, x, p
  <2> QED
    BY <2>4, <2>5
<1> QED
  BY <1>1, <1>2

\* What an item says comes.
LEMMA ItemSaid ==
    ASSUME NEW s, NEW e \in Live, e.type = "delta", RelayOpen(s, e)
    PROVE  RelayWhole(Relay(s, e), e.index + 1)
<1>0. e.index \in Nat /\ e.item \in Outs /\ e \in Happenings /\ s \in Relays /\ s.a \in Adapters /\ s.c \in Clients
  <2>1. s \in Relays
    BY DEF RelayOpen, RelayWhole, Tally
  <2> QED
    BY <2>1, LiveIs DEF Relays
<1>1. CASE IsFunctionCall(e.item)
  <2> DEFINE x == e.index
             i == s.a.calls[x]
             p == PartOf(e.item)
             c == Grown(s.c, i, p.id)
  <2>1. Tally(s, x + 1) /\ x \in DOMAIN s.a.calls /\ Open(s.c, i, p)
    BY <1>1 DEF RelayOpen
  <2>2. i \in DOMAIN s.c.blocks
    BY <2>1 DEF Open
  <2>3. Relay(s, e) = Passed(s.a, c) /\ p \in Spoke
    <3>1. Relay(s, e) = Passed(s.a, c) /\ p \in Calls
      BY <1>0, <1>1, <2>2, RelayedCall
    <3> QED
      BY <3>1 DEF Spoke
  <2>4. i \in Nat
    BY <1>0, <2>2, HeldBlock DEF Clients
  <2>5. c \in Clients /\ Whole(c) /\ DOMAIN c.blocks = DOMAIN s.c.blocks
    BY <1>0, <2>1, <2>3, <2>4, GrownWhole
  <2> HIDE DEF c, x, i, p
  <2>6. Passed(s.a, c) \in Relays /\ Passed(s.a, c).a = s.a /\ Passed(s.a, c).c = c
    BY <1>0, <2>5, PassedTyped
  <2> QED
    BY <2>1, <2>3, <2>5, <2>6 DEF RelayWhole, Tally, x
<1>2. CASE ~IsFunctionCall(e.item)
  <2>1. RelayWhole(s, e.index + 1)
    BY <1>2 DEF RelayOpen
  <2>2. CASE e.item.type = "message"
    <3> DEFINE c == Heard(s.c, PartOf(e.item))
    <3>1. Relay(s, e) = Passed(s.a, c) /\ PartOf(e.item) \in Texts
      BY <1>0, <2>2, RelayedText
    <3>2. c \in Clients /\ c.blocks = s.c.blocks
      BY <1>0, <3>1, ClientsTyped DEF Heard
    <3> HIDE DEF c
    <3>3. Passed(s.a, c) \in Relays /\ Passed(s.a, c).a = s.a /\ Passed(s.a, c).c = c
      BY <1>0, <3>2, PassedTyped
    <3> QED
      BY <2>1, <3>1, <3>2, <3>3 DEF RelayWhole, Tally, Whole
  <2>3. CASE e.item.type # "message"
    <3>1. ~Shows(e.item)
      BY <1>2, <2>3 DEF Shows
    <3>2. Relay(s, e) = s
      BY <1>0, <3>1, RelayedQuiet
    <3> QED
      BY <2>1, <3>2
  <2> QED
    BY <2>2, <2>3
<1> QED
  BY <1>1, <1>2
-----------------------------------------------------------------------------
(* At the end of each burst the blocks of a chat client are complete.       *)

\* An event before the end does not stop the client.
LEMMA LiveRelayed ==
    ASSUME NEW events \in Seq(Live), NEW e \in Live
    PROVE  /\ Append(events, e) \in Seq(Live)
           /\ Relayed(events) \in Relays
           /\ Relayed(Append(events, e)) = Relay(Relayed(events), e)
           /\ Relayed(Append(events, e)).c.stop = Relayed(events).c.stop
<1> DEFINE s == Relayed(events)
<1>0. events \in Seq(Happenings) /\ e \in Happenings /\ Append(events, e) \in Seq(Live)
  BY LiveIs DEF Happenings
<1>1. s \in Relays /\ Relayed(Append(events, e)) = Relay(s, e)
  BY <1>0, RelayedIs, RelayedAppend
<1>2. s.a \in Adapters /\ s.c \in Clients
  BY <1>1 DEF Relays
<1> HIDE DEF s
<1>3. Relay(s, e).c.stop = s.c.stop
  <2>0. e.type \in {"created", "added", "delta", "done"} /\ e.index \in Nat
    BY LiveIs
  <2>1. CASE e.type \in {"created", "done"} \/ (e.type # "terminal" /\ ~Shows(e.item))
                \/ (e.type = "added" /\ e.item.type = "message")
    <3>1. Relay(s, e) = s
      BY <1>0, <1>1, <2>1, RelayedQuiet
    <3> QED
      BY <3>1
  <2>2. CASE e.type = "delta" /\ e.item.type = "message"
    <3>1. Relay(s, e) = Passed(s.a, Heard(s.c, PartOf(e.item)))
      BY <1>1, <2>2, RelayedText
    <3> QED
      BY <3>1 DEF Passed, Heard
  <2>3. CASE e.type = "added" /\ IsFunctionCall(e.item)
    <3> DEFINE i == Numbering(s.a.calls, e.index)[e.index]
               p == PartOf(e.item)
               b == Numbers(s.a, e.index)
               c == IF i \in DOMAIN s.c.blocks THEN s.c ELSE Placed(s.c, i, p)
    <3>1. Relay(s, e) = Passed(b, c)
      BY <1>1, <2>3, RelayedCall
    <3> HIDE DEF i, p, b
    <3>2. c.stop = s.c.stop
      BY DEF Placed
    <3> HIDE DEF c
    <3> QED
      BY <3>1, <3>2 DEF Passed
  <2>4. CASE e.type = "delta" /\ IsFunctionCall(e.item)
    <3> DEFINE i == s.a.calls[e.index]
               p == PartOf(e.item)
               c == IF i \in DOMAIN s.c.blocks THEN Grown(s.c, i, p.id) ELSE s.c
    <3>1. Relay(s, e) = Passed(s.a, c)
      BY <1>1, <2>4, RelayedCall
    <3> HIDE DEF i, p
    <3>2. c.stop = s.c.stop
      BY DEF Grown
    <3> HIDE DEF c
    <3> QED
      BY <3>1, <3>2 DEF Passed
  <2> QED
    BY <2>0, <2>1, <2>2, <2>3, <2>4 DEF Shows
<1> QED
  BY <1>0, <1>1, <1>3 DEF s

\* Before the end the client is not told of any.
LEMMA RelayedUnended ==
    ASSUME NEW events \in Seq(Live)
    PROVE  Relayed(events).c.stop = None
<1> DEFINE T == {s \in Seq(Live) : Relayed(s).c.stop = None}
<1>1. <<>> \in T
  BY RelayedNothing, RelayStartTyped, NewClientTyped
<1>2. ASSUME NEW s \in Seq(Live), NEW e \in Live, s \in T PROVE Append(s, e) \in T
  BY <1>2, LiveRelayed
<1> HIDE DEF T
<1>3. events \in T
  BY <1>1, <1>2, SequencesGrow
<1> QED
  BY <1>3 DEF T

\* Before and within the events of an item.
ChatWhole(events, n) == events \in Seq(Live) /\ RelayWhole(Relayed(events), n)
ChatOpen(events, e)  == events \in Seq(Live) /\ RelayOpen(Relayed(events), e)

\* Announcing an item opens its block and its delta completes it, for a chat client.
LEMMA ChatSteps ==
    ASSUME NEW events, NEW e \in Live
    PROVE  /\ e.type = "added" /\ (ChatWhole(events, e.index) \/ ChatOpen(events, e)) => ChatOpen(Append(events, e), e)
           /\ e.type = "delta" /\ ChatOpen(events, e) => ChatWhole(Append(events, e), e.index + 1)
           /\ \A n : e.type \in {"created", "done"} /\ ChatWhole(events, n) => ChatWhole(Append(events, e), n)
<1> SUFFICES ASSUME events \in Seq(Live)
             PROVE  /\ e.type = "added" /\ (ChatWhole(events, e.index) \/ ChatOpen(events, e)) => ChatOpen(Append(events, e), e)
                    /\ e.type = "delta" /\ ChatOpen(events, e) => ChatWhole(Append(events, e), e.index + 1)
                    /\ \A n : e.type \in {"created", "done"} /\ ChatWhole(events, n) => ChatWhole(Append(events, e), n)
  BY DEF ChatWhole, ChatOpen
<1> DEFINE more == Append(events, e)
           s == Relayed(events)
<1>1. more \in Seq(Live) /\ s \in Relays /\ Relayed(more) = Relay(s, e)
  BY LiveRelayed
<1> HIDE DEF s, more
<1>2. e.type = "added" /\ (RelayWhole(s, e.index) \/ RelayOpen(s, e)) => RelayOpen(Relay(s, e), e)
  BY CallAnnounced
<1>3. e.type = "delta" /\ RelayOpen(s, e) => RelayWhole(Relay(s, e), e.index + 1)
  BY ItemSaid
<1>4. e.type \in {"created", "done"} => Relay(s, e) = s
  BY <1>1, QuietEvents
<1> QED
  BY <1>1, <1>2, <1>3, <1>4 DEF ChatWhole, ChatOpen, s, more

\* Behind the events of an item all blocks of a chat client are complete.
LEMMA BurstRelayed ==
    ASSUME NEW output \in Seq(Outs), NEW types \in Orders, NEW k \in DOMAIN output,
           NEW base, ChatWhole(base, k - 1)
    PROVE  ChatWhole(base \o Burst(output, types, k), k)
<1> DEFINE added == EventOf(output, "added", k)
           delta == EventOf(output, "delta", k)
           done  == EventOf(output, "done", k)
           one   == Append(base, added)
           two   == Append(one, added)
<1>0. base \in Seq(Live) /\ k \in Nat /\ k - 1 + 1 = k
  BY DEF ChatWhole
<1>1. /\ base \o Burst(output, <<"added", "delta">>, k) = Append(one, delta)
      /\ base \o Burst(output, <<"added", "delta", "done">>, k) = Append(Append(one, delta), done)
      /\ base \o Burst(output, <<"added", "added", "delta", "done">>, k) = Append(Append(two, delta), done)
  BY <1>0, BurstIs
<1>2. /\ added \in Live /\ delta \in Live /\ done \in Live
      /\ added.type = "added" /\ delta.type = "delta" /\ done.type = "done"
      /\ added.index = k - 1 /\ delta.index = k - 1
  BY LiveTyped DEF EventOf, Event
<1>3. \A events : ChatOpen(events, added) <=> ChatOpen(events, delta)
  BY DEF ChatOpen, RelayOpen, EventOf, Event
<1> HIDE DEF added, delta, done, one, two
<1>4. ChatOpen(one, added) /\ ChatOpen(two, added)
  BY <1>2, ChatSteps DEF one, two
<1>5. ChatWhole(Append(one, delta), k) /\ ChatWhole(Append(two, delta), k)
  <2>1. ChatWhole(Append(one, delta), delta.index + 1) /\ ChatWhole(Append(two, delta), delta.index + 1)
    BY <1>2, <1>3, <1>4, ChatSteps
  <2> QED
    BY <1>0, <1>2, <2>1
<1>6. ChatWhole(Append(Append(one, delta), done), k) /\ ChatWhole(Append(Append(two, delta), done), k)
  BY <1>2, <1>5, ChatSteps
<1> QED
  BY <1>1, <1>5, <1>6 DEF Orders

\* Behind the events of all items too, whenever the items are closed.
LEMMA TurnRelayed ==
    ASSUME NEW output \in Seq(Outs), NEW types \in Orders
    PROVE  /\ ChatWhole(Begun(output, types, Len(output)), Len(output))
           /\ ChatWhole(Closed(output, types, Len(output)), Len(output))
<1> DEFINE N == Len(output)
           G == {x \in (0..N) \X Seq(Live) : ChatWhole(x[2], x[1])}
<1>0. N \in Nat /\ DOMAIN output = 1..N
  OBVIOUS
<1>1. \A n \in 0..N : \A events : ChatWhole(events, n) => <<n, events>> \in G
  BY DEF ChatWhole
<1>2. \A n, events : <<n, events>> \in G => ChatWhole(events, n)
  OBVIOUS
<1> HIDE DEF G
<1>3. Opens(G)
  <2>1. ChatWhole(<<>>, 0)
    <3>1. Tally(RelayStart, 0) /\ Whole(RelayStart.c)
      <4>1. Cardinality({}) = 0 /\ 0..(0 - 1) = {} /\ DOMAIN <<>> = {}
        BY FS_EmptySet
      <4>2. NewClient.blocks = <<>> /\ Whole(NewClient)
        BY NewClientTyped
      <4> QED
        BY <4>1, <4>2, RelayStartTyped DEF Tally
    <3>2. <<>> \in Seq(Live)
      OBVIOUS
    <3> QED
      BY <3>1, <3>2, RelayedNothing DEF ChatWhole, RelayWhole
  <2>2. Created \in Live /\ Created.type = "created"
    BY CreatedTyped DEF Created, Event
  <2>3. ChatWhole(Append(<<>>, Created), 0)
    BY <2>1, <2>2, ChatSteps
  <2>4. Append(<<>>, Created) = <<Created>>
    OBVIOUS
  <2> QED
    BY <1>0, <1>1, <2>3, <2>4 DEF Opens
<1>4. Recounts(G, output, types)
  <2> SUFFICES ASSUME NEW n \in 1..N, NEW base \in Seq(Live), <<n - 1, base>> \in G
               PROVE  <<n, base \o Burst(output, types, n)>> \in G
    BY DEF Recounts
  <2>1. ChatWhole(base, n - 1) /\ n \in DOMAIN output /\ n \in 0..N
    BY <1>0, <1>2
  <2>2. ChatWhole(base \o Burst(output, types, n), n)
    BY <2>1, BurstRelayed
  <2> QED
    BY <1>1, <2>1, <2>2
<1>5. Closes(G, output)
  <2> SUFFICES ASSUME NEW n \in 1..N, NEW base \in Seq(Live), <<N, base>> \in G
               PROVE  <<N, base \o Burst(output, <<"done">>, n)>> \in G
    BY DEF Closes
  <2> DEFINE e == EventOf(output, "done", n)
  <2>1. ChatWhole(base, N) /\ n \in DOMAIN output /\ N \in 0..N
    BY <1>0, <1>2
  <2>2. e \in Live /\ e.type = "done" /\ base \o Burst(output, <<"done">>, n) = Append(base, e)
    BY <2>1, LiveTyped, BurstIs DEF EventOf, Event
  <2> HIDE DEF e
  <2>3. ChatWhole(Append(base, e), N)
    BY <2>1, <2>2, ChatSteps
  <2> QED
    BY <1>1, <2>1, <2>2, <2>3
<1> HIDE DEF N
<1>6. /\ <<Len(output), Begun(output, types, Len(output))>> \in G
      /\ <<Len(output), Closed(output, types, Len(output))>> \in G
  BY <1>3, <1>4, <1>5, StreamTold
<1> QED
  BY <1>2, <1>6

\* A chat client that is told the end has parts that a model can say.
LEMMA ChatStreamTyped ==
    ASSUME MaxParts \in Nat, ToolsTyped, requests \in Nat, NEW turn, TurnTyped(turn),
           NEW manner \in {"each", "late", "twice"},
           NEW finish \in Finishes, NEW cut \in Nat, cut < Len(Events(turn, manner, finish)),
           ChatStream(StreamedTo(turn, manner, finish, cut)).stop # None
    PROVE  ChatStream(StreamedTo(turn, manner, finish, cut)).parts \in Seq(Spoke)
<1> DEFINE ev == StreamedTo(turn, manner, finish, cut)
<1>2. CASE ev \in Seq(Live)
  <2>1. ev \in Seq(Happenings)
    <3> HIDE DEF ev
    <3> QED
      BY <1>2 DEF Happenings
  <2>2. Relayed(ev).c.stop = None
    BY <1>2, RelayedUnended
  <2>3. Received(Relayed(ev).c).stop = None
    BY <2>2 DEF Received
  <2>4. ChatStream(ev) = Received(Relayed(ev).c)
    BY <2>1, RelayedIs
  <2> QED
    BY <2>3, <2>4
<1>3. CASE \E types \in Orders, last \in Ends, base \in Seq(Live) :
                 /\ \/ base = Begun(Output(turn), types, Len(Output(turn)))
                    \/ base = Closed(Output(turn), types, Len(Output(turn)))
                 /\ ev = Append(base, last)
  <2>1. PICK types \in Orders, last \in Ends, base \in Seq(Live) :
                 /\ \/ base = Begun(Output(turn), types, Len(Output(turn)))
                    \/ base = Closed(Output(turn), types, Len(Output(turn)))
                 /\ ev = Append(base, last)
    BY <1>3
  <2>2. ChatWhole(base, Len(Output(turn)))
    BY <2>1, OutputTyped, TurnRelayed
  <2>3. last \in Happenings /\ base \in Seq(Happenings) /\ ev \in Seq(Happenings)
    <3>1. last \in Happenings
      BY DEF Happenings
    <3>2. base \in Seq(Happenings)
      BY DEF Happenings
    <3>3. Append(base, last) \in Seq(Happenings)
      BY <3>1, <3>2
    <3> QED
      BY <2>1, <3>1, <3>2, <3>3
  <2> DEFINE s == Relayed(base)
             r == Relayed(ev)
  <2>4. r = Relay(s, last) /\ r.c \in Clients /\ s \in Relays /\ ChatStream(ev) = Received(r.c)
    BY <2>1, <2>3, RelayedAppend, RelayedIs
  <2>5. Whole(s.c)
    BY <2>2 DEF ChatWhole, RelayWhole
  <2> HIDE DEF r, s
  <2>6. r.c = s.c \/ \E stop \in Stops : r.c = Stopped(s.c, stop)
    BY <2>4, RelayedEnd
  <2>7. \A stop : Stopped(s.c, stop).blocks = s.c.blocks
    BY DEF Stopped
  <2>8. Whole(r.c)
    <3>1. r.c.blocks = s.c.blocks
      BY <2>6, <2>7
    <3> QED
      BY <2>5, <3>1 DEF Whole
  <2>9. Received(r.c).parts \in Seq(Spoke)
    BY <2>4, <2>8, ReceivedTyped
  <2> QED
    BY <2>4, <2>9
<1>4. \/ ev \in Seq(Live)
      \/ \E types \in Orders, last \in Ends, base \in Seq(Live) :
                 /\ \/ base = Begun(Output(turn), types, Len(Output(turn)))
                    \/ base = Closed(Output(turn), types, Len(Output(turn)))
                 /\ ev = Append(base, last)
  <2>1. \/ ev \in Seq(Live)
        \/ \E types \in Orders, last \in Ends, base \in Seq(Live) :
                   /\ \/ base = Begun(Output(turn), types, Len(Output(turn)))
                      \/ base = Closed(Output(turn), types, Len(Output(turn)))
                   /\ last = Terminal(Output(turn), finish)
                   /\ ev = Append(base, last)
    BY StreamIs
  <2> HIDE DEF ev
  <2> QED
    BY <2>1, Zenon
<1> HIDE DEF ev
<1>5. ChatStream(ev).parts \in Seq(Spoke)
  BY <1>2, <1>3, <1>4 DEF ev
<1> QED
  BY <1>5 DEF ev
-----------------------------------------------------------------------------
(* The inductive invariant.                                                 *)

\* The inductive invariant: everything is in its format, and the prompt is the
\* history as it was translated when it was sent.
PromptKept ==
    phase \in {"asked", "answered"} => prompt = Translated(history) /\ (route.via = "chat" => prompt.ok)

GotTyped == got.stop # None => got.parts \in Seq(Spoke)

Fresh == phase = "compose" => got = Nothing /\ history = <<>>

ConversationInv ==
    /\ RouteTyped /\ ToolsTyped /\ requests \in Nat
    /\ history \in Seq(Recorder(route.api))
    /\ phase \in {"compose", "asked", "answered", "rejected", "badtools"}
    /\ Fresh /\ GotTyped /\ PromptKept

\* The invariant holds at the start.
LEMMA InitConversation ==
    ASSUME Init
    PROVE  ConversationInv
<1>1. RouteTyped /\ ToolsTyped
  BY ConversationAssumption DEF Init, RouteTyped, Apis, ToolsTyped
<1>2. requests = 0 /\ phase = "compose" /\ got = Nothing /\ history = <<>> /\ got.stop = None
  BY DEF Init, Nothing
<1>3. <<>> \in Seq(Recorder(route.api))
  OBVIOUS
<1> QED
  BY <1>1, <1>2, <1>3 DEF ConversationInv, Fresh, GotTyped, PromptKept

\* Notes and words of the client.
LEMMA NoteTyped ==
    ASSUME RouteTyped, requests \in Nat,
           NEW note \in IF route.api = "messages" THEN {<<>>, <<[role |-> "system", blocks |-> <<Text(200 + requests)>>]>>}
                        ELSE {<<>>}
    PROVE  note \in Seq(Recorder(route.api))
<1>1. <<>> \in Seq(Recorder(route.api))
  OBVIOUS
<1>2. CASE route.api = "messages" /\ note # <<>>
  <2> DEFINE m == [role |-> "system", blocks |-> <<Text(200 + requests)>>]
  <2>1. note = <<m>>
    BY <1>2
  <2>2. Text(200 + requests) \in Texts
    BY TextTyped
  <2>3. <<Text(200 + requests)>> \in Seq(Texts)
    BY <2>2
  <2>4. m \in SystemMessages
    BY <2>3 DEF SystemMessages
  <2>5. m \in Recorder(route.api)
    BY <1>2, <2>4 DEF Recorder, BlockMessages
  <2> HIDE DEF m
  <2> QED
    BY <2>1, <2>5
<1> QED
  BY <1>1, <1>2

\* What a client asks is in its format.
LEMMA AskTyped ==
    ASSUME ConversationInv, Ask
    PROVE  \E messages \in Seq(Recorder(route.api)) : Request(messages)
<1> DEFINE asked == {i \in DOMAIN got.parts : got.parts[i].kind = "call"}
           words == {<<Text(t)>> : t \in {100 + requests} \union
                                           (IF route.api = "messages" THEN {300 + requests} ELSE {})}
           notes == IF route.api = "messages" THEN {<<>>, <<[role |-> "system", blocks |-> <<Text(200 + requests)>>]>>}
                    ELSE {<<>>}
           parts == got.parts
<1>0. RouteTyped /\ requests \in Nat /\ history \in Seq(Recorder(route.api))
  BY DEF ConversationInv
<1>1. parts \in Seq(Spoke)
  <2>1. phase = "compose" \/ got.stop # None
    BY DEF Ask
  <2>2. <<>> \in Seq(Spoke) /\ Nothing.parts = <<>>
    BY DEF Nothing
  <2> QED
    BY <2>1, <2>2 DEF ConversationInv, Fresh, GotTyped
<1> DEFINE Sends(order, note, more) ==
               Request(history \o Recorded("assistant", parts) \o note
                           \o Recorded("user", Each(Result, order) \o more))
<1>2. PICK order \in SetToSeqs({parts[i].id : i \in asked}), note \in notes, more \in {<<>>} \union words :
         Sends(order, note, more)
  <2>1. \E order \in SetToSeqs({parts[i].id : i \in asked}), note \in notes :
           \E more \in IF order = <<>> THEN words ELSE {<<>>} \union words : Sends(order, note, more)
    BY Zenon DEF Ask
  <2> HIDE DEF Sends, asked, parts, notes, words
  <2> QED
    BY <2>1, Zenon
<1>3. asked \in SUBSET DOMAIN parts
  OBVIOUS
<1> HIDE DEF asked, parts
<1>4. Each(Result, order) \in Seq(Wrote)
  BY <1>1, <1>3, OrdersTyped
<1>5. more \in Seq(Wrote)
  <2>1. more = <<>> \/ \E t \in Nat : more = <<Text(t)>>
    BY <1>0, <1>2
  <2>2. \A t \in Nat : Text(t) \in Wrote
    BY TextTyped DEF Wrote
  <2>3. \A t \in Nat : <<Text(t)>> \in Seq(Wrote)
    BY <2>2
  <2>4. <<>> \in Seq(Wrote)
    OBVIOUS
  <2> HIDE DEF words
  <2> QED
    BY <2>1, <2>3, <2>4
<1> DEFINE all == Each(Result, order) \o more
           one == Recorded("assistant", parts)
           two == Recorded("user", all)
           S == Recorder(route.api)
<1>6. all \in Seq(Wrote)
  BY <1>4, <1>5
<1>7. one \in Seq(S) /\ two \in Seq(S) /\ note \in Seq(S) /\ history \in Seq(S)
  <2> HIDE DEF all
  <2>1. SaysAs("assistant", parts) /\ SaysAs("user", all)
    BY <1>1, <1>6 DEF SaysAs
  <2> QED
    BY <1>0, <2>1, RecordTyped, NoteTyped
<1>8. Request(history \o one \o note \o two)
  BY <1>2
<1> HIDE DEF one, two, S
<1>9. history \o one \o note \o two \in Seq(S)
  BY <1>7
<1> QED
  BY <1>8, <1>9 DEF S

\* A request keeps the invariant.
LEMMA RequestStep ==
    ASSUME ConversationInv, NEW messages \in Seq(Recorder(route.api)), Request(messages),
           phase = "compose" \/ got.stop # None
    PROVE  ConversationInv'
<1>1. route' = route /\ tools' = tools /\ got' = got /\ history' = messages /\ prompt' = Translated(messages)
      /\ requests' = requests + 1
  BY DEF Request
<1>2. /\ phase' \in {"rejected", "badtools", "asked"}
      /\ phase' = "asked" => (route.via = "chat" => Translated(messages).ok)
  BY DEF Request
<1>4. Translated(history)' = Translated(messages)
  BY <1>1 DEF Translated, AsResponses
<1>5. (RouteTyped /\ ToolsTyped /\ requests \in Nat /\ history \in Seq(Recorder(route.api)))'
  BY <1>1 DEF ConversationInv, RouteTyped, ToolsTyped
<1>6. GotTyped'
  BY <1>1 DEF ConversationInv, GotTyped
<1>7. Fresh'
  BY <1>2 DEF Fresh
<1>8. PromptKept'
  BY <1>1, <1>2, <1>4 DEF PromptKept
<1> QED
  BY <1>2, <1>5, <1>6, <1>7, <1>8 DEF ConversationInv

\* An answer, whatever way it came.
LEMMA AnsweredStep ==
    ASSUME ConversationInv, NEW turn, NEW finish, NEW received, Answered(turn, finish, received),
           received.stop # None => received.parts \in Seq(Spoke)
    PROVE  ConversationInv'
<1>1. route' = route /\ tools' = tools /\ got' = received /\ history' = history /\ prompt' = prompt
      /\ requests' = requests /\ phase = "asked" /\ phase' = "answered"
  BY DEF Answered
<1>2. Translated(history)' = Translated(history)
  BY <1>1 DEF Translated, AsResponses
<1>3. (RouteTyped /\ ToolsTyped /\ requests \in Nat /\ history \in Seq(Recorder(route.api)))'
  BY <1>1 DEF ConversationInv, RouteTyped, ToolsTyped
<1>4. GotTyped' /\ Fresh'
  BY <1>1 DEF GotTyped, Fresh
<1>5. PromptKept'
  BY <1>1, <1>2 DEF ConversationInv, PromptKept
<1> QED
  BY <1>1, <1>3, <1>4, <1>5 DEF ConversationInv

\* An answer that comes whole keeps the invariant.
LEMMA WholeStep ==
    ASSUME ConversationInv, NEW turn \in Turns, NEW finish \in Finishes, AnswerWhole(turn, finish)
    PROVE  ConversationInv'
<1> DEFINE r == IF route.via = "chat" THEN ChatToResponses(ChatAnswer(turn, finish), Registered.tools)
                ELSE [ok |-> TRUE, status |-> Status(finish), output |-> Output(turn)]
           received == CASE route.api = "messages"  -> ResponsesToAnthropic(r.output, r.status)
                         [] route.api = "chat"      -> ResponsesToChat(r.output)
                         [] route.api = "responses" -> [parts |-> ItemParts(r.output), stop |-> r.status]
<1>0. ToolsTyped /\ requests \in Nat /\ RouteTyped /\ TurnTyped(turn)
  BY TurnsTyped DEF ConversationInv
<1>1. r.output \in Seq(Outs)
  <2>1. CASE route.via = "chat"
    BY <1>0, <2>1, ChatOutputTyped
  <2>2. CASE route.via # "chat"
    <3>1. r.output = Output(turn)
      BY <2>2
    <3> QED
      BY <1>0, <3>1, OutputTyped
  <2> QED
    BY <2>1, <2>2
<1>2. Answered(turn, finish, received)
  BY DEF AnswerWhole
<1>3. received.parts \in Seq(Spoke)
  <2> DEFINE output == r.output
             status == r.status
  <2> HIDE DEF r
  <2>1. output \in Seq(Outs)
    BY <1>1
  <2>2. CASE route.api = "messages"
    <3>1. received = ResponsesToAnthropic(output, status)
      BY <2>2
    <3> HIDE DEF output, status, received
    <3> QED
      BY <2>1, <3>1, AnthropicParts
  <2>3. CASE route.api = "chat"
    <3>1. received = ResponsesToChat(output)
      BY <2>3
    <3> HIDE DEF output, status, received
    <3> QED
      BY <2>1, <3>1, ChatParts
  <2>4. CASE route.api = "responses"
    <3>1. received.parts = ItemParts(output)
      BY <2>4
    <3> HIDE DEF output, status, received
    <3> QED
      BY <2>1, <3>1, ItemPartsTyped
  <2> QED
    BY <1>0, <2>2, <2>3, <2>4 DEF RouteTyped, Apis
<1> HIDE DEF received
<1> QED
  BY <1>2, <1>3, AnsweredStep

\* An answer that is streamed keeps the invariant, wherever it is cut.
LEMMA StreamedStep ==
    ASSUME ConversationInv, NEW turn \in Turns, NEW finish \in Finishes, NEW manner \in {"each", "late", "twice"},
           NEW cut \in Nat, AnswerStreamed(turn, manner, finish, cut)
    PROVE  ConversationInv'
<1> DEFINE ev == StreamedTo(turn, manner, finish, cut)
           received == CASE route.api = "messages"  -> AnthropicStream(ev)
                         [] route.api = "chat"      -> ChatStream(ev)
                         [] route.api = "responses" ->
                                IF cut = 0 THEN [parts |-> ItemParts(Output(turn)), stop |-> Status(finish)]
                                ELSE Nothing
<1>0. ToolsTyped /\ requests \in Nat /\ RouteTyped /\ TurnTyped(turn) /\ MaxParts \in Nat
  BY TurnsTyped, ConversationAssumption DEF ConversationInv
<1>1. cut < Len(Events(turn, manner, finish)) /\ Answered(turn, finish, received)
  BY DEF AnswerStreamed, StreamedTo
<1>2. received.stop # None => received.parts \in Seq(Spoke)
  <2>1. CASE route.api = "messages"
    <3>1. received = AnthropicStream(ev)
      BY <2>1
    <3> QED
      BY <1>0, <1>1, <3>1, AnthropicStreamTyped
  <2>2. CASE route.api = "chat"
    <3>1. received = ChatStream(ev)
      BY <2>2
    <3> QED
      BY <1>0, <1>1, <3>1, ChatStreamTyped
  <2>3. CASE route.api = "responses" /\ cut = 0
    <3>1. received.parts = ItemParts(Output(turn))
      BY <2>3
    <3> QED
      BY <1>0, <3>1, OutputTyped, ItemPartsTyped
  <2>4. CASE route.api = "responses" /\ cut # 0
    <3>1. received = Nothing
      BY <2>4
    <3>2. Nothing.stop = None
      BY DEF Nothing
    <3> HIDE DEF received
    <3> QED
      BY <3>1, <3>2
  <2> HIDE DEF received
  <2> QED
    BY <1>0, <2>1, <2>2, <2>3, <2>4 DEF RouteTyped, Apis
<1> HIDE DEF received
<1> QED
  BY <1>1, <1>2, AnsweredStep

\* Every step keeps the invariant.
LEMMA NextConversation ==
    ASSUME ConversationInv, [Next]_vars
    PROVE  ConversationInv'
<1>1. CASE Ask
  <2>1. PICK messages \in Seq(Recorder(route.api)) : Request(messages)
    BY <1>1, AskTyped
  <2>2. phase = "compose" \/ got.stop # None
    BY <1>1 DEF Ask
  <2> QED
    BY <2>1, <2>2, RequestStep
<1>2. CASE Retry
  <2>1. route' = route /\ tools' = tools /\ got' = Nothing /\ history' = history /\ prompt' = prompt
        /\ requests' = requests /\ phase = "answered" /\ phase' = "asked"
    BY <1>2 DEF Retry
  <2>2. Translated(history)' = Translated(history)
    BY <2>1 DEF Translated, AsResponses
  <2>3. (RouteTyped /\ ToolsTyped /\ requests \in Nat /\ history \in Seq(Recorder(route.api)))'
    BY <2>1 DEF ConversationInv, RouteTyped, ToolsTyped
  <2>4. GotTyped' /\ Fresh'
    BY <2>1 DEF GotTyped, Fresh, Nothing
  <2>5. PromptKept'
    BY <2>1, <2>2 DEF ConversationInv, PromptKept
  <2> QED
    BY <2>1, <2>3, <2>4, <2>5 DEF ConversationInv
<1>3. CASE Answer
  <2>1. PICK turn \in Turns, finish \in Finishes :
           \/ AnswerWhole(turn, finish)
           \/ \E manner \in Manners, cut \in Breaks \union {0} : AnswerStreamed(turn, manner, finish, cut)
    BY <1>3 DEF Answer
  <2>2. CASE AnswerWhole(turn, finish)
    BY <2>2, WholeStep
  <2>3. CASE \E manner \in Manners, cut \in Breaks \union {0} : AnswerStreamed(turn, manner, finish, cut)
    <3>1. PICK manner \in Manners, cut \in Breaks \union {0} : AnswerStreamed(turn, manner, finish, cut)
      BY <2>3
    <3>2. manner \in {"each", "late", "twice"} /\ cut \in Nat
      BY ConversationAssumption DEF Manners
    <3> QED
      BY <3>1, <3>2, StreamedStep
  <2> QED
    BY <2>1, <2>2, <2>3
<1>4. CASE UNCHANGED vars
  <2>1. route' = route /\ tools' = tools /\ got' = got /\ history' = history /\ prompt' = prompt
        /\ requests' = requests /\ phase' = phase
    BY <1>4 DEF vars
  <2>2. Translated(history)' = Translated(history)
    BY <2>1 DEF Translated, AsResponses
  <2> QED
    BY <2>1, <2>2 DEF ConversationInv, RouteTyped, ToolsTyped, GotTyped, Fresh, PromptKept
<1> QED
  BY <1>1, <1>2, <1>3, <1>4 DEF Next

\* Whatever was said, in whichever formats, and however its answers came: what
\* the model is shown is what the client's history says, once and in order.
THEOREM PromptIsHistoryHolds == Spec => []PromptIsHistory
<1>1. Init => ConversationInv
  BY InitConversation
<1>2. ConversationInv /\ [Next]_vars => ConversationInv'
  BY NextConversation
<1>3. ConversationInv => PromptIsHistory
  <2> SUFFICES ASSUME ConversationInv, phase = "asked"
               PROVE  PromptLines = Those(HistoryLines, LAMBDA l : l.role = "system")
                                        \o Those(HistoryLines, LAMBDA l : l.role # "system")
    BY DEF PromptIsHistory
  <2>1. RouteTyped /\ history \in Seq(Recorder(route.api)) /\ prompt = Translated(history)
        /\ (route.via = "chat" => prompt.ok)
    BY DEF ConversationInv, PromptKept
  <2>2. PromptLines = SystemOf(HistoryLines) \o OthersOf(HistoryLines)
    BY <2>1, TranslationKeepsWords
  <2> QED
    BY <2>2 DEF SystemOf, OthersOf
<1> QED
  BY <1>1, <1>2, <1>3, PTL DEF Spec
-----------------------------------------------------------------------------
(* Who speaks in an item and in a message.                                  *)

\* Lines of certain speakers.
By(roles) == {l \in Words : l.role \in roles}

\* A sequence over a set is one over a larger set.
LEMMA Widened ==
    ASSUME NEW S, NEW T, S \subseteq T, NEW s \in Seq(S)
    PROVE  s \in Seq(T)
  OBVIOUS

\* Behind something else, a sequence still ends as it does.
LEMMA LastBehind ==
    ASSUME NEW S, NEW s \in Seq(S), NEW t \in Seq(S), t # <<>>
    PROVE  s \o t \in Seq(S) /\ s \o t # <<>> /\ Last(s \o t) = Last(t) /\ Last(t) \in S
  BY DEF Last

\* A sequence that is not empty is what comes before its last member and that.
LEMMA SplitLast ==
    ASSUME NEW S, NEW s \in Seq(S), s # <<>>
    PROVE  \E front \in Seq(S) : s = Append(front, Last(s)) /\ Last(s) \in S
<1>1. Len(s) \in 1..Len(s)
  OBVIOUS
<1>2. Firsts(s, Len(s) - 1) \in Seq(S) /\ Firsts(s, Len(s)) = Append(Firsts(s, Len(s) - 1), s[Len(s)])
      /\ s[Len(s)] \in S
  BY <1>1, FirstsGrow
<1>3. Firsts(s, Len(s)) = s
  BY FirstsEnds
<1> QED
  BY <1>2, <1>3 DEF Last

\* If the last member is kept, it is the last one kept.
LEMMA KeptLast ==
    ASSUME NEW A, NEW K, NEW s \in Seq(A), s # <<>>, Last(s) \in K
    PROVE  Kept(A, K, s) # <<>> /\ Last(Kept(A, K, s)) = Last(s)
<1>1. PICK front \in Seq(A) : s = Append(front, Last(s)) /\ Last(s) \in A
  BY SplitLast
<1>2. Kept(A, K, s) = Append(Kept(A, K, front), Last(s))
  <2> DEFINE x == Last(s)
  <2>1. x \in A /\ x \in K /\ s = Append(front, x)
    BY <1>1
  <2> HIDE DEF x
  <2>2. Kept(A, K, Append(front, x)) = Append(Kept(A, K, front), x)
    BY <2>1, KeptAppend
  <2> QED
    BY <2>1, <2>2 DEF x
<1>3. Kept(A, K, front) \in Seq(A)
  <2>1. Kept(A, K, front) \in Seq(A \intersect K)
    BY KeptTyped
  <2> DEFINE k == Kept(A, K, front)
  <2> HIDE DEF k
  <2> QED
    BY <2>1 DEF k
<1> DEFINE k == Kept(A, K, front)
           x == Last(s)
<1>4. Append(k, x) # <<>> /\ Append(k, x)[Len(Append(k, x))] = x
  <2> HIDE DEF k, x
  <2> QED
    BY <1>1, <1>3 DEF k, x
<1> QED
  BY <1>2, <1>4 DEF Last

\* Whatever is kept was there.
LEMMA KeptAmong ==
    ASSUME NEW A, NEW K, NEW s \in Seq(A), NEW B, \A i \in DOMAIN s : s[i] \in B
    PROVE  \A j \in DOMAIN Kept(A, K, s) : Kept(A, K, s)[j] \in B
<1> DEFINE T == {r \in Seq(A) : (\A i \in DOMAIN r : r[i] \in B) => Kept(A, K, r) \in Seq(B)}
<1>1. <<>> \in T
  <2>1. Kept(A, K, <<>>) = <<>> /\ <<>> \in Seq(A) /\ <<>> \in Seq(B)
    BY KeptEmpty
  <2> QED
    BY <2>1
<1>2. ASSUME NEW r \in Seq(A), NEW x \in A, r \in T PROVE Append(r, x) \in T
  <2> DEFINE more == Append(r, x)
  <2>1. Kept(A, K, more) = IF x \in K THEN Append(Kept(A, K, r), x) ELSE Kept(A, K, r)
    BY KeptAppend
  <2>2. more \in Seq(A) /\ more[Len(r) + 1] = x /\ Len(r) + 1 \in DOMAIN more
        /\ \A i \in DOMAIN r : i \in DOMAIN more /\ more[i] = r[i]
    OBVIOUS
  <2> HIDE DEF more
  <2>3. ASSUME \A i \in DOMAIN more : more[i] \in B PROVE Kept(A, K, more) \in Seq(B)
    <3>1. x \in B /\ Kept(A, K, r) \in Seq(B)
      BY <1>2, <2>2, <2>3
    <3> DEFINE k == Kept(A, K, r)
    <3>2. Append(k, x) \in Seq(B)
      <4> HIDE DEF k
      <4> QED
        BY <3>1 DEF k
    <3> QED
      BY <2>1, <3>1, <3>2
  <2> QED
    BY <2>2, <2>3 DEF more
<1> HIDE DEF T
<1>3. s \in T
  BY <1>1, <1>2, SequencesGrow
<1>4. Kept(A, K, s) \in Seq(B)
  BY <1>3 DEF T
<1> QED
  BY <1>4
-----------------------------------------------------------------------------
\* What one speaker says, by whom.
LEMMA SpokenBy ==
    ASSUME NEW role \in Roles, NEW parts \in Seq(Parts)
    PROVE  /\ Len(Lines(role, parts)) = Len(parts)
           /\ Lines(role, parts) \in Seq(Words)
           /\ \A i \in DOMAIN parts : Lines(role, parts)[i] = Line(role, parts[i])
           /\ parts \in Seq(Spoke) => Lines(role, parts) \in Seq(By({role}))
           /\ parts \in Seq(Results) => Lines(role, parts) \in Seq(By({"tool"}))
<1> DEFINE n == Len(parts)
           lines == Lines(role, parts)
<1>1. n \in Nat /\ DOMAIN parts = 1..n /\ \A i \in DOMAIN parts : parts[i] \in Parts
  OBVIOUS
<1>2. DOMAIN lines = 1..n /\ lines = [i \in 1..n |-> Line(role, parts[i])]
  BY <1>1 DEF Lines, Each
<1>3. \A i \in 1..n : lines[i] = Line(role, parts[i]) /\ Line(role, parts[i]) \in Words
  BY <1>1, <1>2, LineTyped
<1>4. \A W : (\A i \in 1..n : lines[i] \in W) => lines \in Seq(W) /\ Len(lines) = n
  <2> HIDE DEF lines, n
  <2>1. ASSUME NEW W, \A i \in 1..n : lines[i] \in W PROVE lines \in Seq(W) /\ Len(lines) = n
    <3>1. lines \in [1..n -> W]
      BY <1>2, <2>1
    <3> QED
      BY <1>1, <3>1, IsSequence
  <2> QED
    BY <2>1
<1> HIDE DEF lines, n
<1>5. ASSUME parts \in Seq(Spoke) PROVE lines \in Seq(By({role}))
  <2>0. \A p \in Spoke : Line(role, p).role = role
    BY DEF Spoke, Texts, Calls, Line
  <2>1. \A i \in 1..n : parts[i] \in Spoke
    BY <1>1, <1>5
  <2>2. \A i \in 1..n : lines[i] \in By({role})
    BY <1>3, <2>0, <2>1 DEF By
  <2> QED
    BY <1>4, <2>2
<1>6. ASSUME parts \in Seq(Results) PROVE lines \in Seq(By({"tool"}))
  <2>0. \A p \in Results : Line(role, p).role = "tool"
    BY DEF Results, Line
  <2>1. \A i \in 1..n : parts[i] \in Results
    BY <1>1, <1>6
  <2>2. \A i \in 1..n : lines[i] \in By({"tool"})
    BY <1>3, <2>0, <2>1 DEF By
  <2> QED
    BY <1>4, <2>2
<1>7. lines \in Seq(Words) /\ Len(lines) = n
  BY <1>3, <1>4
<1>8. \A i \in 1..n : lines[i] = Line(role, parts[i])
  BY <1>3
<1> QED
  BY <1>1, <1>5, <1>6, <1>7, <1>8 DEF lines, n

\* Who speaks in an input item.
Speaker(item) == IF item.type = "message" THEN item.role
                 ELSE IF item.type = "call" THEN "assistant" ELSE "tool"

\* An item says something, and all of it is its speaker's.
LEMMA ItemSpeaks ==
    ASSUME NEW item \in Items
    PROVE  /\ ItemLines(item) # <<>>
           /\ ItemLines(item) \in Seq(By({Speaker(item)}))
<1>1. CASE item \in MessageItems
  <2> DEFINE ts == Each(Text, item.texts)
  <2>1. /\ ItemLines(item) = Lines(item.role, ts) /\ item.role \in Roles /\ Speaker(item) = item.role
        /\ item.texts \in Seq(Nat) /\ item.texts # <<>>
    BY <1>1 DEF MessageItems, ItemLines, Speaker, Roles
  <2>2. ts \in Seq(Parts) /\ ts \in Seq(Spoke) /\ ts # <<>>
    <3>1. ts \in Seq(Texts) /\ ts \in Seq(Parts)
      BY <2>1, NamedTyped
    <3>2. 1 \in DOMAIN item.texts
      BY <2>1
    <3>3. DOMAIN ts = DOMAIN item.texts
      BY DEF Each
    <3>4. ts \in Seq(Spoke)
      <4> HIDE DEF ts
      <4> QED
        BY <3>1 DEF Spoke
    <3> QED
      BY <3>1, <3>2, <3>3, <3>4
  <2> HIDE DEF ts
  <2>3. Len(Lines(item.role, ts)) = Len(ts) /\ Lines(item.role, ts) \in Seq(By({item.role}))
    BY <2>1, <2>2, SpokenBy
  <2>4. Len(ts) # 0
    BY <2>2
  <2>5. Lines(item.role, ts) # <<>>
    BY <2>3, <2>4
  <2> QED
    BY <2>1, <2>3, <2>5
<1>2. CASE item \in CallItems
  <2> DEFINE c == Call(item.id, item.tool)
  <2>1. ItemLines(item) = Lines("assistant", <<c>>) /\ Speaker(item) = "assistant" /\ c \in Calls /\ c \in Parts
    BY <1>2, PartTyped DEF CallItems, ItemLines, Speaker
  <2> HIDE DEF c
  <2>2. <<c>> \in Seq(Parts) /\ <<c>> \in Seq(Spoke) /\ Len(<<c>>) = 1 /\ "assistant" \in Roles
    BY <2>1 DEF Spoke, Roles
  <2>3. Len(Lines("assistant", <<c>>)) = 1 /\ Lines("assistant", <<c>>) \in Seq(By({"assistant"}))
    BY <2>2, SpokenBy
  <2>5. Lines("assistant", <<c>>) # <<>>
    BY SMTT(30), <2>3
  <2> QED
    BY <2>1, <2>3, <2>5
<1>3. CASE item \in OutputItems
  <2> DEFINE c == Result(item.id)
  <2>1. ItemLines(item) = Lines("tool", <<c>>) /\ Speaker(item) = "tool" /\ c \in Results /\ c \in Parts
    BY <1>3, PartTyped DEF OutputItems, ItemLines, Speaker
  <2> HIDE DEF c
  <2>2. <<c>> \in Seq(Parts) /\ <<c>> \in Seq(Results) /\ Len(<<c>>) = 1 /\ "tool" \in Roles
    BY <2>1 DEF Roles
  <2>3. Len(Lines("tool", <<c>>)) = 1 /\ Lines("tool", <<c>>) \in Seq(By({"tool"}))
    BY <2>2, SpokenBy
  <2>5. Lines("tool", <<c>>) # <<>>
    BY <2>3
  <2> QED
    BY <2>1, <2>3, <2>5
<1> QED
  BY <1>1, <1>2, <1>3 DEF Items

\* So does a chat message.
LEMMA MessageSpeaks ==
    ASSUME NEW m \in ChatMessages
    PROVE  ChatLines(m) # <<>> /\ ChatLines(m) \in Seq(By({m.role}))
<1>1. CASE m.role = "tool"
  <2> DEFINE c == Result(m.id)
  <2>1. ChatLines(m) = Lines("tool", <<c>>) /\ c \in Results /\ c \in Parts
    BY <1>1, ChatLinesOf, PartTyped
  <2> HIDE DEF c
  <2>2. <<c>> \in Seq(Parts) /\ <<c>> \in Seq(Results) /\ Len(<<c>>) = 1 /\ "tool" \in Roles
    BY <2>1 DEF Roles
  <2>3. Len(Lines("tool", <<c>>)) = 1 /\ Lines("tool", <<c>>) \in Seq(By({"tool"}))
    BY <2>2, SpokenBy
  <2>4. Lines("tool", <<c>>) # <<>>
    BY <2>3
  <2> QED
    BY <1>1, <2>1, <2>3, <2>4
<1>2. CASE m.role # "tool"
  <2> DEFINE ts == Each(Text, m.texts)
             cs == m.calls
             all == ts \o cs
  <2>1. /\ ChatLines(m) = Lines(m.role, all) /\ m.texts \in Seq(Nat) /\ cs \in Seq(Calls) /\ m.role \in Roles
        /\ m.texts # <<>> \/ cs # <<>>
    BY <1>2, ChatLinesOf DEF ChatMessages, Answers, Remarks, Replies
  <2>2. ts \in Seq(Texts) /\ (m.texts # <<>> => ts # <<>>)
    <3>1. ts \in Seq(Texts)
      BY <2>1, NamedTyped
    <3>2. m.texts # <<>> => 1 \in DOMAIN m.texts
      BY <2>1
    <3>3. DOMAIN ts = DOMAIN m.texts
      BY DEF Each
    <3> QED
      BY <3>1, <3>2, <3>3
  <2> HIDE DEF ts, cs
  <2>3. all \in Seq(Spoke) /\ all # <<>>
    BY <2>1, <2>2 DEF Spoke, cs
  <2>4. all \in Seq(Parts)
    BY <2>3, SpokenHeard
  <2> HIDE DEF all
  <2>5. Len(Lines(m.role, all)) = Len(all) /\ Lines(m.role, all) \in Seq(By({m.role}))
    BY <2>1, <2>3, <2>4, SpokenBy
  <2>6. Lines(m.role, all) # <<>>
    BY <2>3, <2>5
  <2> QED
    BY <2>1, <2>5, <2>6
<1> QED
  BY <1>1, <1>2
-----------------------------------------------------------------------------
(* How items and messages end, and whose they make a request.               *)

\* What is joined of things that end in something ends as the last of them does.
LEMMA JointLast ==
    ASSUME NEW A, NEW S, NEW g \in [A -> Seq(S)], NEW s \in Seq(A), s # <<>>, g[Last(s)] # <<>>
    PROVE  Joint(g, s) # <<>> /\ Last(Joint(g, s)) = Last(g[Last(s)]) /\ Last(g[Last(s)]) \in S
<1> DEFINE x == Last(s)
<1>1. PICK front \in Seq(A) : s = Append(front, x) /\ x \in A
  BY SplitLast
<1> HIDE DEF x
<1> DEFINE a == Joint(g, front)
           b == g[x]
<1>2. Joint(g, s) = a \o b /\ a \in Seq(S) /\ b \in Seq(S)
  BY <1>1, JointAppend, JointTyped
<1>3. b # <<>>
  BY DEF x
<1> HIDE DEF a, b
<1>4. a \o b # <<>> /\ Last(a \o b) = Last(b) /\ Last(b) \in S
  BY <1>2, <1>3, LastBehind
<1> QED
  BY <1>2, <1>4 DEF b, x

\* Items end with a line of the last one's speaker.
LEMMA ItemsEnd ==
    ASSUME NEW items \in Seq(Items), items # <<>>
    PROVE  ItemsSaid(items) # <<>> /\ Last(ItemsSaid(items)).role = Speaker(Last(items)) /\ Last(items) \in Items
<1> DEFINE x == Last(items)
           g == ItemWords
<1>1. g \in [Items -> Seq(Words)] /\ ItemsSaid(items) = Joint(g, items) /\ x \in Items
  BY ItemWordsTyped, ItemsSaidJoint, SplitLast
<1>2. g[x] = ItemLines(x) /\ g[x] # <<>> /\ g[x] \in Seq(By({Speaker(x)}))
  BY <1>1, ItemSpeaks DEF ItemWords
<1>3. ItemsSaid(items) # <<>> /\ Last(ItemsSaid(items)) = Last(g[x])
  <2> HIDE DEF g
  <2> QED
    BY <1>1, <1>2, JointLast
<1> HIDE DEF g, x
<1>4. Last(g[x]).role = Speaker(x)
  <2>1. Last(g[x]) \in By({Speaker(x)})
    BY <1>2 DEF Last
  <2> QED
    BY <2>1 DEF By
<1> QED
  BY <1>1, <1>3, <1>4 DEF x

\* So do chat messages.
LEMMA MessagesEnd ==
    ASSUME NEW messages \in Seq(ChatMessages), messages # <<>>
    PROVE  /\ ChatSaid(messages) # <<>> /\ Last(ChatSaid(messages)).role = Last(messages).role
           /\ Last(messages) \in ChatMessages
<1> DEFINE x == Last(messages)
           g == ChatWords
<1>1. g \in [ChatMessages -> Seq(Words)] /\ ChatSaid(messages) = Joint(g, messages) /\ x \in ChatMessages
  BY ChatWordsTyped, ChatSaidJoint, SplitLast
<1>2. g[x] = ChatLines(x) /\ g[x] # <<>> /\ g[x] \in Seq(By({x.role}))
  BY <1>1, MessageSpeaks DEF ChatWords
<1>3. ChatSaid(messages) # <<>> /\ Last(ChatSaid(messages)) = Last(g[x])
  <2> HIDE DEF g
  <2> QED
    BY <1>1, <1>2, JointLast
<1> HIDE DEF g, x
<1>4. Last(g[x]).role = x.role
  <2>1. Last(g[x]) \in By({x.role})
    BY <1>2 DEF Last
  <2> QED
    BY <2>1 DEF By
<1> QED
  BY <1>1, <1>3, <1>4 DEF x

\* The lines of items are those of their speakers.
LEMMA ItemsBy ==
    ASSUME NEW roles, NEW items \in Seq(Items), \A i \in DOMAIN items : Speaker(items[i]) \in roles
    PROVE  ItemsSaid(items) \in Seq(By(roles))
<1> DEFINE A == {x \in Items : Speaker(x) \in roles}
           g == [x \in A |-> ItemLines(x)]
<1>1. ASSUME NEW x \in A PROVE ItemLines(x) \in Seq(By(roles))
  <2>1. ItemLines(x) \in Seq(By({Speaker(x)})) /\ Speaker(x) \in roles
    BY ItemSpeaks
  <2>2. By({Speaker(x)}) \subseteq By(roles)
    BY <2>1 DEF By
  <2> QED
    BY <2>1, <2>2, Widened
<1>2. g \in [A -> Seq(By(roles))]
  BY <1>1
<1>3. Len(items) \in Nat /\ DOMAIN items = 1..Len(items) /\ \A i \in DOMAIN items : items[i] \in A
  OBVIOUS
<1>4. items \in Seq(A)
  <2> HIDE DEF A
  <2>1. items \in [1..Len(items) -> A]
    BY <1>3
  <2> QED
    BY <1>3, <2>1, IsSequence
<1>5. ItemsSaid(items) = Joint(g, items)
  <2>1. Each(ItemLines, items) = Mapped(g, items)
    BY <1>3 DEF Each, Mapped
  <2> QED
    BY <2>1 DEF ItemsSaid, Joint
<1> HIDE DEF g, A
<1>6. Joint(g, items) \in Seq(By(roles))
  BY <1>2, <1>4, JointTyped
<1> QED
  BY <1>5, <1>6

\* The lines of chat messages are those of their roles.
LEMMA MessagesBy ==
    ASSUME NEW roles, NEW messages \in Seq(ChatMessages), \A i \in DOMAIN messages : messages[i].role \in roles
    PROVE  ChatSaid(messages) \in Seq(By(roles))
<1> DEFINE A == {x \in ChatMessages : x.role \in roles}
           g == [x \in A |-> ChatLines(x)]
<1>1. ASSUME NEW x \in A PROVE ChatLines(x) \in Seq(By(roles))
  <2>1. ChatLines(x) \in Seq(By({x.role})) /\ x.role \in roles
    BY MessageSpeaks
  <2>2. By({x.role}) \subseteq By(roles)
    BY <2>1 DEF By
  <2> QED
    BY <2>1, <2>2, Widened
<1>2. g \in [A -> Seq(By(roles))]
  BY <1>1
<1>3. Len(messages) \in Nat /\ DOMAIN messages = 1..Len(messages) /\ \A i \in DOMAIN messages : messages[i] \in A
  OBVIOUS
<1>4. messages \in Seq(A)
  <2> HIDE DEF A
  <2>1. messages \in [1..Len(messages) -> A]
    BY <1>3
  <2> QED
    BY <1>3, <2>1, IsSequence
<1>5. ChatSaid(messages) = Joint(g, messages)
  <2>1. Each(ChatLines, messages) = Mapped(g, messages)
    BY <1>3 DEF Each, Mapped
  <2> QED
    BY <2>1 DEF ChatSaid, Joint
<1> HIDE DEF g, A
<1>6. Joint(g, messages) \in Seq(By(roles))
  BY <1>2, <1>4, JointTyped
<1> QED
  BY <1>5, <1>6

\* The output of a call is heard of.
LEMMA OutputHeard ==
    ASSUME NEW items \in Seq(Items), ~Brings(ItemsSaid(items), "tool")
    PROVE  \A i \in DOMAIN items : items[i].type # "output"
<1> DEFINE T == {s \in Seq(Items) : ~Brings(ItemsSaid(s), "tool") => \A i \in DOMAIN s : s[i].type # "output"}
<1>1. <<>> \in T
  OBVIOUS
<1>2. ASSUME NEW s \in Seq(Items), NEW x \in Items, s \in T PROVE Append(s, x) \in T
  <2> DEFINE more == Append(s, x)
             a == ItemsSaid(s)
             b == ItemLines(x)
  <2>1. ItemsSaid(more) = a \o b /\ a \in Seq(Words)
    BY ItemsSaidAppend, ItemsSaidTyped
  <2>2. b # <<>> /\ b \in Seq(By({Speaker(x)}))
    BY ItemSpeaks
  <2>3. more \in Seq(Items) /\ \A i \in DOMAIN more : more[i] = x \/ (i \in DOMAIN s /\ more[i] = s[i])
    OBVIOUS
  <2> HIDE DEF more, a, b
  <2>4. ASSUME ~Brings(ItemsSaid(more), "tool") PROVE \A i \in DOMAIN more : more[i].type # "output"
    <3>0. b \in Seq(Words)
      <4>1. By({Speaker(x)}) \subseteq Words
        BY DEF By
      <4> QED
        BY <2>2, <4>1, Widened
    <3>1. (a \o b)[Len(a) + 1] = b[1] /\ Len(a) + 1 \in DOMAIN (a \o b)
          /\ \A i \in DOMAIN a : i \in DOMAIN (a \o b) /\ (a \o b)[i] = a[i]
      BY <2>1, <2>2, <3>0
    <3>2. b[1].role # "tool" /\ ~Brings(a, "tool")
      BY <2>1, <2>4, <3>1 DEF Brings
    <3>3. b[1].role = Speaker(x)
      <4>1. b[1] \in By({Speaker(x)})
        BY <2>2
      <4> QED
        BY <4>1 DEF By
    <3>4. x.type # "output"
      BY <3>2, <3>3 DEF Speaker
    <3>5. \A i \in DOMAIN s : s[i].type # "output"
      BY <1>2, <3>2 DEF a
    <3> QED
      BY <2>3, <3>4, <3>5
  <2> QED
    BY <2>3, <2>4 DEF more
<1> HIDE DEF T
<1>3. items \in T
  BY <1>1, <1>2, SequencesGrow
<1> QED
  BY <1>3 DEF T
-----------------------------------------------------------------------------
\* Whose a chat request is: the last line says it, unless it is the user's.
LEMMA MessagesAttributed ==
    ASSUME NEW messages \in Seq(ChatMessages), ChatSaid(messages) # <<>>, Last(ChatSaid(messages)).role # "user"
    PROVE  MessagesInitiator(messages)
              = IF Last(ChatSaid(messages)).role \in {"assistant", "tool"} THEN "agent" ELSE "user"
<1>1. messages # <<>>
  BY ChatSaidEmpty
<1>2. Last(ChatSaid(messages)).role = messages[Len(messages)].role
  BY <1>1, MessagesEnd DEF Last
<1> QED
  BY <1>1, <1>2 DEF MessagesInitiator

\* What is appended comes last.
LEMMA AppendedLast ==
    ASSUME NEW S, NEW s \in Seq(S), NEW x \in S
    PROVE  Append(s, x) # <<>> /\ Append(s, x)[Len(Append(s, x))] = x
  OBVIOUS

\* Then it is what the words ask for.
LEMMA WordsAttributed ==
    ASSUME NEW S, NEW ms \in Seq(S), NEW m \in S, NEW t, m = ChatMessage("user", <<t>>, <<>>)
    PROVE  MessagesInitiator(Append(ms, m)) = IF t \in Suggestions THEN "agent" ELSE "user"
<1> DEFINE all == Append(ms, m)
<1>1. all # <<>> /\ all[Len(all)] = m
  BY AppendedLast
<1>2. m.role = "user" /\ m.texts = <<t>> /\ <<t>> # <<>> /\ <<t>>[1] = t
  BY DEF ChatMessage
<1>3. SuggestionMode(m) <=> t \in Suggestions
  BY <1>2 DEF SuggestionMode
<1> HIDE DEF all
<1>4. MessagesInitiator(all) = IF t \in Suggestions THEN "agent" ELSE "user"
  BY <1>1, <1>2, <1>3 DEF MessagesInitiator
<1> QED
  BY <1>4 DEF all

\* Behind results no texts are left over.
LEMMA ResultsGathered ==
    ASSUME NEW s \in Emptied, NEW rs \in Seq(Results)
    PROVE  Folded(BlockStep("user"), s, rs) \in Emptied
<1> DEFINE A == Blocks("user")
           step == BlockStep("user")
<1>0. Steps(step, Gathered, A) /\ s \in Gathered /\ s.texts = <<>> /\ Results \subseteq A
  BY BlocksSteps DEF Emptied, Blocks
<1>1. \A x \in Gathered, p \in A : step[<<x, p>>] = AppendBlock(x, "user", p)
  BY DEF BlockStep
<1> HIDE DEF A, step
<1>2. CASE rs = <<>>
  <2>1. Folded(step, s, <<>>) = s
    BY <1>0, FoldedEmpty
  <2> QED
    BY <1>2, <2>1 DEF step
<1>3. CASE rs # <<>>
  <2>1. PICK front \in Seq(Results) : rs = Append(front, Last(rs)) /\ Last(rs) \in Results
    BY <1>3, SplitLast
  <2> DEFINE p == Last(rs)
             x == Folded(step, s, front)
  <2>2. front \in Seq(A) /\ p \in A
    BY <1>0, <2>1
  <2>3. x \in Gathered /\ Folded(step, s, Append(front, p)) = step[<<x, p>>]
    BY <1>0, <2>2, FoldedTyped, FoldedAppend
  <2> HIDE DEF x
  <2>4. p.kind = "result" /\ p \in Parts
    BY <2>1 DEF Results, Parts
  <2> HIDE DEF p
  <2>5. step[<<x, p>>] = [FlushText(x, "user") EXCEPT !.items = Append(@, OutputItem(p.id))]
    BY <1>1, <2>2, <2>3, <2>4 DEF AppendBlock
  <2>6. FlushText(x, "user") \in Gathered /\ FlushText(x, "user").texts = <<>>
    BY <2>3, Flushed DEF Roles
  <2>7. step[<<x, p>>].texts = <<>>
    BY <2>5, <2>6 DEF Gathered
  <2>8. Folded(step, s, rs) \in Gathered
    <3>1. rs \in Seq(A)
      BY <1>0
    <3> QED
      BY <1>0, <3>1, FoldedTyped
  <2> QED
    BY <2>1, <2>3, <2>7, <2>8 DEF p, step, Emptied
<1> QED
  BY <1>2, <1>3

\* Words behind results become the last item.
WordsBehind(rs, t) == [role |-> "user", blocks |-> Append(rs, Text(t))]

\* MISSING WordsAppended
LEMMA WordsAppended ==
    ASSUME NEW s \in Emptied, NEW rs \in Seq(Results), NEW t \in Nat
    PROVE  /\ WordsBehind(rs, t) \in Turned
           /\ \E items \in Seq(Items) :
                 AppendMessage(s, WordsBehind(rs, t)).items = Append(items, Message("user", <<t>>))
<1> DEFINE step == BlockStep("user")
           A == Blocks("user")
           m == WordsBehind(rs, t)
           p == Text(t)
           x == Folded(step, s, rs)
           more == Append(rs, p)
           r == Folded(step, s, more)
<1>0. p \in Texts /\ p \in A /\ rs \in Seq(A) /\ Steps(step, Gathered, A) /\ s \in Gathered
  <2>1. p \in Texts
    BY TextTyped
  <2>2. Results \subseteq A /\ Texts \subseteq A
    BY DEF Blocks
  <2>3. Steps(step, Gathered, A)
    BY BlocksSteps
  <2> HIDE DEF A, step, p
  <2> QED
    BY <2>1, <2>2, <2>3 DEF Emptied
<1>1. m.role = "user" /\ m.blocks = more /\ more \in Seq(A)
  BY <1>0 DEF WordsBehind
<1>2. m \in Turned
  <2>1. more \in Seq(Texts \union Results)
    BY <1>1 DEF Blocks
  <2> QED
    BY <2>1 DEF WordsBehind, Turned, UserMessages
<1> HIDE DEF m, A
<1>3. x \in Gathered /\ x.texts = <<>> /\ r = step[<<x, p>>]
  <2>1. x \in Emptied
    BY ResultsGathered
  <2> HIDE DEF step
  <2>2. r = step[<<x, p>>]
    BY <1>0, FoldedAppend
  <2> QED
    BY <2>1, <2>2 DEF Emptied
<1>4. AppendMessage(s, m) = FlushText(Folded(BlockStep(m.role), s, m.blocks), m.role)
  <2>1. m.role \in {"user", "assistant"} /\ m.blocks \in Seq(Blocks(m.role))
    BY <1>1 DEF A
  <2>2. FoldLeft(LAMBDA y, q : AppendBlock(y, m.role, q), s, m.blocks) = Folded(BlockStep(m.role), s, m.blocks)
    BY <1>0, <2>1, BlocksFolded
  <2> QED
    BY <2>2 DEF AppendMessage
<1>5. AppendMessage(s, m) = FlushText(r, "user")
  BY <1>1, <1>4
<1>6. step[<<x, p>>] = AppendBlock(x, "user", p)
  BY <1>0, <1>3 DEF BlockStep, A
<1> HIDE DEF x, r, step
<1>7. AppendBlock(x, "user", p) = [x EXCEPT !.texts = Append(@, t)]
  BY DEF AppendBlock, Text
<1>8. r.items = x.items /\ r.texts = <<t>> /\ x.items \in Seq(Items)
  BY <1>3, <1>6, <1>7 DEF Gathered
<1>9. FlushText(r, "user").items = Append(x.items, Message("user", <<t>>))
  BY <1>8 DEF FlushText
<1> QED
  BY <1>2, <1>5, <1>8, <1>9 DEF m

\* So they do at the end of a conversation.
LEMMA WordsLast ==
    ASSUME NEW front \in Seq(BlockMessages), NEW rs \in Seq(Results), NEW t \in Nat
    PROVE  \E items \in Seq(Items) :
              AnthropicToResponses(Append(front, WordsBehind(rs, t))).input = Append(items, Message("user", <<t>>))
<1> DEFINE start == [items |-> <<>>, texts |-> <<>>]
           m == WordsBehind(rs, t)
           all == Append(front, m)
           K == Kept(BlockMessages, Turned, front)
<1>1. start \in Emptied
  <2>1. start.texts = <<>> /\ <<>> \in Seq(Items) /\ <<>> \in Seq(Nat)
    OBVIOUS
  <2> QED
    BY <2>1 DEF Emptied, Gathered
<1>2. m \in Turned /\ m \in BlockMessages
  BY <1>1, WordsAppended DEF BlockMessages
<1> HIDE DEF m, start, all
<1>3. K \in Seq(Turned)
  <2>1. K \in Seq(BlockMessages \intersect Turned)
    BY KeptTyped
  <2>2. BlockMessages \intersect Turned \subseteq Turned
    OBVIOUS
  <2> HIDE DEF K
  <2> QED
    BY <2>1, <2>2, Widened
<1>4. TurnedOnes(all) = Append(K, m)
  <2>1. all \in Seq(BlockMessages)
    BY <1>2 DEF all
  <2>2. TurnedOnes(all) = Kept(BlockMessages, Turned, all)
    BY <2>1, OnesKept
  <2>3. Kept(BlockMessages, Turned, Append(front, m))
           = IF m \in Turned THEN Append(Kept(BlockMessages, Turned, front), m) ELSE Kept(BlockMessages, Turned, front)
    BY <1>2, KeptAppend
  <2> QED
    BY <1>2, <2>2, <2>3 DEF all
<1> HIDE DEF K, all
<1> DEFINE x == Folded(MessageStep, start, K)
<1>5. x \in Emptied /\ Folded(MessageStep, start, Append(K, m)) = MessageStep[<<x, m>>]
  BY <1>1, <1>2, <1>3, MessagesSteps, FoldedTyped, FoldedAppend
<1>6. FoldLeft(AppendMessage, start, Append(K, m)) = Folded(MessageStep, start, Append(K, m))
  <2>1. Append(K, m) \in Seq(Turned)
    BY <1>2, <1>3
  <2> QED
    BY <1>1, <2>1, MessagesFolded
<1> HIDE DEF x
<1>7. MessageStep[<<x, m>>] = AppendMessage(x, m)
  BY <1>2, <1>5 DEF MessageStep
<1>8. AnthropicToResponses(all).input = FoldLeft(AppendMessage, start, TurnedOnes(all)).items
  BY DEF AnthropicToResponses, NormalizeSystem, TurnedOnes, start
<1>9. AnthropicToResponses(all).input = AppendMessage(x, m).items
  BY <1>4, <1>5, <1>6, <1>7, <1>8
<1>10. \E items \in Seq(Items) : AppendMessage(x, m).items = Append(items, Message("user", <<t>>))
  BY <1>5, WordsAppended DEF m
<1> QED
  BY <1>9, <1>10 DEF all, m

\* The last item of an accepted input, if it is words, is the last message.
LEMMA MessageLast ==
    ASSUME NEW items \in Seq(Items), NEW t \in Nat, TranslateInputItems(Append(items, Message("user", <<t>>))).ok
    PROVE  \E ms \in Seq(ChatMessages) :
              TranslateInputItems(Append(items, Message("user", <<t>>))).messages
                 = Append(ms, ChatMessage("user", <<t>>, <<>>))
<1> DEFINE start == [ok |-> TRUE, messages |-> <<>>, pending |-> <<>>, outstanding |-> {}, known |-> {}]
           x == Message("user", <<t>>)
           all == Append(items, x)
           s == Folded(ItemStep, start, items)
           r == Folded(ItemStep, start, all)
           f == FlushToolCalls(s)
           end == FlushToolCalls(r)
           m == ChatMessage("user", <<t>>, <<>>)
<1>1. start \in ChatStates
  <2>1. <<>> \in Seq(ChatMessages) /\ <<>> \in Seq(Calls) /\ {} \in SUBSET Nat /\ TRUE \in BOOLEAN
    OBVIOUS
  <2> QED
    BY <2>1, StateOf
<1>2. x \in Items /\ x.type = "message" /\ x.role = "user" /\ x.texts = <<t>>
  <2>1. <<t>> \in Seq(Nat) \ {<<>>}
    OBVIOUS
  <2>2. x \in Items
    BY <2>1, ItemLinesOf
  <2> QED
    BY <2>2 DEF Message
<1> HIDE DEF x
<1>3. s \in ChatStates /\ r = ItemStep[<<s, x>>]
  <2> HIDE DEF start
  <2> QED
    BY <1>1, <1>2, ItemsSteps, FoldedTyped, FoldedAppend
<1>4. r = AddItem(s, x) /\ r \in ChatStates
  <2> HIDE DEF s, r
  <2>1. ItemStep[<<s, x>>] = AddItem(s, x) /\ AddItem(s, x) \in ChatStates
    BY <1>2, <1>3, ItemTells DEF ItemStep, Tells
  <2> QED
    BY <1>3, <2>1
<1>5. FoldLeft(AddItem, start, all) = r
  <2>1. all \in Seq(Items)
    BY <1>2
  <2> HIDE DEF start, all
  <2> QED
    BY <1>1, <2>1, ItemsFolded
<1>6. /\ TranslateInputItems(all).messages = end.messages
      /\ TranslateInputItems(all).ok = (end.ok /\ end.outstanding = {})
  BY <1>5 DEF TranslateInputItems
<1>7. TranslateInputItems(all).ok
  BY DEF x
<1> HIDE DEF all, start, s, r
<1>8. r.ok
  BY <1>4, <1>6, <1>7, CallsFlushed
<1>9. s.ok /\ r = AddMessage(s, x)
  <2>1. s.ok
    BY <1>4, <1>8 DEF AddItem
  <2> QED
    BY <1>2, <1>4, <2>1 DEF AddItem
<1>10. f \in ChatStates /\ f.ok = s.ok /\ f.pending = <<>>
  BY <1>3, CallsFlushed
<1>11. r = IF f.outstanding # {} THEN Rejected(f) ELSE [f EXCEPT !.messages = Append(@, m)]
  BY <1>2, <1>9 DEF AddMessage
<1> HIDE DEF f, m, end
<1>12. r = [f EXCEPT !.messages = Append(@, m)]
  <2>1. Rejected(f).ok = FALSE
    BY <1>10 DEF Rejected, ChatStates
  <2> QED
    BY <1>8, <1>11, <2>1
<1>13. r.pending = <<>> /\ r.messages = Append(f.messages, m) /\ f.messages \in Seq(ChatMessages)
  BY <1>10, <1>12 DEF ChatStates
<1>14. end = r
  BY <1>13 DEF end, FlushToolCalls
<1> QED
  BY <1>6, <1>13, <1>14 DEF all, x, m

\* Whose a Responses request is: the agent's if the last line is a result, and
\* only if there is a result or the last line is the model's.
LEMMA ItemsAttributed ==
    ASSUME NEW items \in Seq(Items), ItemsSaid(items) # <<>>
    PROVE  /\ Last(ItemsSaid(items)).role = "tool" => InputItemsInitiator(items) = "agent"
           /\ InputItemsInitiator(items) = "agent" =>
                 Brings(ItemsSaid(items), "tool") \/ Last(ItemsSaid(items)).role = "assistant"
<1> DEFINE x == items[Len(items)]
           words == ItemsSaid(items)
<1>1. items # <<>>
  BY ItemsSaidEmpty
<1>2. x \in Items /\ Last(words).role = Speaker(x) /\ Len(items) \in DOMAIN items
  <2>1. Len(items) \in DOMAIN items
    BY <1>1
  <2> QED
    BY <1>1, <2>1, ItemsEnd DEF Last
<1>3. /\ x.type \in {"message", "call", "output"}
      /\ x.type = "message" => x.role \in {"user", "assistant"}
      /\ x.type # "message" => x.role # "assistant"
  BY <1>2 DEF Items, MessageItems, CallItems, OutputItems, None
<1>4. Last(words).role = "tool" => InputItemsInitiator(items) = "agent"
  <2> SUFFICES ASSUME Last(words).role = "tool" PROVE InputItemsInitiator(items) = "agent"
    OBVIOUS
  <2>1. x.type = "output"
    BY <1>2, <1>3 DEF Speaker
  <2>2. \E i \in DOMAIN items : items[i].type = "output"
    BY <1>2, <2>1
  <2> QED
    BY <2>2 DEF InputItemsInitiator
<1>5. ASSUME InputItemsInitiator(items) = "agent", ~Brings(words, "tool")
      PROVE  Last(words).role = "assistant"
  <2>1. \A i \in DOMAIN items : items[i].type # "output"
    BY <1>5, OutputHeard
  <2>2. x.type = "call" \/ x.role = "assistant"
    BY <1>5, <2>1 DEF InputItemsInitiator
  <2> QED
    BY <1>2, <1>3, <2>2 DEF Speaker
<1> QED
  BY <1>4, <1>5
-----------------------------------------------------------------------------
(* Whose a record is.                                                       *)

\* Messages of blocks say what their parts say, in order.
LEMMA BlocksSaidConcat ==
    ASSUME NEW messages \in Seq(BlockMessages), NEW others \in Seq(BlockMessages)
    PROVE  BlocksSaid(messages \o others) = BlocksSaid(messages) \o BlocksSaid(others)
<1>1. messages \o others \in Seq(BlockMessages)
  OBVIOUS
<1> DEFINE g == BlockWords
<1>2. g \in [BlockMessages -> Seq(Words)]
  BY BlockWordsTyped
<1>3. /\ BlocksSaid(messages) = Joint(g, messages) /\ BlocksSaid(others) = Joint(g, others)
      /\ BlocksSaid(messages \o others) = Joint(g, messages \o others)
  BY <1>1, BlocksSaidJoint
<1> HIDE DEF g
<1>4. Joint(g, messages \o others) = Joint(g, messages) \o Joint(g, others)
  BY <1>2, JointConcat
<1> QED
  BY <1>3, <1>4

\* What is recorded later is said later.
LEMMA HistorySaidConcat ==
    ASSUME RouteTyped, NEW h \in Seq(Recorder(route.api)), NEW r \in Seq(Recorder(route.api))
    PROVE  /\ HistorySaid(h) \in Seq(Words) /\ HistorySaid(r) \in Seq(Words)
           /\ h \o r \in Seq(Recorder(route.api))
           /\ HistorySaid(h \o r) = HistorySaid(h) \o HistorySaid(r)
<1>0. h \o r \in Seq(Recorder(route.api))
  OBVIOUS
<1>1. CASE route.api = "messages"
  <2>1. h \in Seq(BlockMessages) /\ r \in Seq(BlockMessages)
    BY <1>1 DEF Recorder
  <2> QED
    BY <1>0, <1>1, <2>1, BlocksSaidConcat, BlocksSaidTyped DEF HistorySaid
<1>2. CASE route.api = "chat"
  <2>1. h \in Seq(ChatRecords) /\ r \in Seq(ChatRecords)
    BY <1>2 DEF Recorder
  <2>2. h \in Seq(ChatMessages) /\ r \in Seq(ChatMessages)
    BY <2>1, RecordsSubset, Widened
  <2> QED
    BY <1>0, <1>2, <2>2, ChatSaidConcat, ChatSaidTyped DEF HistorySaid
<1>3. CASE route.api = "responses"
  <2>1. h \in Seq(Items) /\ r \in Seq(Items)
    BY <1>3 DEF Recorder
  <2> QED
    BY <1>0, <1>3, <2>1, ItemsSaidConcat, ItemsSaidTyped DEF HistorySaid
<1> QED
  BY <1>1, <1>2, <1>3 DEF RouteTyped, Apis

\* A message of blocks alone.
LEMMA OneMessage ==
    ASSUME NEW m \in BlockMessages
    PROVE  BlocksSaid(<<m>>) = Lines(m.role, m.blocks)
<1>1. <<>> \in Seq(BlockMessages) /\ Append(<<>>, m) = <<m>>
  OBVIOUS
<1>2. BlocksSaid(Append(<<>>, m)) = BlocksSaid(<<>>) \o Lines(m.role, m.blocks)
  BY <1>1, BlocksSaidAppend
<1>3. Lines(m.role, m.blocks) \in Seq(Words)
  BY BlocksTyped, LinesTyped
<1> DEFINE ls == Lines(m.role, m.blocks)
<1>4. <<>> \o ls = ls
  <2> HIDE DEF ls
  <2> QED
    BY <1>3 DEF ls
<1> QED
  BY <1>1, <1>2, <1>4, BlocksSaidEmpty

\* A part as an input item.
AsItem(role, p) ==
    CASE p.kind = "text"   -> Message(role, <<p.id>>)
      [] p.kind = "call"   -> CallItem(p.id, p.tool)
      [] p.kind = "result" -> OutputItem(p.id)

\* Its speaker is who said the part, or the tool.
LEMMA AsItemSpeaks ==
    ASSUME NEW role \in {"user", "assistant"}, NEW p \in Parts
    PROVE  /\ AsItem(role, p) \in Items
           /\ p \in Texts => Speaker(AsItem(role, p)) = role
           /\ p \in Calls => Speaker(AsItem(role, p)) = "assistant"
           /\ p \in Results => Speaker(AsItem(role, p)) = "tool"
<1>1. AsItem(role, p) \in Items
  BY ItemRecorded DEF AsItem
<1>2. p \in Texts => Speaker(AsItem(role, p)) = role
  BY DEF AsItem, Texts, Speaker, Message
<1>3. p \in Calls => Speaker(AsItem(role, p)) = "assistant"
  BY DEF AsItem, Calls, Speaker, CallItem
<1>4. p \in Results => Speaker(AsItem(role, p)) = "tool"
  BY DEF AsItem, Results, Speaker, OutputItem
<1> QED
  BY <1>1, <1>2, <1>3, <1>4

\* What a client of the Responses API records.
LEMMA RecordedItems ==
    ASSUME NEW role \in {"user", "assistant"}, NEW parts \in Seq(Parts), parts # <<>>, route.api = "responses"
    PROVE  /\ Recorded(role, parts) = [i \in DOMAIN parts |-> AsItem(role, parts[i])]
           /\ Recorded(role, parts) \in Seq(Items) /\ Recorded(role, parts) # <<>>
           /\ Len(Recorded(role, parts)) = Len(parts)
<1> DEFINE f == [i \in DOMAIN parts |-> AsItem(role, parts[i])]
<1>1. Recorded(role, parts) = f
  BY DEF Recorded, Each, AsItem
<1>2. Len(parts) \in Nat /\ DOMAIN parts = 1..Len(parts) /\ Len(parts) # 0
      /\ \A i \in DOMAIN parts : parts[i] \in Parts
  OBVIOUS
<1>3. f \in [1..Len(parts) -> Items]
  BY <1>2, AsItemSpeaks
<1> HIDE DEF f
<1>4. f \in Seq(Items) /\ Len(f) = Len(parts)
  BY <1>2, <1>3, IsSequence
<1>5. f # <<>>
  BY <1>2, <1>4
<1> QED
  BY <1>1, <1>4, <1>5 DEF f

\* What a client of a chat endpoint records.
LEMMA RecordedMessages ==
    ASSUME NEW role \in {"user", "assistant"}, NEW parts \in Seq(Parts), parts # <<>>, route.api = "chat"
    PROVE  LET results == Kept(Parts, Results, parts)
               texts   == Each(LAMBDA p : p.id, TextsOf(parts))
           IN  Recorded(role, parts) =
                   Each(LAMBDA p : ToolMessage(p.id), results)
                       \o (IF results # <<>> /\ texts = <<>> THEN <<>>
                           ELSE <<ChatMessage(role, texts, CallsOf(parts))>>)
  BY PartsSorted DEF Recorded
-----------------------------------------------------------------------------
\* The model's words are recorded as its own.
LEMMA ModelRecorded ==
    ASSUME RouteTyped, NEW parts \in Seq(Spoke)
    PROVE  /\ HistorySaid(Recorded("assistant", parts)) \in Seq(By({"assistant"}))
           /\ parts # <<>> => HistorySaid(Recorded("assistant", parts)) # <<>>
<1> DEFINE rec == Recorded("assistant", parts)
<1>0. parts \in Seq(Parts) /\ "assistant" \in Roles /\ "assistant" \in {"user", "assistant"}
  BY SpokenHeard DEF Roles
<1>1. CASE parts = <<>>
  <2>1. rec = <<>>
    BY <1>1 DEF Recorded
  <2>2. HistorySaid(rec) = <<>>
    BY <2>1, BlocksSaidEmpty, ChatSaidEmpty, ItemsSaidEmpty DEF HistorySaid, RouteTyped, Apis
  <2>3. \A W : <<>> \in Seq(W)
    OBVIOUS
  <2> QED
    BY <1>1, <2>2, <2>3
<1>2. CASE parts # <<>> /\ route.api = "messages"
  <2> DEFINE m == [role |-> "assistant", blocks |-> parts]
  <2>1. rec = <<m>> /\ m.role = "assistant" /\ m.blocks = parts
    BY <1>2 DEF Recorded
  <2>2. m \in BlockMessages
    <3>1. m \in AssistantMessages
      BY DEF AssistantMessages, Spoke
    <3> QED
      BY <3>1 DEF BlockMessages, Turned
  <2> HIDE DEF m
  <2>3. HistorySaid(rec) = Lines("assistant", parts)
    BY <1>2, <2>1, <2>2, OneMessage DEF HistorySaid
  <2>4. Lines("assistant", parts) \in Seq(By({"assistant"})) /\ Len(Lines("assistant", parts)) = Len(parts)
    BY <1>0, SpokenBy
  <2>5. Lines("assistant", parts) # <<>>
    BY <1>2, <2>4
  <2> QED
    BY <2>3, <2>4, <2>5
<1>3. CASE parts # <<>> /\ route.api = "responses"
  <2>1. rec \in Seq(Items) /\ rec # <<>> /\ rec = [i \in DOMAIN parts |-> AsItem("assistant", parts[i])]
    BY <1>0, <1>3, RecordedItems
  <2>2. \A i \in DOMAIN parts : parts[i] \in Parts /\ (parts[i] \in Texts \/ parts[i] \in Calls)
    BY <1>0 DEF Spoke
  <2>3. \A i \in DOMAIN rec : Speaker(rec[i]) \in {"assistant"}
    BY <1>0, <2>1, <2>2, AsItemSpeaks
  <2> HIDE DEF rec
  <2>4. ItemsSaid(rec) \in Seq(By({"assistant"})) /\ ItemsSaid(rec) # <<>>
    BY <2>1, <2>3, ItemsBy, ItemsEnd
  <2> QED
    BY <1>3, <2>4 DEF HistorySaid, rec
<1>4. CASE parts # <<>> /\ route.api = "chat"
  <2> DEFINE results == Kept(Parts, Results, parts)
             texts == Each(LAMBDA p : p.id, TextsOf(parts))
             m == ChatMessage("assistant", texts, CallsOf(parts))
  <2>1. results = <<>>
    <3>1. Spoke \subseteq Parts \ Results
      BY DEF Spoke, Parts, Texts, Calls, Results
    <3>2. parts \in Seq(Parts \ Results)
      BY <3>1, Widened
    <3> QED
      BY <1>0, <3>2, KeptNone
  <2>2. rec = Each(LAMBDA p : ToolMessage(p.id), results)
                  \o (IF results # <<>> /\ texts = <<>> THEN <<>> ELSE <<m>>)
    BY <1>0, <1>4, RecordedMessages
  <2>3. Each(LAMBDA p : ToolMessage(p.id), results) = <<>>
    BY <2>1 DEF Each
  <2>4. rec = <<m>>
    <3> HIDE DEF m, texts, results
    <3>1. <<>> \o <<m>> = <<m>>
      OBVIOUS
    <3> QED
      BY <2>1, <2>2, <2>3, <3>1
  <2>5. m.role = "assistant"
    BY DEF ChatMessage
  <2>6. rec \in Seq(ChatRecords)
    <3>1. SaysAs("assistant", parts)
      BY DEF SaysAs
    <3>2. rec \in Seq(Recorder(route.api))
      BY <3>1, RecordTyped
    <3> QED
      BY <1>4, <3>2 DEF Recorder
  <2> HIDE DEF m, rec
  <2>7. rec \in Seq(ChatMessages) /\ rec # <<>> /\ \A i \in DOMAIN rec : rec[i].role \in {"assistant"}
    BY <2>4, <2>5, <2>6, RecordsSubset, Widened
  <2>8. ChatSaid(rec) \in Seq(By({"assistant"})) /\ ChatSaid(rec) # <<>>
    BY <2>7, MessagesBy, MessagesEnd
  <2> QED
    BY <1>4, <2>8 DEF HistorySaid, rec
<1> QED
  BY <1>1, <1>2, <1>3, <1>4 DEF RouteTyped, Apis

\* Results are recorded as the tools' words, and what the user says behind them
\* comes last.
LEMMA UserRecorded ==
    ASSUME RouteTyped, NEW parts \in Seq(Wrote), parts # <<>>
    PROVE  /\ HistorySaid(Recorded("user", parts)) # <<>>
           /\ parts \in Seq(Results) => HistorySaid(Recorded("user", parts)) \in Seq(By({"tool"}))
           /\ Last(parts) \in Texts => Last(HistorySaid(Recorded("user", parts))).role = "user"
<1> DEFINE rec == Recorded("user", parts)
<1>0. /\ parts \in Seq(Parts) /\ "user" \in Roles /\ "user" \in {"user", "assistant"}
      /\ Len(parts) \in DOMAIN parts /\ Last(parts) = parts[Len(parts)] /\ Last(parts) \in Parts
  <2>1. parts \in Seq(Parts)
    BY SpokenHeard
  <2> QED
    BY <2>1 DEF Roles, Last
<1>2. CASE route.api = "messages"
  <2> DEFINE m == [role |-> "user", blocks |-> parts]
             lines == Lines("user", parts)
  <2>1. rec = <<m>> /\ m.role = "user" /\ m.blocks = parts
    BY <1>2 DEF Recorded
  <2>2. m \in BlockMessages
    BY DEF BlockMessages, Turned, UserMessages, Wrote
  <2> HIDE DEF m
  <2>3. HistorySaid(rec) = lines
    BY <1>2, <2>1, <2>2, OneMessage DEF HistorySaid
  <2>4. /\ lines \in Seq(Words) /\ Len(lines) = Len(parts) /\ lines[Len(parts)] = Line("user", Last(parts))
        /\ parts \in Seq(Results) => lines \in Seq(By({"tool"}))
    BY <1>0, SpokenBy
  <2> HIDE DEF lines
  <2>5. lines # <<>>
    BY <2>4
  <2>6. Last(parts) \in Texts => Last(lines).role = "user"
    BY <2>4 DEF Last, Line, Texts
  <2> QED
    BY <2>3, <2>4, <2>5, <2>6
<1>3. CASE route.api = "responses"
  <2>1. rec \in Seq(Items) /\ rec # <<>> /\ Len(rec) = Len(parts)
        /\ rec = [i \in DOMAIN parts |-> AsItem("user", parts[i])]
    BY <1>0, <1>3, RecordedItems
  <2>2. Last(rec) = AsItem("user", Last(parts))
    BY <1>0, <2>1 DEF Last
  <2>3. ASSUME parts \in Seq(Results) PROVE \A i \in DOMAIN rec : Speaker(rec[i]) \in {"tool"}
    <3>1. \A i \in DOMAIN parts : parts[i] \in Parts /\ parts[i] \in Results
      BY <1>0, <2>3
    <3> QED
      BY <1>0, <2>1, <3>1, AsItemSpeaks
  <2>4. Last(parts) \in Texts => Speaker(Last(rec)) = "user"
    BY <1>0, <2>2, AsItemSpeaks
  <2> HIDE DEF rec
  <2>5. ItemsSaid(rec) # <<>> /\ Last(ItemsSaid(rec)).role = Speaker(Last(rec))
    BY <2>1, ItemsEnd
  <2>6. parts \in Seq(Results) => ItemsSaid(rec) \in Seq(By({"tool"}))
    BY <2>1, <2>3, ItemsBy
  <2> QED
    BY <1>3, <2>4, <2>5, <2>6 DEF HistorySaid, rec
<1>4. CASE route.api = "chat"
  <2> DEFINE results == Kept(Parts, Results, parts)
             texts == Each(LAMBDA p : p.id, TextsOf(parts))
             m == ChatMessage("user", texts, CallsOf(parts))
             answers == Each(LAMBDA p : ToolMessage(p.id), results)
  <2>2. rec = answers \o (IF results # <<>> /\ texts = <<>> THEN <<>> ELSE <<m>>)
    BY <1>0, <1>4, RecordedMessages
  <2>5. m.role = "user"
    BY DEF ChatMessage
  <2>6. rec \in Seq(ChatRecords) /\ rec \in Seq(ChatMessages)
    <3>1. SaysAs("user", parts)
      BY DEF SaysAs
    <3>2. rec \in Seq(Recorder(route.api))
      BY <3>1, RecordTyped
    <3>3. rec \in Seq(ChatRecords)
      BY <1>4, <3>2 DEF Recorder
    <3> QED
      BY <3>3, RecordsSubset, Widened
  <2>7. results \in Seq(Results) /\ TextsOf(parts) \in Seq(Texts)
        /\ TextsOf(parts) = Kept(Parts, Texts, parts)
    BY <1>0, PartsSorted
  <2>8. Len(answers) \in Nat /\ DOMAIN answers = 1..Len(answers) /\ (answers = <<>> <=> results = <<>>)
        /\ \A i \in DOMAIN answers : answers[i].role = "tool"
    <3> HIDE DEF results
    <3> QED
      BY <2>7 DEF Each, ToolMessage
  <2>9. texts = <<>> <=> TextsOf(parts) = <<>>
    <3> DEFINE ts == TextsOf(parts)
    <3> HIDE DEF ts
    <3>1. Each(LAMBDA p : p.id, ts) = <<>> <=> ts = <<>>
      BY <2>7 DEF ts, Each
    <3> QED
      BY <3>1 DEF ts
  <2>10. texts # <<>> \/ results # <<>>
    BY <1>0, <2>9, SomethingSaid
  <2>11. ASSUME parts \in Seq(Results) PROVE rec = answers
    <3>1. Results \subseteq Parts \ Texts
      BY DEF Parts, Texts, Results
    <3>2. parts \in Seq(Parts \ Texts)
      BY <2>11, <3>1, Widened
    <3>3. texts = <<>>
      BY <1>0, <2>7, <2>9, <3>2, KeptNone
    <3>4. answers \in Seq(ChatRecords)
      <4>1. rec = answers \o <<>>
        BY <2>2, <2>10, <3>3
      <4>2. answers \o <<>> = answers
        <5> HIDE DEF results
        <5> QED
          BY <2>7 DEF Each
      <4> QED
        BY <2>6, <4>1, <4>2
    <3> HIDE DEF answers, texts, m, results
    <3>5. answers \o <<>> = answers
      BY <3>4
    <3> QED
      BY <2>2, <2>10, <3>3, <3>5
  <2>12. ASSUME Last(parts) \in Texts PROVE rec = answers \o <<m>>
    <3>1. TextsOf(parts) # <<>>
      BY <1>0, <2>7, <2>12, KeptFinds
    <3> QED
      BY <2>2, <2>9, <3>1
  <2>13. rec # <<>>
    <3> HIDE DEF m, texts, results, answers
    <3>1. Len(answers \o <<m>>) = Len(answers) + 1 /\ Len(answers \o <<>>) = Len(answers)
      BY <2>8
    <3> QED
      BY <2>2, <2>8, <2>10, <3>1
  <2>14. Last(parts) \in Texts => Last(rec).role = "user"
    <3> HIDE DEF m, answers
    <3>1. (answers \o <<m>>)[Len(answers \o <<m>>)] = m
      BY <2>8
    <3> QED
      BY <2>5, <2>12, <3>1 DEF Last
  <2> HIDE DEF m, texts, results, rec
  <2>15. parts \in Seq(Results) => ChatSaid(rec) \in Seq(By({"tool"}))
    <3>1. parts \in Seq(Results) => \A i \in DOMAIN rec : rec[i].role \in {"tool"}
      BY <2>8, <2>11
    <3> QED
      BY <2>6, <3>1, MessagesBy
  <2>16. ChatSaid(rec) # <<>> /\ Last(ChatSaid(rec)).role = Last(rec).role
    BY <2>6, <2>13, MessagesEnd
  <2> QED
    BY <1>4, <2>14, <2>15, <2>16 DEF HistorySaid, rec
<1> QED
  BY <1>2, <1>3, <1>4 DEF RouteTyped, Apis
-----------------------------------------------------------------------------
(* How a history ends.                                                      *)

\* What has been said since the model's latest line.
NewestOf(lines) ==
    LET spoken == {i \in DOMAIN lines : lines[i].role = "assistant"}
    IN  SubSeq(lines, 1 + (IF spoken = {} THEN 0 ELSE Max(spoken)), Len(lines))

\* The model's latest line is one of its lines, and none is later.
LEMMA SpokenLast ==
    ASSUME NEW lines \in Seq(Words)
    PROVE  \E k \in 0..Len(lines) :
              /\ NewestOf(lines) = SubSeq(lines, 1 + k, Len(lines))
              /\ k # 0 => lines[k].role = "assistant"
              /\ \A i \in DOMAIN lines : lines[i].role = "assistant" => i <= k
<1> DEFINE spoken == {i \in DOMAIN lines : lines[i].role = "assistant"}
           k == IF spoken = {} THEN 0 ELSE Max(spoken)
<1>1. Len(lines) \in Nat /\ spoken \in SUBSET (1..Len(lines))
  OBVIOUS
<1>2. spoken # {} => Max(spoken) \in spoken /\ \A y \in spoken : Max(spoken) >= y
  <2> HIDE DEF spoken
  <2> QED
    BY <1>1, Greatest
<1>3. NewestOf(lines) = SubSeq(lines, 1 + k, Len(lines))
  BY DEF NewestOf
<1>4. k \in 0..Len(lines) /\ (k # 0 => lines[k].role = "assistant")
  BY <1>1, <1>2
<1>5. \A i \in DOMAIN lines : lines[i].role = "assistant" => i <= k
  BY <1>1, <1>2
<1> QED
  BY <1>3, <1>4, <1>5

\* If the last line is not the model's, it is new.
LEMMA NewestLast ==
    ASSUME NEW lines \in Seq(Words), lines # <<>>, Last(lines).role # "assistant"
    PROVE  Brings(NewestOf(lines), Last(lines).role)
<1>1. PICK k \in 0..Len(lines) :
         /\ NewestOf(lines) = SubSeq(lines, 1 + k, Len(lines))
         /\ k # 0 => lines[k].role = "assistant"
  BY SpokenLast
<1>2. k # Len(lines) /\ Len(lines) \in Nat
  BY <1>1 DEF Last
<1>3. LET s == SubSeq(lines, 1 + k, Len(lines))
      IN  Len(lines) - k \in DOMAIN s /\ s[Len(lines) - k] = lines[Len(lines)]
  BY <1>1, <1>2
<1> QED
  BY <1>1, <1>3 DEF Brings, Last

\* Behind words of the model there are only the lines that come behind them.
LEMMA NewestBehind ==
    ASSUME NEW h \in Seq(Words), NEW a \in Seq(By({"assistant"})), a # <<>>, NEW t \in Seq(Words),
           ~Brings(t, "user")
    PROVE  ~Brings(NewestOf((h \o a) \o t), "user")
<1> DEFINE lines == (h \o a) \o t
           n == Len(h) + Len(a)
<1>0. a \in Seq(Words) /\ \A i \in DOMAIN a : a[i].role = "assistant"
  <2>1. By({"assistant"}) \subseteq Words
    BY DEF By
  <2>2. \A i \in DOMAIN a : a[i] \in By({"assistant"})
    OBVIOUS
  <2> QED
    BY <2>1, <2>2, Widened DEF By
<1>1. /\ lines \in Seq(Words) /\ Len(lines) = n + Len(t) /\ n \in DOMAIN lines /\ n \in Nat
      /\ lines[n] = a[Len(a)] /\ Len(a) \in DOMAIN a
      /\ \A i \in 1..Len(t) : lines[n + i] = t[i]
  BY <1>0
<1>2. PICK k \in 0..Len(lines) :
         /\ NewestOf(lines) = SubSeq(lines, 1 + k, Len(lines))
         /\ \A i \in DOMAIN lines : lines[i].role = "assistant" => i <= k
  BY <1>1, SpokenLast
<1>3. n <= k
  <2>1. lines[n].role = "assistant"
    BY <1>0, <1>1
  <2> HIDE DEF lines, n
  <2> QED
    BY <1>1, <1>2, <2>1
<1> HIDE DEF lines, n
<1>4. \A i \in DOMAIN NewestOf(lines) :
         NewestOf(lines)[i] = lines[k + i] /\ k + i <= Len(lines) /\ i \in Nat /\ 1 <= i
  <2> DEFINE s == SubSeq(lines, 1 + k, Len(lines))
  <2>1. k \in Nat /\ Len(lines) \in Nat /\ k <= Len(lines)
    BY <1>1, <1>2
  <2>2. DOMAIN s = 1..(Len(lines) - k) /\ \A i \in 1..(Len(lines) - k) : s[i] = lines[k + i]
    BY <1>1, <2>1
  <2> HIDE DEF s
  <2>3. NewestOf(lines) = s
    BY <1>2 DEF s
  <2> QED
    BY <2>1, <2>2, <2>3
<1>5. \A i \in DOMAIN NewestOf(lines) : \E j \in DOMAIN t : NewestOf(lines)[i] = t[j]
  <2> SUFFICES ASSUME NEW i \in DOMAIN NewestOf(lines) PROVE \E j \in DOMAIN t : NewestOf(lines)[i] = t[j]
    OBVIOUS
  <2>1. (k + i) - n \in 1..Len(t) /\ n + ((k + i) - n) = k + i
    BY SMTT(30), <1>1, <1>2, <1>3, <1>4
  <2> DEFINE j == (k + i) - n
  <2>2. j \in 1..Len(t) /\ n + j = k + i
    BY <2>1
  <2>3. NewestOf(lines)[i] = lines[n + j]
    BY <1>4, <2>2
  <2> HIDE DEF j
  <2>4. lines[n + j] = t[j] /\ j \in DOMAIN t
    BY <1>1, <2>2
  <2> QED
    BY <2>3, <2>4
<1> QED
  BY <1>5 DEF Brings, lines

\* Four sequences, one behind the other.
Associated(h, a, n, u) == ((h \o a) \o n) \o u = (h \o a) \o (n \o u)

\* Four sequences, one behind the other, however they are put together.
LEMMA FourAssociate ==
    ASSUME NEW S, NEW h \in Seq(S), NEW a \in Seq(S), NEW n \in Seq(S), NEW u \in Seq(S)
    PROVE  Associated(h, a, n, u) /\ (h \o a) \o n \in Seq(S)
<1> DEFINE b == h \o a
<1>1. b \in Seq(S)
  OBVIOUS
<1> HIDE DEF b
<1>2. (b \o n) \o u = b \o (n \o u) /\ b \o n \in Seq(S)
  BY SMTT(30), <1>1, ConcatAssociative
<1> QED
  BY <1>2 DEF Associated, b

\* The members of two sequences, one behind the other.
LEMMA OneOfTwo ==
    ASSUME NEW S, NEW n \in Seq(S), NEW u \in Seq(S)
    PROVE  /\ n \o u \in Seq(S)
           /\ \A i \in DOMAIN (n \o u) : \/ i \in DOMAIN n /\ (n \o u)[i] = n[i]
                                         \/ i - Len(n) \in DOMAIN u /\ (n \o u)[i] = u[i - Len(n)]
  OBVIOUS
-----------------------------------------------------------------------------
\* A history of messages ends with the text t, behind results at most.
EndsWith(h, t) ==
    \E front \in Seq(BlockMessages), rs \in Seq(Results) : t \in Nat /\ h = Append(front, WordsBehind(rs, t))

\* How a history ends: with the user's words or the results of calls, and with
\* the user's words if there are any that are new.
EndsOf(h) ==
    LET lines == HistorySaid(h)
    IN  /\ lines # <<>>
        /\ Last(lines).role \in {"user", "tool"}
        /\ Brings(NewestOf(lines), "user") => Last(lines).role = "user"
        /\ route.api = "messages" /\ Last(lines).role = "user" => EndsWith(h, Last(lines).id)

HistoryEnds == phase # "compose" => EndsOf(history)

\* One text behind the results is recorded so.
LEMMA WordsRecorded ==
    ASSUME route.api = "messages", NEW front \in Seq(BlockMessages), NEW results \in Seq(Results), NEW t \in Nat
    PROVE  /\ EndsWith(front \o Recorded("user", results \o <<Text(t)>>), t)
           /\ Last(HistorySaid(Recorded("user", results \o <<Text(t)>>))).id = t
<1> DEFINE p == Text(t)
           all == Append(results, p)
           m == WordsBehind(results, t)
<1>1. p \in Texts /\ p.id = t
  BY TextTyped DEF Text
<1>2. results \o <<p>> = all /\ all \in Seq(Wrote)
  <2> HIDE DEF p
  <2>1. results \in Seq(Wrote) /\ p \in Wrote
    BY <1>1 DEF Wrote
  <2> QED
    BY <2>1
<1>3. all # <<>> /\ all[Len(all)] = p /\ Len(all) \in DOMAIN all
  <2> HIDE DEF p
  <2>1. results \in Seq(Wrote) /\ p \in Wrote
    BY <1>1 DEF Wrote
  <2> QED
    BY <2>1
<1>4. m = [role |-> "user", blocks |-> all] /\ m \in BlockMessages
  <2>1. m = [role |-> "user", blocks |-> all]
    BY DEF WordsBehind
  <2> HIDE DEF all, m
  <2> QED
    BY <1>2, <2>1 DEF BlockMessages, Turned, UserMessages, Wrote
<1>5. Recorded("user", all) = <<m>>
  <2> HIDE DEF all, m
  <2> QED
    BY <1>3, <1>4 DEF Recorded
<1>6. front \o <<m>> = Append(front, m)
  <2> HIDE DEF m
  <2> QED
    BY <1>4
<1>7. EndsWith(front \o <<m>>, t)
  BY <1>6 DEF EndsWith
<1>8. m.role = "user" /\ m.blocks = all
  BY <1>4
<1>9. HistorySaid(<<m>>) = Lines("user", all)
  <2> HIDE DEF all, m
  <2> QED
    BY <1>4, <1>8, OneMessage DEF HistorySaid
<1>10. Last(Lines("user", all)) = Line("user", p)
  <2> HIDE DEF all, p
  <2>1. all \in Seq(Parts) /\ "user" \in Roles
    BY <1>2, SpokenHeard DEF Roles
  <2>2. Len(Lines("user", all)) = Len(all) /\ Lines("user", all)[Len(all)] = Line("user", p)
    BY <1>3, <2>1, SpokenBy
  <2> QED
    BY <2>2 DEF Last
<1>11. Line("user", p).id = t
  BY <1>1 DEF Line
<1> HIDE DEF all, m, p
<1>12. Recorded("user", results \o <<p>>) = <<m>>
  BY <1>2, <1>5
<1> QED
  BY <1>7, <1>9, <1>10, <1>11, <1>12 DEF p

\* A request with something new ends so, whatever was said before.
LEMMA RequestEnds ==
    ASSUME RouteTyped, requests \in Nat, NEW h \in Seq(Recorder(route.api)), NEW parts \in Seq(Spoke),
           NEW note \in Seq(Recorder(route.api)), HistorySaid(note) \in Seq(By({"system"})),
           NEW results \in Seq(Results), NEW more \in Seq(Texts),
           more = <<>> \/ \E t \in Nat : more = <<Text(t)>>,
           results # <<>> => parts # <<>>, results # <<>> \/ more # <<>>
    PROVE  EndsOf(h \o Recorded("assistant", parts) \o note \o Recorded("user", results \o more))
<1> DEFINE all == results \o more
           one == Recorded("assistant", parts)
           two == Recorded("user", all)
           S == Recorder(route.api)
           hs == HistorySaid(h)
           as == HistorySaid(one)
           ns == HistorySaid(note)
           us == HistorySaid(two)
<1>1. /\ all \in Seq(Wrote) /\ all # <<>>
      /\ more = <<>> => all \in Seq(Results)
      /\ more # <<>> => Last(all) \in Texts
  <2>1. results \in Seq(Wrote) /\ more \in Seq(Wrote)
    BY DEF Wrote
  <2>2. more = <<>> => all = results
    OBVIOUS
  <2>3. more # <<>> => all[Len(all)] = more[Len(more)] /\ more[Len(more)] \in Texts
    OBVIOUS
  <2> QED
    BY <2>1, <2>2, <2>3 DEF Last
<1> HIDE DEF all
<1>2. one \in Seq(S) /\ two \in Seq(S)
  <2>1. SaysAs("assistant", parts) /\ SaysAs("user", all)
    BY <1>1 DEF SaysAs
  <2> QED
    BY <2>1, RecordTyped
<1>3. as \in Seq(By({"assistant"})) /\ (parts # <<>> => as # <<>>)
  BY ModelRecorded
<1>4. /\ us # <<>>
      /\ more = <<>> => us \in Seq(By({"tool"}))
      /\ more # <<>> => Last(us).role = "user"
  BY <1>1, UserRecorded
<1>5. HistorySaid(h \o one \o note \o two) = ((hs \o as) \o ns) \o us
      /\ hs \in Seq(Words) /\ as \in Seq(Words) /\ ns \in Seq(Words) /\ us \in Seq(Words)
  <2> HIDE DEF one, two, S
  <2>1. h \o one \in Seq(S) /\ HistorySaid(h \o one) = hs \o as /\ hs \in Seq(Words) /\ as \in Seq(Words)
    BY <1>2, HistorySaidConcat DEF S
  <2>2. (h \o one) \o note \in Seq(S) /\ HistorySaid((h \o one) \o note) = HistorySaid(h \o one) \o ns
        /\ ns \in Seq(Words)
    BY <2>1, HistorySaidConcat DEF S
  <2>3. HistorySaid(((h \o one) \o note) \o two) = HistorySaid((h \o one) \o note) \o us /\ us \in Seq(Words)
    BY <1>2, <2>2, HistorySaidConcat DEF S
  <2> QED
    BY <2>1, <2>2, <2>3
<1> HIDE DEF one, two, hs, as, ns, us
<1>55. hs \in Seq(Words) /\ as \in Seq(Words) /\ ns \in Seq(Words) /\ us \in Seq(Words)
  BY <1>5
<1> DEFINE lines == ((hs \o as) \o ns) \o us
<1>6. lines \in Seq(Words) /\ lines # <<>> /\ Last(lines) = Last(us) /\ Last(us) \in Words
  <2> DEFINE before == (hs \o as) \o ns
  <2>1. before \in Seq(Words)
    BY <1>55, FourAssociate
  <2> HIDE DEF before
  <2>2. before \o us \in Seq(Words) /\ before \o us # <<>> /\ Last(before \o us) = Last(us) /\ Last(us) \in Words
    BY <1>4, <1>55, <2>1, LastBehind
  <2> QED
    BY <2>2 DEF before
<1> DEFINE goal == EndsOf(h \o one \o note \o two)
<1>65. HistorySaid(h \o one \o note \o two) = lines
  BY <1>5
<1> HIDE DEF lines
<1>66. ASSUME route.api = "messages", more # <<>>
       PROVE  EndsWith(h \o one \o note \o two, Last(us).id)
  <2> DEFINE front == h \o one \o note
  <2>1. front \in Seq(BlockMessages)
    <3>1. front \in Seq(S)
      <4> HIDE DEF one, S
      <4> QED
        BY <1>2 DEF S
    <3> QED
      BY <1>66, <3>1 DEF S, Recorder
  <2>2. PICK t \in Nat : more = <<Text(t)>>
    BY <1>66
  <2> HIDE DEF front
  <2>3. two = Recorded("user", results \o <<Text(t)>>)
    BY <2>2 DEF two, all
  <2>4. EndsWith(front \o two, t) /\ Last(us).id = t
    BY <1>66, <2>1, <2>3, WordsRecorded DEF us
  <2> QED
    BY <2>4 DEF front
<1>7. ASSUME more # <<>> PROVE goal
  BY <1>4, <1>6, <1>65, <1>66, <1>7 DEF EndsOf
<1>8. ASSUME more = <<>> PROVE goal
  <2>1. us \in Seq(By({"tool"})) /\ as # <<>>
    BY <1>3, <1>4, <1>8
  <2>2. Last(us).role = "tool"
    <3>1. Last(us) \in By({"tool"})
      BY <1>4, <2>1 DEF Last
    <3> QED
      BY <3>1 DEF By
  <2> DEFINE t == ns \o us
  <2>3. t \in Seq(Words) /\ ~Brings(t, "user")
    <3>1. t \in Seq(Words)
      BY <1>55, OneOfTwo
    <3>2. \A i \in DOMAIN ns : ns[i].role # "user"
      <4>1. \A i \in DOMAIN ns : ns[i] \in By({"system"})
        BY DEF ns
      <4> QED
        BY <4>1 DEF By
    <3>3. \A i \in DOMAIN us : us[i].role # "user"
      <4>1. \A i \in DOMAIN us : us[i] \in By({"tool"})
        BY <2>1
      <4> QED
        BY <4>1 DEF By
    <3>4. \A i \in DOMAIN t : (i \in DOMAIN ns /\ t[i] = ns[i]) \/ (i - Len(ns) \in DOMAIN us /\ t[i] = us[i - Len(ns)])
      BY <1>55, OneOfTwo
    <3> HIDE DEF t
    <3> QED
      BY <3>1, <3>2, <3>3, <3>4 DEF Brings
  <2>4. lines = (hs \o as) \o t
    <3>1. Associated(hs, as, ns, us)
      BY <1>55, FourAssociate
    <3> QED
      BY <3>1 DEF Associated, lines
  <2> HIDE DEF t
  <2>5. ~Brings(NewestOf((hs \o as) \o t), "user")
    BY <1>3, <1>55, <2>1, <2>3, NewestBehind
  <2> QED
    BY <1>6, <1>65, <2>2, <2>4, <2>5 DEF EndsOf
<1> QED
  BY <1>7, <1>8 DEF one, two, all
-----------------------------------------------------------------------------
(* Whose a request is.                                                      *)

\* A note is the system's.
LEMMA NoteSaid ==
    ASSUME RouteTyped, requests \in Nat,
           NEW note \in IF route.api = "messages" THEN {<<>>, <<[role |-> "system", blocks |-> <<Text(200 + requests)>>]>>}
                        ELSE {<<>>}
    PROVE  HistorySaid(note) \in Seq(By({"system"}))
<1>1. CASE note = <<>>
  <2>1. HistorySaid(note) = <<>>
    BY <1>1, BlocksSaidEmpty, ChatSaidEmpty, ItemsSaidEmpty DEF HistorySaid, RouteTyped, Apis
  <2>2. <<>> \in Seq(By({"system"}))
    OBVIOUS
  <2> QED
    BY <2>1, <2>2
<1>2. CASE note # <<>>
  <2> DEFINE words == <<Text(200 + requests)>>
             m == [role |-> "system", blocks |-> words]
  <2>1. note = <<m>> /\ route.api = "messages"
    BY <1>2
  <2>2. Text(200 + requests) \in Texts
    BY TextTyped
  <2>3. words \in Seq(Texts) /\ words \in Seq(Spoke) /\ words \in Seq(Parts)
    BY <2>2 DEF Spoke, Parts
  <2>4. m \in BlockMessages /\ m.role = "system" /\ m.blocks = words
    BY <2>3 DEF SystemMessages, BlockMessages
  <2> HIDE DEF m, words
  <2>5. HistorySaid(note) = Lines("system", words)
    BY <2>1, <2>4, OneMessage DEF HistorySaid
  <2>6. "system" \in Roles
    BY DEF Roles
  <2> QED
    BY <2>3, <2>5, <2>6, SpokenBy
<1> QED
  BY <1>1, <1>2

\* What a request adds: the latest turn, perhaps a note, and the results of all
\* its calls, in any order, with words behind them or not.
AskedIn(parts) == {parts[i].id : i \in {k \in DOMAIN parts : parts[k].kind = "call"}}
Sends(parts, order, note, more) ==
    /\ order \in SetToSeqs(AskedIn(parts))
    /\ note \in Seq(Recorder(route.api)) /\ HistorySaid(note) \in Seq(By({"system"}))
    /\ Each(Result, order) \in Seq(Results) /\ more \in Seq(Texts)
    /\ more = <<>> \/ \E t \in Nat : more = <<Text(t)>>
    /\ Each(Result, order) # <<>> => parts # <<>>
    /\ Each(Result, order) # <<>> \/ more # <<>>

\* What a client asks is such a request, of what it has got.
LEMMA AskSends ==
    ASSUME ConversationInv, Ask
    PROVE  /\ got.parts \in Seq(Spoke)
           /\ \E order, note, more :
                 /\ Sends(got.parts, order, note, more)
                 /\ Request(history \o Recorded("assistant", got.parts) \o note
                               \o Recorded("user", Each(Result, order) \o more))
<1> DEFINE asked == {i \in DOMAIN got.parts : got.parts[i].kind = "call"}
           words == {<<Text(t)>> : t \in {100 + requests} \union
                                           (IF route.api = "messages" THEN {300 + requests} ELSE {})}
           notes == IF route.api = "messages" THEN {<<>>, <<[role |-> "system", blocks |-> <<Text(200 + requests)>>]>>}
                    ELSE {<<>>}
           parts == got.parts
<1>0. RouteTyped /\ requests \in Nat /\ history \in Seq(Recorder(route.api))
  BY DEF ConversationInv
<1>1. parts \in Seq(Spoke)
  <2>1. phase = "compose" \/ got.stop # None
    BY DEF Ask
  <2>2. <<>> \in Seq(Spoke) /\ Nothing.parts = <<>>
    BY DEF Nothing
  <2> QED
    BY <2>1, <2>2 DEF ConversationInv, Fresh, GotTyped
<1> DEFINE Sent(order, note, more) ==
               history \o Recorded("assistant", parts) \o note \o Recorded("user", Each(Result, order) \o more)
<1>11. asked = {k \in DOMAIN parts : parts[k].kind = "call"} /\ {parts[i].id : i \in asked} = AskedIn(parts)
  BY DEF AskedIn
<1>2. PICK order \in SetToSeqs({parts[i].id : i \in asked}), note \in notes, more \in {<<>>} \union words :
         Request(Sent(order, note, more)) /\ (order = <<>> => more \in words)
  <2>1. \E order \in SetToSeqs({parts[i].id : i \in asked}), note \in notes :
           \E more \in IF order = <<>> THEN words ELSE {<<>>} \union words : Request(Sent(order, note, more))
    BY Zenon DEF Ask
  <2>2. PICK order \in SetToSeqs({parts[i].id : i \in asked}), note \in notes :
           \E more \in IF order = <<>> THEN words ELSE {<<>>} \union words : Request(Sent(order, note, more))
    BY <2>1, Zenon
  <2> HIDE DEF Sent, asked, parts, notes, words
  <2>3. PICK more \in IF order = <<>> THEN words ELSE {<<>>} \union words : Request(Sent(order, note, more))
    BY <2>2, Zenon
  <2>4. more \in {<<>>} \union words /\ (order = <<>> => more \in words)
    BY <2>3
  <2> QED
    BY <2>3, <2>4, Zenon
<1>3. asked \in SUBSET DOMAIN parts
  OBVIOUS
<1>4. note \in Seq(Recorder(route.api)) /\ HistorySaid(note) \in Seq(By({"system"}))
  BY <1>0, NoteTyped, NoteSaid
<1>5. \A w \in words : \E t \in Nat : w = <<Text(t)>>
  BY <1>0
<1>55. \A t \in Nat : <<Text(t)>> \in Seq(Texts) /\ <<Text(t)>> # <<>>
  BY TextTyped
<1> HIDE DEF asked, parts, notes, words, Sent
<1> DEFINE results == Each(Result, order)
<1>6. results \in Seq(Results) /\ (results # <<>> => parts # <<>>) /\ (results = <<>> => order = <<>>)
  BY <1>1, <1>2, <1>3, OrdersTyped
<1> HIDE DEF results
<1>7. /\ more \in Seq(Texts) /\ (results # <<>> \/ more # <<>>)
      /\ more = <<>> \/ \E t \in Nat : more = <<Text(t)>>
  <2>1. more = <<>> \/ \E t \in Nat : more = <<Text(t)>>
    BY <1>2, <1>5
  <2>2. results = <<>> => more # <<>>
    BY <1>2, <1>5, <1>55, <1>6
  <2>3. <<>> \in Seq(Texts)
    OBVIOUS
  <2> QED
    BY <1>55, <2>1, <2>2, <2>3
<1>8. Sends(parts, order, note, more)
  BY <1>2, <1>11, <1>4, <1>6, <1>7 DEF Sends, results
<1>9. got.parts = parts
  BY DEF parts
<1> QED
  BY <1>1, <1>2, <1>8, <1>9 DEF Sent

\* Whatever the client sends ends so.
LEMMA AskEnds ==
    ASSUME ConversationInv, Ask
    PROVE  \E messages : Request(messages) /\ EndsOf(messages)
<1>0. RouteTyped /\ requests \in Nat /\ history \in Seq(Recorder(route.api)) /\ got.parts \in Seq(Spoke)
  BY AskSends DEF ConversationInv
<1>1. PICK order, note, more :
         /\ Sends(got.parts, order, note, more)
         /\ Request(history \o Recorded("assistant", got.parts) \o note
                       \o Recorded("user", Each(Result, order) \o more))
  BY AskSends
<1> DEFINE results == Each(Result, order)
<1>2. EndsOf(history \o Recorded("assistant", got.parts) \o note \o Recorded("user", results \o more))
  <2>1. /\ results \in Seq(Results) /\ more \in Seq(Texts) /\ (results # <<>> => got.parts # <<>>)
        /\ results # <<>> \/ more # <<>>
        /\ more = <<>> \/ \E t \in Nat : more = <<Text(t)>>
        /\ note \in Seq(Recorder(route.api)) /\ HistorySaid(note) \in Seq(By({"system"}))
    BY <1>1 DEF Sends
  <2> HIDE DEF results
  <2> QED
    BY <1>0, <2>1, RequestEnds
<1> QED
  BY <1>1, <1>2

\* No step leaves a history that ends otherwise.
LEMMA NextEnds ==
    ASSUME ConversationInv, HistoryEnds, [Next]_vars
    PROVE  HistoryEnds'
<1>1. CASE Ask
  <2>1. PICK messages : Request(messages) /\ EndsOf(messages)
    BY <1>1, AskEnds
  <2>2. history' = messages /\ route' = route
    BY <2>1 DEF Request
  <2> QED
    BY <2>1, <2>2 DEF HistoryEnds, EndsOf, HistorySaid
<1>2. ASSUME history' = history, route' = route, phase # "compose" \/ phase' = phase PROVE HistoryEnds'
  BY <1>2 DEF HistoryEnds, EndsOf, HistorySaid
<1>3. CASE Retry
  BY <1>2, <1>3 DEF Retry
<1>4. CASE phase = "asked" /\ Answer
  <2>1. \E turn, finish, received : Answered(turn, finish, received)
    BY <1>4 DEF Answer, AnswerWhole, AnswerStreamed
  <2>2. history' = history /\ route' = route
    BY <2>1 DEF Answered
  <2> QED
    BY <1>2, <1>4, <2>2
<1>5. CASE UNCHANGED vars
  BY <1>2, <1>5 DEF vars
<1> QED
  BY <1>1, <1>3, <1>4, <1>5 DEF Next
-----------------------------------------------------------------------------
\* The prompt's last line is the history's.
LEMMA OthersEnd ==
    ASSUME NEW lines \in Seq(Words), lines # <<>>, Last(lines).role \in {"user", "tool"}
    PROVE  /\ OthersOf(lines) \in Seq(Words) /\ OthersOf(lines) # <<>> /\ Last(OthersOf(lines)) = Last(lines)
           /\ Brings(OthersOf(lines), "tool") => Brings(lines, "tool")
<1>1. Last(lines) \in Words \ SystemWords
  BY SplitLast DEF SystemWords
<1>2. OthersOf(lines) = Kept(Words, Words \ SystemWords, lines) /\ OthersOf(lines) \in Seq(Words)
  BY OthersOfKept, SplitTyped
<1>3. OthersOf(lines) # <<>> /\ Last(OthersOf(lines)) = Last(lines)
  BY <1>1, <1>2, KeptLast
<1>4. ASSUME ~Brings(lines, "tool") PROVE ~Brings(OthersOf(lines), "tool")
  <2> DEFINE B == {l \in Words : l.role # "tool"}
  <2>1. \A i \in DOMAIN lines : lines[i] \in B
    BY <1>4 DEF Brings
  <2> HIDE DEF B
  <2>2. \A j \in DOMAIN OthersOf(lines) : OthersOf(lines)[j] \in B
    BY <1>2, <2>1, KeptAmong
  <2> QED
    BY <2>2 DEF Brings, B
<1> QED
  BY <1>2, <1>3, <1>4

\* Words that end a history of messages are the last thing a chat prompt says.
LEMMA WordsPrompted ==
    ASSUME NEW h \in Seq(BlockMessages), NEW t \in Nat, EndsWith(h, t),
           ResponsesToChatRequest(AnthropicToResponses(h)).ok
    PROVE  MessagesInitiator(ResponsesToChatRequest(AnthropicToResponses(h)).messages)
              = IF t \in Suggestions THEN "agent" ELSE "user"
<1> DEFINE body == AnthropicToResponses(h)
           m == ChatMessage("user", <<t>>, <<>>)
           r == TranslateInputItems(body.input)
           sys == IF body.instructions = <<>> THEN <<>> ELSE <<ChatMessage("system", body.instructions, <<>>)>>
<1>1. PICK front \in Seq(BlockMessages), rs \in Seq(Results) : h = Append(front, WordsBehind(rs, t))
  BY DEF EndsWith
<1>2. PICK items \in Seq(Items) : body.input = Append(items, Message("user", <<t>>))
  BY <1>1, WordsLast
<1> DEFINE full == ResponsesToChatRequest(body)
<1>3. full.ok = r.ok /\ full.messages = sys \o r.messages
  BY DEF ResponsesToChatRequest
<1> HIDE DEF body
<1>4. PICK ms \in Seq(ChatMessages) : r.messages = Append(ms, m)
  <2>1. r.ok
    BY <1>3 DEF body
  <2> QED
    BY <1>2, <2>1, MessageLast
<1>5. sys = <<>> \/ \E y : sys = <<y>>
  OBVIOUS
<1> DEFINE S == {sys[i] : i \in DOMAIN sys} \union {ms[i] : i \in DOMAIN ms} \union {m}
<1>6. sys \in Seq(S) /\ ms \in Seq(S) /\ m \in S
  <2>1. sys \in Seq({sys[i] : i \in DOMAIN sys})
    <3> HIDE DEF sys
    <3>1. CASE sys = <<>>
      BY <3>1
    <3>2. CASE \E y : sys = <<y>>
      <4>1. PICK y : sys = <<y>>
        BY <3>2
      <4>2. DOMAIN sys = {1} /\ sys[1] = y
        BY <4>1
      <4>3. y \in {sys[i] : i \in DOMAIN sys}
        BY <4>2
      <4> DEFINE all == {sys[i] : i \in DOMAIN sys}
      <4> HIDE DEF all
      <4> QED
        BY <4>1, <4>3 DEF all
    <3> QED
      BY <1>5, <3>1, <3>2
  <2>2. ms \in Seq({ms[i] : i \in DOMAIN ms})
    OBVIOUS
  <2> HIDE DEF sys, m
  <2> QED
    BY <2>1, <2>2
<1> HIDE DEF sys, m, S, r, full
<1>7. sys \o Append(ms, m) = Append(sys \o ms, m) /\ sys \o ms \in Seq(S)
  BY <1>6
<1>8. full.messages = Append(sys \o ms, m)
  BY <1>3, <1>4, <1>7
<1>9. MessagesInitiator(Append(sys \o ms, m)) = IF t \in Suggestions THEN "agent" ELSE "user"
  <2>1. m = ChatMessage("user", <<t>>, <<>>)
    BY DEF m
  <2> QED
    BY <1>6, <1>7, <2>1, WordsAttributed
<1> QED
  BY <1>8, <1>9 DEF full, body

\* Whose a request is, by its history's last line: the agent's if that is a
\* result, and only if there is one; of messages shown through chat, the agent's
\* too if that line asks for a suggestion.
LEMMA RequestAttributed ==
    ASSUME RouteTyped, history \in Seq(Recorder(route.api)), prompt = Translated(history),
           route.via = "chat" => prompt.ok,
           HistoryLines \in Seq(Words), HistoryLines # <<>>, Last(HistoryLines).role \in {"user", "tool"},
           route.api # route.via,
           route.api = "messages" /\ Last(HistoryLines).role = "user" => EndsWith(history, Last(HistoryLines).id)
    PROVE  /\ Last(HistoryLines).role = "tool" => Initiator = "agent"
           /\ ~(route.api = "messages" /\ route.via = "chat") => (Initiator = "agent" => Brings(HistoryLines, "tool"))
           /\ route.api = "messages" /\ route.via = "chat" /\ Last(HistoryLines).role = "user" =>
                 (Initiator = "agent" <=> Last(HistoryLines).id \in Suggestions)
<1> DEFINE others == OthersOf(HistoryLines)
           body == AsResponses(history)
<1>1. /\ others \in Seq(Words) /\ others # <<>> /\ Last(others) = Last(HistoryLines)
      /\ Brings(others, "tool") => Brings(HistoryLines, "tool")
  BY OthersEnd
<1>2. body.instructions \in Seq(Nat) /\ body.input \in Seq(Items) /\ ItemsSaid(body.input) = others
  BY FirstTranslation
<1> HIDE DEF others
<1>3. /\ Last(HistoryLines).role = "tool" => InputItemsInitiator(body.input) = "agent"
      /\ InputItemsInitiator(body.input) = "agent" => Brings(HistoryLines, "tool")
  BY <1>1, <1>2, ItemsAttributed
<1> HIDE DEF body
<1>4. CASE route.api = "responses"
  <2>1. body.input = history
    BY <1>4 DEF AsResponses, body
  <2> QED
    BY <1>3, <1>4, <2>1 DEF Initiator
<1>5. CASE route.api # "responses" /\ route.via = "responses"
  <2>1. prompt.input = body.input
    BY <1>5 DEF Translated, body
  <2> QED
    BY <1>3, <1>5, <2>1 DEF Initiator
<1>6. CASE route.api # "responses" /\ route.via = "chat"
  <2>1. prompt = ResponsesToChatRequest(body) /\ prompt.ok
    BY <1>6 DEF Translated, body
  <2>2. prompt.messages \in Seq(ChatMessages)
    BY <1>2, <2>1, SecondTranslation
  <2>3. PromptLines = ChatSaid(prompt.messages)
    BY <1>6 DEF PromptLines, ChatSaid
  <2>4. PromptLines = SystemOf(HistoryLines) \o others
    BY TranslationKeepsWords DEF others
  <2>5. PromptLines # <<>> /\ Last(PromptLines) = Last(HistoryLines)
    BY <1>1, <2>4, SplitTyped, LastBehind
  <2>6. route.api = "messages"
    BY <1>6 DEF RouteTyped, Apis
  <2>7. Initiator = MessagesInitiator(prompt.messages)
    BY <1>6 DEF Initiator
  <2>8. CASE Last(HistoryLines).role = "tool"
    <3>1. Last(ChatSaid(prompt.messages)).role = "tool" /\ ChatSaid(prompt.messages) # <<>>
      BY <2>3, <2>5, <2>8
    <3>2. MessagesInitiator(prompt.messages) = "agent"
      BY <2>2, <3>1, MessagesAttributed
    <3> QED
      BY <1>6, <2>6, <2>7, <2>8, <3>2
  <2>9. CASE Last(HistoryLines).role = "user"
    <3> DEFINE t == Last(HistoryLines).id
    <3>1. t \in Nat
      <4>1. EndsWith(history, t)
        BY <2>6, <2>9
      <4> QED
        BY <4>1 DEF EndsWith
    <3>2. history \in Seq(BlockMessages) /\ EndsWith(history, t) /\ body = AnthropicToResponses(history)
      BY <2>6, <2>9 DEF Recorder, AsResponses, body
    <3> HIDE DEF t
    <3>3. MessagesInitiator(prompt.messages) = IF t \in Suggestions THEN "agent" ELSE "user"
      BY <2>1, <3>1, <3>2, WordsPrompted
    <3> QED
      BY <1>6, <2>6, <2>7, <2>9, <3>3 DEF t
  <2> QED
    BY <2>8, <2>9
<1> QED
  BY <1>4, <1>5, <1>6 DEF RouteTyped

\* The route of a conversation stays.
RouteKnown == route \in Routes

\* MISSING NextRoute
LEMMA NextRoute ==
    ASSUME RouteKnown, [Next]_vars
    PROVE  RouteKnown'
<1>1. CASE Ask
  BY <1>1 DEF Ask, Request, RouteKnown
<1>2. CASE Retry
  BY <1>2 DEF Retry, RouteKnown
<1>3. CASE Answer
  <2>1. \E turn, finish, received : Answered(turn, finish, received)
    BY <1>3 DEF Answer, AnswerWhole, AnswerStreamed
  <2> QED
    BY <2>1 DEF Answered, RouteKnown
<1>4. CASE UNCHANGED vars
  BY <1>4 DEF vars, RouteKnown
<1> QED
  BY <1>1, <1>2, <1>3, <1>4 DEF Next

\* Whatever formats a request goes through: with nothing but results it goes out
\* as the agent's; with words it does so, of messages shown through chat, exactly
\* if they end in a request for a suggestion, and of anything else only if there
\* are results in the conversation.
THEOREM InitiatorFollowsTurnHolds == Spec => []InitiatorFollowsTurn
<1>1. Init => ConversationInv /\ HistoryEnds /\ RouteKnown
  BY InitConversation DEF Init, HistoryEnds, RouteKnown
<1>2. ConversationInv /\ HistoryEnds /\ RouteKnown /\ [Next]_vars => ConversationInv' /\ HistoryEnds' /\ RouteKnown'
  BY NextConversation, NextEnds, NextRoute
<1>3. ConversationInv /\ HistoryEnds /\ RouteKnown => InitiatorFollowsTurn
  <2> SUFFICES ASSUME ConversationInv, HistoryEnds, RouteKnown, phase = "asked" PROVE InitiatorFollowsTurn
    BY DEF InitiatorFollowsTurn
  <2>1. RouteTyped /\ history \in Seq(Recorder(route.api)) /\ prompt = Translated(history)
        /\ (route.via = "chat" => prompt.ok)
    BY DEF ConversationInv, PromptKept
  <2>2. HistoryLines = HistorySaid(history)
    BY DEF HistoryLines, HistorySaid, BlocksSaid, ChatSaid, ItemsSaid
  <2>3. Newest = NewestOf(HistoryLines)
    BY DEF Newest, NewestOf
  <2>4. HistoryLines \in Seq(Words)
    <3>1. <<>> \in Seq(Recorder(route.api))
      OBVIOUS
    <3> QED
      BY <2>1, <2>2, <3>1, HistorySaidConcat
  <2>5. /\ HistoryLines # <<>> /\ Last(HistoryLines).role \in {"user", "tool"}
        /\ Brings(Newest, "user") => Last(HistoryLines).role = "user"
        /\ route.api = "messages" /\ Last(HistoryLines).role = "user" => EndsWith(history, Last(HistoryLines).id)
    BY <2>2, <2>3 DEF HistoryEnds, EndsOf
  <2>6. ~Brings(Newest, "user") => Last(HistoryLines).role = "tool"
    BY <2>3, <2>4, <2>5, NewestLast
  <2>7. route.api # route.via
    BY ConversationAssumption DEF RouteKnown
  <2>8. /\ Last(HistoryLines).role = "tool" => Initiator = "agent"
        /\ ~(route.api = "messages" /\ route.via = "chat") => (Initiator = "agent" => Brings(HistoryLines, "tool"))
        /\ route.api = "messages" /\ route.via = "chat" /\ Last(HistoryLines).role = "user" =>
              (Initiator = "agent" <=> Last(HistoryLines).id \in Suggestions)
    BY <2>1, <2>4, <2>5, <2>7, RequestAttributed
  <2>9. Suggesting <=> Last(HistoryLines).id \in Suggestions
    BY DEF Suggesting, Last
  <2> HIDE DEF HistoryLines
  <2> QED
    BY <2>5, <2>6, <2>8, <2>9 DEF InitiatorFollowsTurn
<1> QED
  BY <1>1, <1>2, <1>3, PTL DEF Spec
=============================================================================
