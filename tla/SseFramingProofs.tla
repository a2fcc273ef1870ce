-------------------------- MODULE SseFramingProofs --------------------------
(***************************************************************************)
(* For every body and every way to cut it: lines are handed over as they   *)
(* were sent, relays change nothing, and the upstream is asked again for   *)
(* the first line's sake and not for where a chunk begins.                 *)
(***************************************************************************)
EXTENDS SseFraming, SequenceTheorems, WellFoundedInduction, TLAPS

Live == phase \in {"prefix", "lines"}
Faithful == route # "mapped" \/ ~cut

\* The present line began after a line break or with the body.
BeginsAt(b, p, s) == (\A q \in s..p - 1 : b[q] # LF) /\ (s = 1 \/ b[s - 1] = LF)
LineBegan == \E s \in 1..pos + 1 : BeginsAt(Body, pos + 1, s)

\* The buffer holds the present line so far, unless that is over the limit.
Buffered ==
    Live /\ Faithful =>
        IF observing THEN line = Raw(Body, pos + 1)
        ELSE Relaying /\ phase = "lines" /\ Len(Raw(Body, pos + 1)) > Limit

WithinLimit == Live /\ observing /\ Relaying /\ phase = "lines" => Len(line) <= Limit

\* What is held back or has decided belongs to the first answer.
Prefix ==
    /\ phase = "prefix" => route = "guarded" /\ current = 1 /\ observing
    /\ phase = "prefix" => \A p \in LineEnds(Body, pos) :
                               Classify(WithoutCR(Raw(Body, p))) = "undecided"

\* Chunks are passed on as they are dealt with.
Given ==
    /\ Relaying => given = IF phase \in {"prefix", "rejected"} THEN <<>> ELSE SubSeq(Body, 1, from)
    /\ phase = "done" => from = Len(Body)

\* Chunks that lie one behind the other between two places of the answer.
Joined(chunks, first, last) ==
    /\ chunks = <<>> => first = last
    /\ chunks # <<>> => chunks[1][1] = first /\ chunks[Len(chunks)][2] = last
    /\ \A k \in 1..Len(chunks) : chunks[k][1] <= chunks[k][2] /\ chunks[k][2] <= last
    /\ \A k \in 1..Len(chunks) - 1 : chunks[k][2] = chunks[k + 1][1]

\* Nothing is missing between what has been scanned and what is to arrive.
Queue ==
    /\ phase = "prefix" => avail = taken /\ Joined(held, 0, from)
    /\ phase = "lines" => Joined(held, avail, taken)

Inv == /\ TypeOK /\ Queue /\ LineBegan /\ Buffered /\ WithinLimit /\ Prefix /\ Given
       /\ LinesAsSent /\ RetriedForFirstFailure
-----------------------------------------------------------------------------
\* A line has one beginning.
LEMMA OneBeginning ==
    ASSUME NEW b, NEW p \in Nat, NEW s \in 1..p, BeginsAt(b, p, s)
    PROVE  LineFrom(b, p) = s
<1>1. \A t \in 1..p : BeginsAt(b, p, t) => t = s
  <2> SUFFICES ASSUME NEW t \in 1..p, BeginsAt(b, p, t), t # s PROVE FALSE
    OBVIOUS
  <2>1. CASE t < s
    <3>1. s - 1 \in t..p - 1 /\ b[s - 1] = LF
      BY <2>1 DEF BeginsAt
    <3> QED
      BY <3>1 DEF BeginsAt
  <2>2. CASE s < t
    <3>1. t - 1 \in s..p - 1 /\ b[t - 1] = LF
      BY <2>2 DEF BeginsAt
    <3> QED
      BY <3>1 DEF BeginsAt
  <2> QED
    BY <2>1, <2>2
<1> QED
  BY <1>1 DEF LineFrom, BeginsAt

\* The bytes of a line, from its beginning to where it has been read.
LEMMA RawIs ==
    ASSUME NEW b \in Seq(Bytes), NEW p \in 1..Len(b) + 1, NEW s \in 1..p, BeginsAt(b, p, s)
    PROVE  /\ Raw(b, p) = SubSeq(b, s, p - 1)
           /\ Raw(b, p) \in Seq(Bytes)
           /\ Len(Raw(b, p)) = p - s
<1>1. Raw(b, p) = SubSeq(b, s, p - 1)
  BY OneBeginning DEF Raw
<1>2. \A i \in s..p - 1 : b[i] \in Bytes
  OBVIOUS
<1>3. SubSeq(b, s, p - 1) \in Seq(Bytes)
  BY <1>2, SubSeqProperties
<1>4. Len(SubSeq(b, s, p - 1)) = IF s <= p - 1 THEN p - 1 - s + 1 ELSE 0
  BY <1>2, SubSeqProperties
<1> QED
  BY <1>1, <1>3, <1>4

\* One more byte of the same line.
LEMMA RawGrows ==
    ASSUME NEW b \in Seq(Bytes), NEW p \in 1..Len(b), NEW s \in 1..p, BeginsAt(b, p, s),
           b[p] # LF
    PROVE  BeginsAt(b, p + 1, s) /\ Raw(b, p + 1) = Append(Raw(b, p), b[p])
<1>1. BeginsAt(b, p + 1, s)
  BY DEF BeginsAt
<1>2. Raw(b, p + 1) = SubSeq(b, s, p) /\ Raw(b, p) = SubSeq(b, s, p - 1)
  <2>1. p + 1 \in 1..Len(b) + 1 /\ s \in 1..p + 1 /\ p \in 1..Len(b) + 1
    OBVIOUS
  <2>2. ASSUME NEW q \in 1..Len(b) + 1, q = p + 1
        PROVE  Raw(b, q) = SubSeq(b, s, q - 1)
    <3>1. s \in 1..q /\ BeginsAt(b, q, s)
      BY <1>1, <2>1, <2>2
    <3> QED
      BY <3>1, RawIs
  <2>3. Raw(b, p) = SubSeq(b, s, p - 1)
    BY <2>1, RawIs
  <2> QED
    BY <2>2, <2>3
<1>3. SubSeq(b, s, p) = SubSeq(b, s, p - 1) \o <<b[p]>>
  BY SubSeqRecursiveSecond
<1>4. Raw(b, p) \in Seq(Bytes) /\ b[p] \in Bytes
  BY RawIs
<1>5. Raw(b, p) \o <<b[p]>> = Append(Raw(b, p), b[p])
  BY <1>4, AppendIsConcat
<1> QED
  BY <1>1, <1>2, <1>3, <1>5

\* After a line break a line begins.
LEMMA RawAnew ==
    ASSUME NEW b \in Seq(Bytes), NEW p \in 0..Len(b), p > 0 => b[p] = LF
    PROVE  BeginsAt(b, p + 1, p + 1) /\ Raw(b, p + 1) = <<>>
<1>1. BeginsAt(b, p + 1, p + 1)
  <2>1. p + 1 - 1 = p /\ (p = 0 \/ p > 0) /\ (p + 1)..p = {}
    OBVIOUS
  <2> QED
    BY <2>1 DEF BeginsAt
<1>2. Raw(b, p + 1) = SubSeq(b, p + 1, p + 1 - 1)
  BY <1>1, RawIs
<1> QED
  BY <1>1, <1>2, SubSeqEmpty

\* A body is a sequence of bytes.
LEMMA BodyFacts ==
    ASSUME TypeOK
    PROVE  Body \in Seq(Bytes) /\ Len(Body) \in Nat /\ bodies[1] \in Seq(Bytes)
<1>1. bodies[1] \in Seq(Bytes) /\ bodies[2] \in Seq(Bytes)
  BY DEF TypeOK
<1> QED
  BY <1>1 DEF TypeOK, Body
-----------------------------------------------------------------------------
\* What the invariant says is about the present answer; most steps leave that
\* and its lines alone.
LEMMA AsBefore ==
    ASSUME UNCHANGED <<route, bodies, current>>
    PROVE  Body' = Body /\ Relaying' = Relaying
BY DEF Body, Relaying

\* The first of joined chunks begins where they do, and the rest goes on.
LEMMA JoinedTail ==
    ASSUME NEW h \in Seq(Pieces), h # <<>>, NEW first, NEW last, Joined(h, first, last)
    PROVE  /\ Head(h)[1] = first /\ first \in Nat
           /\ Head(h)[2] \in Nat /\ first <= Head(h)[2] /\ Head(h)[2] <= last
           /\ Joined(Tail(h), Head(h)[2], last)
<1>1. /\ Len(h) \in Nat \ {0} /\ Head(h) = h[1] /\ h[1] \in Pieces
      /\ Tail(h) \in Seq(Pieces) /\ Len(Tail(h)) = Len(h) - 1
      /\ \A k \in 1..Len(Tail(h)) : Tail(h)[k] = h[k + 1]
  <2>1. Tail(h) \in Seq(Pieces) /\ Len(Tail(h)) = Len(h) - 1
        /\ \A k \in 1..Len(Tail(h)) : Tail(h)[k] = h[k + 1]
    BY HeadTailProperties
  <2>2. Len(h) \in Nat /\ Len(h) # 0
    BY EmptySeq
  <2> QED
    BY <2>1, <2>2
<1>2. Head(h)[1] = first /\ first \in Nat
  BY <1>1 DEF Joined, Pieces
<1>3. Head(h)[2] \in Nat /\ first <= Head(h)[2] /\ Head(h)[2] <= last
  BY <1>1, <1>2 DEF Joined, Pieces
<1>4. Joined(Tail(h), Head(h)[2], last)
  <2>1. Tail(h) = <<>> => Head(h)[2] = last
    <3>1. Tail(h) = <<>> => Len(h) = 1
      <4>1. Tail(h) = <<>> => Len(Tail(h)) = 0
        <5>1. Len(<<>>) = 0
          OBVIOUS
        <5> QED
          BY <5>1, Zenon
      <4>2. Len(Tail(h)) = Len(h) - 1 /\ Len(h) \in Nat
        BY <1>1
      <4> QED
        BY <4>1, <4>2
    <3> QED
      BY <1>1, <3>1 DEF Joined
  <2>2. Tail(h) # <<>> => Tail(h)[1][1] = Head(h)[2] /\ Tail(h)[Len(Tail(h))][2] = last
    <3> SUFFICES ASSUME Tail(h) # <<>>
                 PROVE  Tail(h)[1][1] = Head(h)[2] /\ Tail(h)[Len(Tail(h))][2] = last
      OBVIOUS
    <3>1. Len(Tail(h)) # 0
      BY <1>1, EmptySeq
    <3>2. 1 \in 1..Len(Tail(h)) /\ Len(Tail(h)) \in 1..Len(Tail(h)) /\ 1 \in 1..Len(h) - 1
      BY <1>1, <3>1
    <3>3. Tail(h)[1] = h[1 + 1] /\ Tail(h)[Len(Tail(h))] = h[Len(h) - 1 + 1]
      BY <1>1, <3>2
    <3> QED
      BY <1>1, <3>2, <3>3 DEF Joined
  <2>3. \A k \in 1..Len(Tail(h)) : Tail(h)[k][1] <= Tail(h)[k][2] /\ Tail(h)[k][2] <= last
    BY <1>1 DEF Joined
  <2>4. \A k \in 1..Len(Tail(h)) - 1 : Tail(h)[k][2] = Tail(h)[k + 1][1]
    BY <1>1 DEF Joined
  <2> QED
    BY <2>1, <2>2, <2>3, <2>4 DEF Joined
<1> QED
  BY <1>2, <1>3, <1>4

\* One more chunk behind the others.
LEMMA JoinedAppend ==
    ASSUME NEW h \in Seq(Pieces), NEW first \in Nat, NEW last \in Nat, Joined(h, first, last),
           NEW end \in Nat, last <= end
    PROVE  Joined(Append(h, <<last, end>>), first, end)
<1> DEFINE g == Append(h, <<last, end>>)
<1>1. /\ g # <<>> /\ Len(g) = Len(h) + 1
      /\ \A k \in 1..Len(h) : g[k] = h[k]
      /\ g[Len(h) + 1] = <<last, end>>
  <2>1. <<last, end>> \in Pieces
    BY DEF Pieces
  <2> QED
    BY <2>1, AppendProperties
<1>5. Len(h) \in Nat /\ (h # <<>> => Len(h) # 0) /\ \A k \in 1..Len(h) : h[k] \in Pieces
  BY EmptySeq
<1> HIDE DEF g
<1>2. g[1][1] = first /\ g[Len(g)][2] = end
  <2>1. CASE h = <<>>
    <3>1. Len(h) = 0 /\ first = last
      BY <2>1 DEF Joined
    <3> QED
      BY <1>1, <3>1
  <2>2. CASE h # <<>>
    <3>1. 1 \in 1..Len(h) /\ h[1][1] = first
      BY <1>5, <2>2 DEF Joined
    <3>2. g[1] = h[1] /\ g[Len(g)] = <<last, end>>
      BY <1>1, <3>1
    <3> QED
      BY <3>1, <3>2
  <2> QED
    BY <2>1, <2>2
<1>3. \A k \in 1..Len(g) : g[k][1] <= g[k][2] /\ g[k][2] <= end
  <2> SUFFICES ASSUME NEW k \in 1..Len(g) PROVE g[k][1] <= g[k][2] /\ g[k][2] <= end
    OBVIOUS
  <2>1. CASE k \in 1..Len(h)
    <3>1. g[k] = h[k] /\ h[k] \in Pieces
      BY <1>1, <1>5, <2>1
    <3>2. h[k][1] <= h[k][2] /\ h[k][2] <= last /\ h[k][2] \in Nat
      BY <2>1, <3>1 DEF Joined, Pieces
    <3> QED
      BY <3>1, <3>2
  <2>2. CASE k = Len(h) + 1
    BY <1>1, <1>5, <2>2
  <2> QED
    BY <1>1, <1>5, <2>1, <2>2
<1>4. \A k \in 1..Len(g) - 1 : g[k][2] = g[k + 1][1]
  <2>3. Len(g) - 1 = Len(h)
    BY <1>1, <1>5
  <2> SUFFICES ASSUME NEW k \in 1..Len(h) PROVE g[k][2] = g[k + 1][1]
    BY <2>3
  <2>1. CASE k = Len(h)
    <3>1. h # <<>> /\ g[k] = h[k] /\ g[k + 1] = <<last, end>>
      BY <1>1, <1>5, <2>1
    <3> QED
      BY <2>1, <3>1 DEF Joined
  <2>2. CASE k # Len(h)
    <3>1. k \in 1..Len(h) - 1 /\ k + 1 \in 1..Len(h)
      BY <1>5, <2>2
    <3>2. g[k] = h[k] /\ g[k + 1] = h[k + 1]
      BY <1>1, <3>1
    <3> QED
      BY <3>1, <3>2 DEF Joined
  <2> QED
    BY <2>1, <2>2
<1> QED
  BY <1>1, <1>2, <1>3, <1>4 DEF Joined, g

\* Nothing read, nothing seen: the invariant holds of the first state ...
LEMMA Initially == Init => Inv
<1> SUFFICES ASSUME Init PROVE Inv
  OBVIOUS
<1> USE DEF Init
<1>1. route \in Routes /\ bodies \in Seq(Bytes) \X Seq(Bytes)
  BY FramingAssumption
<1>2. Body \in Seq(Bytes) /\ Len(Body) \in Nat
  BY <1>1 DEF Body
<1>3. TypeOK
  <2>1. phase \in {"prefix", "lines"}
    OBVIOUS
  <2>2. /\ taken \in 0..Len(Body) /\ avail \in 0..taken
        /\ from \in 0..avail /\ pos \in from..avail
    BY <1>2
  <2>3. held \in Seq(Pieces) /\ line \in Seq(Bytes) /\ given \in Seq(Bytes)
    OBVIOUS
  <2> QED
    BY <1>1, <2>1, <2>2, <2>3 DEF TypeOK
<1>4. BeginsAt(Body, 1, 1) /\ Raw(Body, 1) = <<>>
  <2>1. 0 \in 0..Len(Body) /\ 0 + 1 = 1
    BY <1>2
  <2> QED
    BY <1>2, <2>1, RawAnew
<1>5. LineBegan /\ Queue
  BY <1>4 DEF LineBegan, Queue, Joined
<1>6. Buffered /\ WithinLimit
  BY <1>4, FramingAssumption DEF Buffered, WithinLimit
<1>7. LineEnds(Body, 0) = {}
  BY DEF LineEnds
<1>8. Prefix
  BY <1>7 DEF Prefix
<1>9. Given
  <2>1. SubSeq(Body, 1, 0) = <<>>
    BY SubSeqEmpty
  <2> QED
    BY <2>1 DEF Given
<1>10. LinesAsSent
  <2>1. Ended = {}
    BY <1>7 DEF Ended
  <2> QED
    BY <2>1 DEF LinesAsSent
<1>11. RetriedForFirstFailure
  BY DEF RetriedForFirstFailure
<1> QED
  BY <1>3, <1>5, <1>6, <1>8, <1>9, <1>10, <1>11 DEF Inv

\* ... and no step takes a variable out of its type.
LEMMA TypesKept ==
    ASSUME Inv, Next
    PROVE  TypeOK'
<1> USE DEF Inv, still
<1>1. Body \in Seq(Bytes) /\ Len(Body) \in Nat
  BY BodyFacts
<1>2. CASE \E end \in 1..Len(Body) : Chunk(end)
  <2> PICK end \in 1..Len(Body) : Chunk(end)
    BY <1>2
  <2>1. Body' = Body
    BY AsBefore DEF Chunk
  <2>2. CASE phase' = "rejected" /\ UNCHANGED <<from, pos, avail>>
    BY <2>1, <2>2, <1>1 DEF Chunk, TypeOK
  <2>3. CASE phase' = phase /\ Take(taken, end)
    BY <2>1, <2>3, <1>1 DEF Chunk, Take, TypeOK
  <2> QED
    BY <2>2, <2>3 DEF Chunk
<1>14. CASE HeldChunk
  <2>1. Body' = Body
    BY <1>14, AsBefore DEF HeldChunk
  <2>2. held # <<>> /\ held \in Seq(Pieces) /\ Joined(held, avail, taken)
    BY <1>14 DEF HeldChunk, Queue, TypeOK
  <2>3. /\ Head(held)[1] \in Nat /\ Head(held)[2] \in Nat
        /\ Head(held)[1] <= Head(held)[2] /\ Head(held)[2] <= taken
    BY <2>2, JoinedTail
  <2>4. held' \in Seq(Pieces)
    BY <2>2, <1>14, HeadTailProperties DEF HeldChunk
  <2> QED
    BY <2>1, <2>3, <2>4, <1>1, <1>14 DEF HeldChunk, Take, TypeOK
<1>3. CASE ScanByte
  <2>1. Body' = Body
    BY <1>3, AsBefore DEF ScanByte
  <2>2. pos + 1 \in 1..Len(Body) /\ Body[pos + 1] \in Bytes
    BY <1>1, <1>3 DEF ScanByte, TypeOK
  <2>3. Decoded \in Bytes
    BY <2>2, FramingAssumption DEF Decoded
  <2>4. line' \in Seq(Bytes) /\ observing' \in BOOLEAN
    <3>1. \/ line' = line /\ observing' = observing
          \/ line' = <<>> /\ observing' = FALSE
          \/ line' = Append(line, Decoded) /\ observing' = TRUE
      BY <1>3, Zenon DEF ScanByte, KeepByte
    <3>2. line \in Seq(Bytes) /\ Append(line, Decoded) \in Seq(Bytes) /\ <<>> \in Seq(Bytes)
      BY <2>3 DEF TypeOK
    <3>3. observing \in BOOLEAN
      BY DEF TypeOK
    <3> QED
      BY <3>1, <3>2, <3>3, Zenon
  <2>5. cut' \in BOOLEAN
    <3>1. cut' = (cut \/ (route = "mapped" /\ Halved)) /\ cut \in BOOLEAN
      BY <1>3 DEF ScanByte, TypeOK
    <3> QED
      BY <3>1, Zenon
  <2> QED
    BY <2>1, <2>4, <2>5, <1>1, <1>3 DEF ScanByte, TypeOK
<1>4. CASE ScanLine
  <2>1. Body' = Body
    BY <1>4, AsBefore DEF ScanLine
  <2> QED
    BY <2>1, <1>1, <1>4 DEF ScanLine, TypeOK
<1>5. CASE ScanTooLong
  <2>1. Body' = Body
    BY <1>5, AsBefore DEF ScanTooLong
  <2> QED
    BY <2>1, <1>1, <1>5 DEF ScanTooLong, TypeOK
<1>6. CASE EndChunk
  <2>1. Body' = Body
    BY <1>6, AsBefore DEF EndChunk
  <2>2. SubSeq(Body, from + 1, avail) \in Seq(Bytes)
    <3>1. \A i \in from + 1..avail : Body[i] \in Bytes
      BY <1>1 DEF TypeOK
    <3> QED
      BY <3>1, SubSeqProperties DEF TypeOK
  <2>3. given' \in Seq(Bytes)
    <3>1. given \o SubSeq(Body, from + 1, avail) \in Seq(Bytes)
      BY <2>2 DEF TypeOK
    <3> QED
      BY <3>1, <1>6 DEF EndChunk, TypeOK
  <2>4. held' \in Seq(Pieces)
    <3>1. <<from, avail>> \in Pieces
      BY <1>1 DEF TypeOK, Pieces
    <3>2. Append(held, <<from, avail>>) \in Seq(Pieces)
      BY <3>1 DEF TypeOK
    <3> QED
      BY <3>2, <1>6 DEF EndChunk, TypeOK
  <2> QED
    BY <2>1, <2>3, <2>4, <1>1, <1>6 DEF EndChunk, TypeOK
<1>7. ASSUME NEW n \in {1, 2}, NEW chunks \in Seq(Pieces), Begin(n, chunks),
             UNCHANGED <<route, bodies, observing, given, seen, cut>>
      PROVE  TypeOK'
  <2>1. bodies' \in Seq(Bytes) \X Seq(Bytes) /\ current' \in {1, 2}
    BY <1>7 DEF TypeOK, Begin
  <2>2. bodies'[1] \in Seq(Bytes) /\ bodies'[2] \in Seq(Bytes)
    BY <2>1
  <2>3. Body' \in Seq(Bytes)
    BY <2>1, <2>2 DEF Body
  <2>4. taken' \in 0..Len(Body')
    <3>1. CASE n = current
      <4>1. Body' = Body /\ taken' = taken
        BY <1>7, <3>1, AsBefore DEF Begin
      <4> QED
        BY <4>1 DEF TypeOK
    <3>2. CASE n # current
      BY <1>7, <2>3, <3>2 DEF Begin
    <3> QED
      BY <3>1, <3>2
  <2>5. avail' = 0 /\ from' = 0 /\ pos' = 0
    BY <1>7 DEF Begin, Take
  <2> QED
    BY <1>7, <2>1, <2>3, <2>4, <2>5 DEF Begin, TypeOK
<1>8. ASSUME AskAgain, UNCHANGED <<route, bodies, observing, given, seen, cut>>
      PROVE  TypeOK'
  <2>1. CASE Begin(2, <<>>)
    <3>1. 2 \in {1, 2} /\ <<>> \in Seq(Pieces)
      OBVIOUS
    <3> QED
      BY <3>1, <2>1, <1>7, <1>8
  <2>2. CASE phase' = "rejected" /\ UNCHANGED <<current, held, taken, avail, from, pos, line>>
    <3>1. Body' = Body
      BY <1>8, <2>2, AsBefore
    <3> QED
      BY <3>1, <2>2, <1>8, <1>1 DEF TypeOK
  <2> QED
    BY <1>8, <2>1, <2>2 DEF AskAgain
<1>9. CASE ScanPrefixLine
  <2>1. CASE Classify(WithoutCR(line)) = "undecided"
    <3>1. Body' = Body
      BY <1>9, <2>1, AsBefore DEF ScanPrefixLine
    <3> QED
      BY <3>1, <2>1, <1>1, <1>9 DEF ScanPrefixLine, TypeOK
  <2>2. CASE Classify(WithoutCR(line)) # "undecided"
    <3>1. Append(held, <<from, avail>>) \in Seq(Pieces)
      <4>1. <<from, avail>> \in Pieces
        BY <1>1 DEF TypeOK, Pieces
      <4> QED
        BY <4>1 DEF TypeOK
    <3> QED
      BY <3>1, <2>2, <1>7, <1>8, <1>9 DEF ScanPrefixLine, Decide
  <2> QED
    BY <2>1, <2>2
<1>10. CASE EndOfPrefix
  <2>1. held \in Seq(Pieces)
    BY DEF TypeOK
  <2> QED
    BY <2>1, <1>7, <1>8, <1>10 DEF EndOfPrefix, DecideAtEnd
<1>11. CASE EndOfBody
  <2>1. Body' = Body
    BY <1>11, AsBefore DEF EndOfBody
  <2>2. phase' \in {"failed", "done"}
    BY <1>11 DEF EndOfBody
  <2> QED
    BY <2>1, <2>2, <1>1, <1>11 DEF EndOfBody, TypeOK
<1>12. CASE Break
  <2>1. Body' = Body
    BY <1>12, AsBefore DEF Break
  <2> QED
    BY <2>1, <1>1, <1>12 DEF Break, TypeOK
<1>13. CASE Over
  BY <1>13 DEF Over, TypeOK, vars, Body
<1> QED
  BY <1>2, <1>3, <1>4, <1>5, <1>6, <1>9, <1>10, <1>11, <1>12, <1>13, <1>14 DEF Next

\* Steps that scan nothing: chunks come and go, the stream ends over what it
\* has in hand.
LEMMA NothingScanned ==
    ASSUME Inv, Live,
           UNCHANGED <<route, bodies, current, pos, line, observing, seen, cut>>,
           \/ phase' = phase
           \/ phase = "prefix" /\ phase' = "rejected"
           \/ phase = "lines" /\ phase' = "broken"
           \/ phase = "lines" /\ phase' = "failed" /\ from' # avail'
    PROVE  /\ LineBegan' /\ Buffered' /\ WithinLimit' /\ Prefix'
           /\ LinesAsSent' /\ RetriedForFirstFailure'
<1> USE DEF Inv
<1>1. Body' = Body /\ Relaying' = Relaying
  BY AsBefore
<1>2. TextOf(Raw(Body, 1)) = TextOf(Raw(Body, 1))' /\ \A l : TextOf(l) = TextOf(l)'
  BY <1>1 DEF TextOf
<1>3. LineBegan'
  BY <1>1 DEF LineBegan
<1>4. Buffered' /\ WithinLimit'
  BY <1>1 DEF Buffered, WithinLimit, Live, Faithful
<1>5. Prefix'
  BY <1>1 DEF Prefix
<1>6. Ended' = Ended
  BY <1>1 DEF Ended, Live, TypeOK
<1>7. LinesAsSent'
  BY <1>1, <1>2, <1>6 DEF LinesAsSent
<1>8. RetriedForFirstFailure'
  BY DEF RetriedForFirstFailure, Live
<1> QED
  BY <1>3, <1>4, <1>5, <1>7, <1>8

LEMMA ChunkKeeps ==
    ASSUME Inv, NEW end \in 1..Len(Body), Chunk(end), TypeOK'
    PROVE  Inv'
<1> USE DEF Inv
<1>1. /\ Live /\ given' = given /\ held' = held /\ pos = avail /\ from = avail /\ taken' = end
      /\ (phase = "lines" => held = <<>>)
  BY DEF Chunk, FromConnection, Waiting, Live
<1>2. \/ phase' = phase /\ Take(taken, end)
      \/ phase = "prefix" /\ phase' = "rejected" /\ UNCHANGED <<from, pos, avail>>
  BY DEF Chunk
<1>3. avail = taken
  BY <1>1 DEF Queue, Joined, Live
<1>4. from' = from /\ pos' = pos
  BY <1>1, <1>2, <1>3 DEF Take
<1>5. Queue'
  <2>1. phase' = "prefix" => avail' = taken' /\ Joined(held, 0, from)
    BY <1>1, <1>2 DEF Queue, Take
  <2>2. phase' = "lines" => avail' = taken' /\ held' = <<>>
    BY <1>1, <1>2 DEF Take
  <2> QED
    BY <1>1, <1>4, <2>1, <2>2 DEF Queue, Joined
<1>6. Given'
  <2>1. Body' = Body /\ Relaying' = Relaying
    BY AsBefore DEF Chunk, still
  <2> QED
    BY <1>1, <1>2, <1>4, <2>1 DEF Given, Live
<1>7. UNCHANGED <<route, bodies, current, line, observing, seen, cut>>
  BY DEF Chunk, still
<1> QED
  BY <1>1, <1>2, <1>4, <1>5, <1>6, <1>7, NothingScanned

LEMMA HeldChunkKeeps ==
    ASSUME Inv, HeldChunk, TypeOK'
    PROVE  Inv'
<1> USE DEF Inv
<1>1. UNCHANGED <<route, bodies, current, phase, taken, line, observing, given, seen, cut>>
  BY DEF HeldChunk, still
<1>2. /\ Live /\ phase = "lines" /\ held # <<>> /\ pos = avail /\ from = avail
      /\ Take(Head(held)[1], Head(held)[2]) /\ held' = Tail(held)
  BY DEF HeldChunk, Waiting, Live
<1>3. Joined(held, avail, taken) /\ held \in Seq(Pieces)
  BY <1>2 DEF Queue, TypeOK
<1>4. Head(held)[1] = avail /\ Joined(Tail(held), Head(held)[2], taken)
  BY <1>2, <1>3, JoinedTail
<1>5. pos' = pos /\ from' = from /\ avail' = Head(held)[2]
  BY <1>2, <1>4 DEF Take
<1>6. Queue'
  BY <1>1, <1>2, <1>4, <1>5 DEF Queue
<1>7. Given'
  <2>1. Body' = Body /\ Relaying' = Relaying
    BY AsBefore, <1>1
  <2> QED
    BY <1>1, <1>2, <1>5, <2>1 DEF Given
<1> QED
  BY <1>1, <1>2, <1>5, <1>6, <1>7, NothingScanned

LEMMA TooLongKeeps ==
    ASSUME Inv, ScanTooLong, TypeOK'
    PROVE  Inv'
<1> USE DEF Inv
<1>1. UNCHANGED <<route, bodies, current, pos, line, observing, seen, cut, from, avail, given>>
  BY DEF ScanTooLong, still
<1>2. Live /\ phase = "lines" /\ phase' = "failed" /\ from' # avail'
  BY <1>1 DEF ScanTooLong, Live, TypeOK
<1>3. Given'
  <2>1. Body' = Body /\ Relaying' = Relaying
    BY AsBefore, <1>1
  <2> QED
    BY <1>1, <1>2, <2>1 DEF Given
<1>4. Queue'
  BY <1>2 DEF Queue
<1> QED
  BY <1>1, <1>2, <1>3, <1>4, NothingScanned

LEMMA EndChunkKeeps ==
    ASSUME Inv, EndChunk, TypeOK'
    PROVE  Inv'
<1> USE DEF Inv
<1>1. UNCHANGED <<route, bodies, current, pos, line, observing, seen, cut, phase>> /\ Live
  BY DEF EndChunk, still, Live
<1>2. Body' = Body /\ Relaying' = Relaying
  BY AsBefore, <1>1
<1>3. Body \in Seq(Bytes) /\ Len(Body) \in Nat
  BY BodyFacts
<1>4. SubSeq(Body, 1, from) \o SubSeq(Body, from + 1, avail) = SubSeq(Body, 1, avail)
  <2>1. taken \in 0..Len(Body) /\ avail \in 0..taken /\ from \in 0..avail
    BY DEF TypeOK
  <2>2. 1 \in 1..Len(Body) + 1 /\ from \in 1 - 1..Len(Body) /\ avail \in from..Len(Body)
    BY <1>3, <2>1
  <2> QED
    BY <1>3, <2>2, ConcatAdjacentSubSeq
<1>5. Given'
  BY <1>1, <1>2, <1>4 DEF Given, EndChunk, Live
<1>6. Queue'
  <2>1. CASE phase = "prefix"
    <3>1. held' = Append(held, <<from, avail>>) /\ from' = avail /\ avail' = avail /\ taken' = taken
      BY <2>1 DEF EndChunk
    <3>2. Joined(held, 0, from) /\ avail = taken
      BY <2>1 DEF Queue
    <3>3. held \in Seq(Pieces) /\ from \in Nat /\ avail \in Nat /\ from <= avail /\ 0 \in Nat
      BY <1>3 DEF TypeOK
    <3>4. Joined(Append(held, <<from, avail>>), 0, avail)
      BY <3>2, <3>3, JoinedAppend
    <3> QED
      BY <1>1, <2>1, <3>1, <3>2, <3>4 DEF Queue
  <2>2. CASE phase = "lines"
    BY <1>1, <2>2 DEF EndChunk, Queue
  <2> QED
    BY <1>1, <2>1, <2>2 DEF Live
<1> QED
  BY <1>1, <1>5, <1>6, NothingScanned

LEMMA BreakKeeps ==
    ASSUME Inv, Break, TypeOK'
    PROVE  Inv'
<1> USE DEF Inv
<1>1. UNCHANGED <<route, bodies, current, pos, line, observing, seen, cut, given, from>>
  BY DEF Break, still
<1>2. Live /\ \/ phase = "prefix" /\ phase' = "rejected"
              \/ phase = "lines" /\ phase' = "broken"
  BY DEF Break, FromConnection, Waiting, Live
<1>3. Body' = Body /\ Relaying' = Relaying
  BY AsBefore, <1>1
<1>4. Given' /\ Queue'
  BY <1>1, <1>2, <1>3 DEF Given, Queue
<1> QED
  BY <1>1, <1>2, <1>4, NothingScanned

\* A byte inside a line ends none.
LEMMA ScanByteKeeps ==
    ASSUME Inv, ScanByte, TypeOK'
    PROVE  Inv'
<1> USE DEF Inv
<1>1. UNCHANGED <<route, bodies, current, phase, taken, avail, from, held, given, seen>>
  BY DEF ScanByte, still
<1>2. Body' = Body /\ Relaying' = Relaying
  BY AsBefore, <1>1
<1>3. Body \in Seq(Bytes) /\ Len(Body) \in Nat
  BY BodyFacts
<1>4. pos + 1 \in 1..Len(Body) /\ pos' = pos + 1 /\ Body[pos + 1] # LF /\ pos \in Nat /\ Live
  BY <1>3 DEF ScanByte, TypeOK, Live
<1> PICK s \in 1..pos + 1 : BeginsAt(Body, pos + 1, s)
  BY DEF LineBegan
<1>5. BeginsAt(Body, pos' + 1, s) /\ Raw(Body, pos' + 1) = Append(Raw(Body, pos + 1), Body[pos + 1])
  BY <1>3, <1>4, RawGrows
<1>6. Raw(Body, pos + 1) \in Seq(Bytes)
  BY <1>3, <1>4, RawIs
<1>7. Len(Raw(Body, pos' + 1)) = Len(Raw(Body, pos + 1)) + 1 /\ Len(Raw(Body, pos + 1)) \in Nat
  BY <1>3, <1>4, <1>5, <1>6, AppendProperties
<1>8. LineBegan'
  <2>1. s \in 1..pos' + 1
    BY <1>4
  <2> QED
    BY <2>1, <1>2, <1>5 DEF LineBegan
<1>9. \/ ~observing /\ line' = line /\ ~observing'
      \/ observing /\ phase = "lines" /\ Relaying /\ Len(line) >= Limit /\ ~observing'
      \/ /\ observing /\ line' = Append(line, Decoded) /\ observing'
         /\ ~(phase = "lines" /\ Relaying /\ Len(line) >= Limit)
  BY Zenon DEF ScanByte, KeepByte
<1>10. Faithful' => Faithful /\ Decoded = Body[pos + 1]
  BY <1>1 DEF ScanByte, Faithful, Decoded, TypeOK
<1>11. Relaying => Faithful
  BY DEF Relaying, Faithful
<1>12. Buffered'
  <2> SUFFICES ASSUME Faithful'
               PROVE  (IF observing THEN line = Raw(Body, pos + 1)
                       ELSE Relaying /\ phase = "lines" /\ Len(Raw(Body, pos + 1)) > Limit)'
    BY DEF Buffered
  <2>1. Faithful /\ Decoded = Body[pos + 1]
    BY <1>10
  <2>2. CASE ~observing /\ line' = line /\ ~observing'
    <3>1. Relaying /\ phase = "lines" /\ Len(Raw(Body, pos + 1)) > Limit
      BY <2>1, <2>2, <1>4 DEF Buffered
    <3>2. Len(Raw(Body, pos' + 1)) > Limit
      BY <3>1, <1>7, FramingAssumption
    <3> QED
      BY <3>1, <3>2, <2>2, <1>1, <1>2
  <2>3. CASE observing /\ phase = "lines" /\ Relaying /\ Len(line) >= Limit /\ ~observing'
    <3>1. line = Raw(Body, pos + 1)
      BY <2>1, <2>3, <1>4 DEF Buffered
    <3>2. Len(Raw(Body, pos' + 1)) > Limit
      BY <3>1, <2>3, <1>7, FramingAssumption
    <3> QED
      BY <3>2, <2>3, <1>1, <1>2
  <2>4. CASE observing /\ line' = Append(line, Decoded) /\ observing'
    <3>1. line = Raw(Body, pos + 1)
      BY <2>1, <2>4, <1>4 DEF Buffered
    <3>2. line' = Raw(Body, pos' + 1)
      BY <3>1, <2>1, <2>4, <1>5
    <3> QED
      BY <3>2, <2>4, <1>2
  <2> QED
    BY <1>9, <2>2, <2>3, <2>4
<1>13. WithinLimit'
  <2> SUFFICES ASSUME observing', Relaying, phase = "lines"
               PROVE  Len(line') <= Limit
    BY <1>1, <1>2 DEF WithinLimit
  <2>1. line' = Append(line, Decoded) /\ ~(Len(line) >= Limit)
    BY <1>9
  <2>2. line \in Seq(Bytes) /\ Decoded \in Bytes
    <3>1. Body[pos + 1] \in Bytes
      BY <1>3, <1>4
    <3>2. Replacement \in Bytes
      BY FramingAssumption
    <3> QED
      BY <3>1, <3>2 DEF TypeOK, Decoded
  <2>3. Len(line') = Len(line) + 1 /\ Len(line) \in Nat
    BY <2>1, <2>2, AppendProperties
  <2> QED
    BY <2>1, <2>3, FramingAssumption
<1>14. LineEnds(Body, pos') = LineEnds(Body, pos)
  BY <1>4 DEF LineEnds
<1>15. Prefix'
  <2>1. phase = "prefix" => observing'
    BY <1>9 DEF Prefix
  <2> QED
    BY <2>1, <1>1, <1>2, <1>14 DEF Prefix
<1>16. Given' /\ Queue'
  BY <1>1, <1>2 DEF Given, Queue
<1>17. LinesAsSent'
  <2>1. Ended' = Ended
    BY <1>1, <1>2, <1>4, <1>14 DEF Ended, Live
  <2>2. \A l : TextOf(l)' = TextOf(l)
    BY <1>2 DEF TextOf
  <2>3. (route # "mapped" \/ ~cut)' => (route # "mapped" \/ ~cut)
    BY <1>10 DEF Faithful
  <2> QED
    BY <1>1, <1>2, <2>1, <2>2, <2>3 DEF LinesAsSent
<1>18. RetriedForFirstFailure'
  BY <1>1 DEF RetriedForFirstFailure
<1> QED
  BY <1>8, <1>12, <1>13, <1>15, <1>16, <1>17, <1>18

\* A line break ends the present line, and what is in the buffer is that line.
LEMMA LineBroken ==
    ASSUME Inv, pos < avail, Body[pos + 1] = LF, pos' = pos + 1, line' = <<>>, observing',
           UNCHANGED <<route, bodies, current, cut>>
    PROVE  /\ LineBegan' /\ Buffered' /\ WithinLimit'
           /\ LineEnds(Body, pos') = LineEnds(Body, pos) \union {pos'}
           /\ pos' \notin LineEnds(Body, pos)
<1> USE DEF Inv
<1>1. Body' = Body /\ Relaying' = Relaying
  BY AsBefore
<1>2. Body \in Seq(Bytes) /\ Len(Body) \in Nat
  BY BodyFacts
<1>3. pos' \in 1..Len(Body) /\ Body[pos'] = LF /\ pos \in Nat
  BY <1>2 DEF TypeOK
<1>4. BeginsAt(Body, pos' + 1, pos' + 1) /\ Raw(Body, pos' + 1) = <<>>
  <2>1. pos' \in 0..Len(Body)
    BY <1>3
  <2> QED
    BY <1>2, <1>3, <2>1, RawAnew
<1>5. LineBegan'
  <2>1. pos' + 1 \in 1..pos' + 1
    BY <1>3
  <2> QED
    BY <1>1, <1>4, <2>1 DEF LineBegan
<1>6. Buffered' /\ WithinLimit'
  BY <1>1, <1>4, FramingAssumption DEF Buffered, WithinLimit
<1>7. LineEnds(Body, pos') = LineEnds(Body, pos) \union {pos'} /\ pos' \notin LineEnds(Body, pos)
  BY <1>3 DEF LineEnds
<1> QED
  BY <1>5, <1>6, <1>7

\* Handing over the line in the buffer adds the line that ends there to what
\* has been seen; a line over the limit is none the observer is owed.
LEMMA LineHandedOver ==
    ASSUME Inv, phase = "lines", UNCHANGED <<route, bodies, current, cut>>,
           NEW p, p = pos + 1, p \notin Ended,
           Ended' = Ended \union {p} \/ (line = <<>> /\ observing /\ Ended' = Ended),
           IF observing /\ (line # <<>> \/ Ended' # Ended) THEN HandOver(p) ELSE seen' = seen
    PROVE  LinesAsSent'
<1> USE DEF Inv
<1>1. Body' = Body /\ Relaying' = Relaying
  BY AsBefore
<1>2. \A l : TextOf(l)' = TextOf(l)
  BY <1>1 DEF TextOf
<1> DEFINE Shown(ends) == {q \in ends : Relaying => Len(Raw(Body, q)) <= Limit}
<1> SUFFICES ASSUME Faithful
             PROVE  seen' = [q \in Shown(Ended') |-> TextOf(Raw(Body, q))]
  BY <1>1, <1>2 DEF LinesAsSent, Faithful
<1>3. seen = [q \in Shown(Ended) |-> TextOf(Raw(Body, q))]
  BY DEF LinesAsSent, Faithful
<1>4. CASE Ended' = Ended
  BY <1>3, <1>4
<1>5. CASE Ended' = Ended \union {p} /\ Ended' # Ended
  <2>1. CASE observing
    <3>1. line = Raw(Body, p) /\ (Relaying => Len(Raw(Body, p)) <= Limit)
      BY <2>1 DEF Buffered, WithinLimit, Live
    <3>2. Shown(Ended') = Shown(Ended) \union {p}
      BY <1>5, <3>1
    <3>3. seen' = [q \in DOMAIN seen \union {p} |-> IF q = p THEN TextOf(line) ELSE seen[q]]
      BY <1>5, <2>1 DEF HandOver
    <3>4. DOMAIN seen = Shown(Ended)
      BY <1>3
    <3>5. \A q \in Shown(Ended) \union {p} :
              (IF q = p THEN TextOf(line) ELSE seen[q]) = TextOf(Raw(Body, q))
      BY <1>3, <3>1
    <3> HIDE DEF Shown
    <3> QED
      BY <3>2, <3>3, <3>4, <3>5
  <2>2. CASE ~observing
    <3>1. Relaying /\ Len(Raw(Body, p)) > Limit
      BY <2>2 DEF Buffered, Live
    <3>2. Shown(Ended') = Shown(Ended)
      <4>1. ~(Len(Raw(Body, p)) <= Limit)
        <5>1. Body \in Seq(Bytes) /\ pos + 1 \in 1..Len(Body) + 1
          BY BodyFacts DEF TypeOK
        <5>2. PICK s \in 1..pos + 1 : BeginsAt(Body, pos + 1, s)
          BY DEF LineBegan
        <5>3. Raw(Body, p) \in Seq(Bytes)
          BY <5>1, <5>2, RawIs
        <5> QED
          BY <3>1, <5>3, FramingAssumption
      <4> QED
        BY <1>5, <3>1, <4>1
    <3> QED
      BY <1>3, <2>2, <3>2
  <2> QED
    BY <2>1, <2>2
<1> QED
  BY <1>4, <1>5

LEMMA ScanLineKeeps ==
    ASSUME Inv, ScanLine, TypeOK'
    PROVE  Inv'
<1> USE DEF Inv
<1>1. UNCHANGED <<route, bodies, current, taken, avail, from, held, given, cut>>
  BY DEF ScanLine, still
<1>2. /\ phase = "lines" /\ pos < avail /\ Body[pos + 1] = LF
      /\ line' = <<>> /\ observing' /\ pos' = pos + 1 /\ phase' \in {"lines", "failed"}
  BY DEF ScanLine
<1>3. Body' = Body /\ Relaying' = Relaying
  BY AsBefore, <1>1
<1>4. /\ LineBegan' /\ Buffered' /\ WithinLimit'
      /\ LineEnds(Body, pos') = LineEnds(Body, pos) \union {pos'}
      /\ pos' \notin LineEnds(Body, pos)
  BY <1>1, <1>2, LineBroken
<1>5. Prefix'
  BY <1>2 DEF Prefix
<1>6. Given' /\ Queue'
  BY <1>1, <1>2, <1>3 DEF Given, Queue
<1>7. LinesAsSent'
  <2>1. Ended = LineEnds(Body, pos)
    BY <1>2 DEF Ended
  <2>2. from' # avail'
    BY <1>1, <1>2, BodyFacts DEF TypeOK
  <2>3. Ended' = Ended \union {pos'}
    BY <2>1, <2>2, <1>2, <1>3, <1>4 DEF Ended
  <2>4. IF observing THEN HandOver(pos') ELSE seen' = seen
    BY <1>2 DEF ScanLine
  <2>5. pos' \notin Ended /\ Ended' # Ended
    BY <2>1, <2>3, <1>4
  <2> QED
    BY <1>1, <1>2, <2>3, <2>4, <2>5, LineHandedOver
<1>8. RetriedForFirstFailure'
  BY <1>1, <1>2 DEF RetriedForFirstFailure
<1> QED
  BY <1>4, <1>5, <1>6, <1>7, <1>8

\* The end of the body ends the last line if it has any bytes.
LEMMA EndOfBodyKeeps ==
    ASSUME Inv, EndOfBody, TypeOK'
    PROVE  Inv'
<1> USE DEF Inv
<1>1. UNCHANGED <<route, bodies, current, taken, avail, from, pos, held, line, observing, given, cut>>
  BY DEF EndOfBody, still
<1>2. /\ phase = "lines" /\ phase' \in {"failed", "done"}
      /\ pos = Len(Body) /\ from = avail /\ from = Len(Body)
  BY DEF EndOfBody, AtEnd, FromConnection, Waiting, Queue, Joined
<1>3. Body' = Body /\ Relaying' = Relaying
  BY AsBefore, <1>1
<1>4. LineBegan' /\ Buffered' /\ WithinLimit' /\ Prefix'
  BY <1>1, <1>2, <1>3 DEF LineBegan, Buffered, WithinLimit, Prefix, Live
<1>5. Given' /\ Queue'
  BY <1>1, <1>2, <1>3 DEF Given, Queue
<1>6. LinesAsSent'
  <2>1. Ended = LineEnds(Body, pos)
    BY <1>2 DEF Ended
  <2>2. Ended' = Ended \union {q \in {pos + 1} : Raw(Body, q) # <<>>}
    BY <2>1, <1>1, <1>2, <1>3 DEF Ended, AllEnds
  <2>3. pos + 1 \notin Ended
    BY <2>1, BodyFacts DEF LineEnds, TypeOK
  <2>4. IF observing /\ line # <<>> THEN HandOver(pos + 1) ELSE seen' = seen
    BY DEF EndOfBody
  <2> SUFFICES ASSUME Faithful
               PROVE  LinesAsSent'
    BY <1>1 DEF LinesAsSent, Faithful
  <2>5. CASE Raw(Body, pos + 1) = <<>>
    <3>1. Ended' = Ended
      BY <2>2, <2>5
    <3>2. Len(Raw(Body, pos + 1)) = 0
      BY <2>5
    <3>3. observing /\ line = <<>>
      BY <2>5, <3>2, <1>2, FramingAssumption DEF Buffered, Live
    <3> QED
      BY <1>1, <1>2, <2>3, <2>4, <3>1, <3>3, LineHandedOver
  <2>6. CASE Raw(Body, pos + 1) # <<>>
    <3>1. Ended' = Ended \union {pos + 1} /\ Ended' # Ended
      BY <2>2, <2>3, <2>6
    <3>2. observing => line # <<>>
      BY <2>6, <1>2 DEF Buffered, Live
    <3> QED
      BY <1>1, <1>2, <2>3, <2>4, <3>1, <3>2, LineHandedOver
  <2> QED
    BY <2>5, <2>6
<1>7. RetriedForFirstFailure'
  BY <1>1, <1>2 DEF RetriedForFirstFailure
<1> QED
  BY <1>4, <1>5, <1>6, <1>7

\* The first line that decides is the one no deciding line stands before.
LEMMA FirstDecisionIs ==
    ASSUME NEW b, NEW p \in AllEnds(b), AllEnds(b) \subseteq Nat,
           Classify(WithoutCR(Raw(b, p))) # "undecided",
           \A q \in AllEnds(b) : Classify(WithoutCR(Raw(b, q))) # "undecided" => p <= q
    PROVE  FirstDecision(b) = Classify(WithoutCR(Raw(b, p)))
<1> DEFINE deciding == {q \in AllEnds(b) : Classify(WithoutCR(Raw(b, q))) # "undecided"}
<1>1. p \in deciding /\ \A q \in deciding : p <= q
  OBVIOUS
<1>2. \A r \in deciding : (\A q \in deciding : r <= q) => r = p
  BY <1>1
<1>3. (CHOOSE r \in deciding : \A q \in deciding : r <= q) = p
  <2> HIDE DEF deciding
  <2> QED
    BY <1>1, <1>2
<1> QED
  BY <1>1, <1>3 DEF FirstDecision

\* An answer is read from its beginning and nobody has seen anything before.
LEMMA BeginKeeps ==
    ASSUME Inv, phase = "prefix", NEW n \in {1, 2}, NEW chunks, Begin(n, chunks), TypeOK',
           IF n = 1 THEN Joined(chunks, 0, taken) ELSE chunks = <<>>,
           UNCHANGED <<route, bodies, observing, given, seen, cut>>,
           n = 2 <=> FirstDecision(bodies[1]) = "retry"
    PROVE  Inv'
<1> USE DEF Inv
<1>1. /\ phase' = "lines" /\ pos' = 0 /\ from' = 0 /\ line' = <<>> /\ current' = n
      /\ route' = "guarded" /\ route = "guarded" /\ observing'
  BY DEF Begin, Take, Prefix
<1>10. Queue'
  <2>1. held' = chunks /\ avail' = 0 /\ taken' = IF n = 1 THEN taken ELSE 0
    BY DEF Begin, Take, Prefix
  <2> QED
    BY <1>1, <2>1 DEF Queue, Joined
<1>2. Body' \in Seq(Bytes) /\ Len(Body') \in Nat
  <2>1. bodies'[1] \in Seq(Bytes) /\ bodies'[2] \in Seq(Bytes) /\ current' \in {1, 2}
    BY DEF TypeOK
  <2> QED
    BY <2>1 DEF Body
<1>3. BeginsAt(Body', 1, 1) /\ Raw(Body', 1) = <<>>
  <2>1. 0 \in 0..Len(Body') /\ 0 + 1 = 1
    BY <1>2
  <2> QED
    BY <1>2, <2>1, RawAnew
<1>4. LineBegan'
  <2>1. pos' + 1 = 1 /\ 1 \in 1..pos' + 1
    BY <1>1
  <2> QED
    BY <1>3, <2>1 DEF LineBegan
<1>5. Buffered' /\ WithinLimit'
  BY <1>1, <1>3, FramingAssumption DEF Buffered, WithinLimit
<1>6. Prefix'
  BY <1>1 DEF Prefix
<1>7. Given'
  <2>1. given = <<>>
    BY <1>1 DEF Given, Relaying
  <2>2. SubSeq(Body', 1, from') = <<>>
    BY <1>1, SubSeqEmpty
  <2> QED
    BY <1>1, <2>1, <2>2 DEF Given
<1>8. LinesAsSent'
  <2>1. Ended = {}
    BY DEF Ended
  <2>2. Ended' = {}
    <3>1. LineEnds(Body', 0) = {}
      BY DEF LineEnds
    <3> QED
      BY <3>1, <1>1 DEF Ended
  <2>3. seen = [p \in {} |-> TextOf(Raw(Body, p))]
    BY <1>1, <2>1 DEF LinesAsSent
  <2>4. seen' = [p \in {} |-> TextOf(Raw(Body, p))']
    BY <2>3
  <2> QED
    BY <2>2, <2>4 DEF LinesAsSent
<1>9. RetriedForFirstFailure'
  BY <1>1 DEF RetriedForFirstFailure
<1> QED
  BY <1>4, <1>5, <1>6, <1>7, <1>8, <1>9, <1>10

LEMMA AskAgainKeeps ==
    ASSUME Inv, phase = "prefix", AskAgain, TypeOK',
           UNCHANGED <<route, bodies, observing, given, seen, cut>>,
           FirstDecision(bodies[1]) = "retry"
    PROVE  Inv'
<1>1. CASE Begin(2, <<>>)
  <2>1. 2 \in {1, 2}
    OBVIOUS
  <2> QED
    BY <1>1, <2>1, BeginKeeps
<1>2. CASE phase' = "rejected" /\ UNCHANGED <<current, held, taken, avail, from, pos, line>>
  <2>1. Given' /\ Queue'
    BY <1>2 DEF Given, Queue, Inv, Prefix, Relaying
  <2>2. Live
    BY DEF Live
  <2> QED
    BY <1>2, <2>1, <2>2, NothingScanned DEF Inv
<1> QED
  BY <1>1, <1>2 DEF AskAgain

\* While the prefix is undecided, no line has decided; the first that does is
\* the first of the answer.
LEMMA ScanPrefixLineKeeps ==
    ASSUME Inv, ScanPrefixLine, TypeOK'
    PROVE  Inv'
<1> USE DEF Inv
<1>1. UNCHANGED <<route, bodies, observing, given, seen, cut>>
  BY DEF ScanPrefixLine, still
<1>2. /\ phase = "prefix" /\ pos < avail /\ Body[pos + 1] = LF
      /\ current = 1 /\ observing /\ route = "guarded"
  BY DEF ScanPrefixLine, Prefix
<1>3. Body = bodies[1] /\ Body \in Seq(Bytes) /\ Len(Body) \in Nat /\ pos + 1 \in 1..Len(Body)
  BY <1>2, BodyFacts DEF Body, TypeOK
<1>4. line = Raw(Body, pos + 1)
  BY <1>2 DEF Buffered, Live, Faithful
<1>5. CASE Classify(WithoutCR(line)) = "undecided"
  <2>1. /\ pos' = pos + 1 /\ line' = <<>> /\ observing'
        /\ UNCHANGED <<current, phase, taken, avail, from, held>>
    BY <1>1, <1>2, <1>5 DEF ScanPrefixLine
  <2>2. Body' = Body /\ Relaying' = Relaying
    BY AsBefore, <1>1, <2>1
  <2>3. /\ LineBegan' /\ Buffered' /\ WithinLimit'
        /\ LineEnds(Body, pos') = LineEnds(Body, pos) \union {pos'}
    BY <1>1, <1>2, <2>1, LineBroken
  <2>4. Prefix'
    BY <1>2, <1>4, <1>5, <1>1, <2>1, <2>2, <2>3 DEF Prefix
  <2>5. Given' /\ Queue'
    BY <1>1, <1>2, <2>1, <2>2 DEF Given, Queue
  <2>6. LinesAsSent'
    <3>1. Ended = {} /\ Ended' = {}
      BY <1>2, <2>1 DEF Ended
    <3> QED
      BY <1>1, <1>2, <3>1 DEF LinesAsSent
  <2>7. RetriedForFirstFailure'
    BY <1>2, <2>1 DEF RetriedForFirstFailure
  <2> QED
    BY <2>3, <2>4, <2>5, <2>6, <2>7
<1>6. CASE Classify(WithoutCR(line)) # "undecided"
  <2>1. pos + 1 \in AllEnds(Body) /\ AllEnds(Body) \subseteq Nat
    BY <1>2, <1>3 DEF AllEnds, LineEnds
  <2>2. ASSUME NEW q \in AllEnds(Body), Classify(WithoutCR(Raw(Body, q))) # "undecided"
        PROVE  pos + 1 <= q
    <3>1. q \notin LineEnds(Body, pos)
      BY <1>2, <2>2 DEF Prefix
    <3>2. q \in LineEnds(Body, Len(Body)) \/ q = Len(Body) + 1
      BY DEF AllEnds
    <3>3. CASE q \in LineEnds(Body, Len(Body))
      <4>1. q \in 1..Len(Body) /\ ~(q \in 1..pos)
        BY <3>1, <3>3 DEF LineEnds
      <4>2. pos \in Nat
        BY <1>3 DEF TypeOK
      <4> QED
        BY <1>3, <4>1, <4>2
    <3> QED
      BY <1>3, <3>2, <3>3
  <2>3. FirstDecision(bodies[1]) = Classify(WithoutCR(line))
    BY <1>3, <1>4, <1>6, <2>1, <2>2, FirstDecisionIs
  <2>4. CASE Classify(WithoutCR(line)) = "retry"
    BY <1>1, <1>2, <1>6, <2>3, <2>4, AskAgainKeeps DEF ScanPrefixLine, Decide
  <2>5. CASE Classify(WithoutCR(line)) # "retry"
    <3>1. Begin(1, Append(held, <<from, avail>>)) /\ 1 \in {1, 2}
      BY <1>6, <2>5 DEF ScanPrefixLine, Decide
    <3>2. Joined(Append(held, <<from, avail>>), 0, taken)
      <4>1. Joined(held, 0, from) /\ avail = taken
        BY <1>2 DEF Queue
      <4>2. held \in Seq(Pieces) /\ from \in Nat /\ avail \in Nat /\ from <= avail /\ 0 \in Nat
        BY <1>3 DEF TypeOK
      <4> QED
        BY <4>1, <4>2, JoinedAppend
    <3> QED
      BY <1>1, <1>2, <2>3, <2>5, <3>1, <3>2, BeginKeeps
  <2> QED
    BY <2>4, <2>5
<1> QED
  BY <1>5, <1>6

LEMMA EndOfPrefixKeeps ==
    ASSUME Inv, EndOfPrefix, TypeOK'
    PROVE  Inv'
<1> USE DEF Inv
<1>1. UNCHANGED <<route, bodies, observing, given, seen, cut>>
  BY DEF EndOfPrefix, still
<1>2. /\ phase = "prefix" /\ pos = Len(Body)
      /\ current = 1 /\ observing /\ route = "guarded"
  BY DEF EndOfPrefix, AtEnd, FromConnection, Waiting, Prefix, Queue
<1>3. Body = bodies[1] /\ Body \in Seq(Bytes) /\ Len(Body) \in Nat
  BY <1>2, BodyFacts DEF Body
<1>4. line = Raw(Body, pos + 1)
  BY <1>2 DEF Buffered, Live, Faithful
<1>5. AllEnds(Body) = LineEnds(Body, pos) \union {q \in {pos + 1} : line # <<>>}
  BY <1>2, <1>4 DEF AllEnds
<1>6. \A q \in LineEnds(Body, pos) : Classify(WithoutCR(Raw(Body, q))) = "undecided"
  BY <1>2 DEF Prefix
<1>7. FirstDecision(bodies[1]) = "retry" <=> Classify(WithoutCR(line)) = "retry"
  <2>1. CASE line # <<>> /\ Classify(WithoutCR(line)) # "undecided"
    <3>1. pos + 1 \in AllEnds(Body) /\ AllEnds(Body) \subseteq Nat
      BY <1>2, <1>3, <1>5, <2>1 DEF LineEnds
    <3>2. \A q \in AllEnds(Body) :
              Classify(WithoutCR(Raw(Body, q))) # "undecided" => pos + 1 <= q
      BY <1>2, <1>3, <1>5, <1>6
    <3>3. FirstDecision(Body) = Classify(WithoutCR(line))
      BY <1>4, <2>1, <3>1, <3>2, FirstDecisionIs
    <3> QED
      BY <1>3, <3>3
  <2>2. CASE line = <<>> \/ Classify(WithoutCR(line)) = "undecided"
    <3>1. {p \in AllEnds(Body) : Classify(WithoutCR(Raw(Body, p))) # "undecided"} = {}
      BY <1>4, <1>5, <1>6, <2>2
    <3>2. FirstDecision(Body) = "forward"
      BY <3>1 DEF FirstDecision
    <3>3. Classify(WithoutCR(line)) # "retry"
      BY <2>2, FramingAssumption DEF WithoutCR
    <3> QED
      BY <1>3, <3>2, <3>3
  <2> QED
    BY <2>1, <2>2
<1>8. CASE Classify(WithoutCR(line)) = "retry"
  BY <1>1, <1>2, <1>7, <1>8, AskAgainKeeps DEF EndOfPrefix, DecideAtEnd
<1>9. CASE Classify(WithoutCR(line)) # "retry"
  <2>1. Begin(1, held) /\ 1 \in {1, 2}
    BY <1>9 DEF EndOfPrefix, DecideAtEnd
  <2>2. Joined(held, 0, taken)
    BY <1>2 DEF EndOfPrefix, AtEnd, FromConnection, Waiting, Queue
  <2> QED
    BY <1>1, <1>2, <1>7, <1>9, <2>1, <2>2, BeginKeeps
<1> QED
  BY <1>8, <1>9
-----------------------------------------------------------------------------
\* Every step keeps the invariant.
LEMMA StepKeeps == Inv /\ [Next]_vars => Inv'
<1> SUFFICES ASSUME Inv, [Next]_vars PROVE Inv'
  OBVIOUS
<1>1. CASE UNCHANGED vars
  <2>1. UNCHANGED <<route, bodies, current, phase, taken, avail, from, pos, held, line, observing,
                    given, seen, cut>>
    BY <1>1 DEF vars
  <2>2. Body' = Body /\ Relaying' = Relaying /\ Ended' = Ended /\ \A l : TextOf(l)' = TextOf(l)
    BY <2>1 DEF Body, Relaying, Ended, TextOf
  <2>3. TypeOK'
    BY <2>1, <2>2 DEF Inv, TypeOK
  <2>4. Queue' /\ LineBegan' /\ Buffered' /\ WithinLimit' /\ Prefix' /\ Given'
    BY <2>1, <2>2 DEF Inv, Queue, LineBegan, Buffered, WithinLimit, Prefix, Given, Live, Faithful
  <2>5. LinesAsSent' /\ RetriedForFirstFailure'
    BY <2>1, <2>2 DEF Inv, LinesAsSent, RetriedForFirstFailure
  <2> QED
    BY <2>3, <2>4, <2>5 DEF Inv
<1>2. CASE Next
  <2>1. TypeOK'
    BY <1>2, TypesKept
  <2>2. Over => UNCHANGED vars
    BY DEF Over
  <2> QED
    BY <1>1, <1>2, <2>1, <2>2, ChunkKeeps, HeldChunkKeeps, ScanByteKeeps, ScanLineKeeps, TooLongKeeps,
       EndChunkKeeps, ScanPrefixLineKeeps, EndOfPrefixKeeps, EndOfBodyKeeps, BreakKeeps DEF Next
<1> QED
  BY <1>1, <1>2

LEMMA Invariant == Spec => []Inv
BY Initially, StepKeeps, PTL DEF Spec

\* Whatever the route, the bodies and the cuts: the lines a reader is handed
\* are the lines that were sent (inspect_sse_lines, map_sse_lines_many_checked
\* and, where no character is cut, map_sse_lines_checked).
THEOREM LinesAsSentHolds == Spec => []LinesAsSent
<1>1. Inv => LinesAsSent
  BY DEF Inv
<1> QED
  BY <1>1, Invariant, PTL

\* A relay gives the client the bytes of one upstream answer and no others,
\* held back or not (handle_responses).
THEOREM RelayedIntactHolds == Spec => []RelayedIntact
<1>1. Inv => RelayedIntact
  <2> SUFFICES ASSUME Inv, Relaying
               PROVE  /\ Len(given) <= Len(Body) /\ given = SubSeq(Body, 1, Len(given))
                      /\ phase = "prefix" => given = <<>>
                      /\ phase = "done" => given = Body
    BY DEF RelayedIntact
  <2> USE DEF Inv
  <2>1. Body \in Seq(Bytes) /\ Len(Body) \in Nat /\ from \in 0..Len(Body)
    BY BodyFacts DEF TypeOK
  <2>2. CASE phase \in {"prefix", "rejected"}
    <3>1. given = <<>> /\ Len(given) = 0
      BY <2>2 DEF Given
    <3>2. SubSeq(Body, 1, 0) = <<>>
      BY SubSeqEmpty
    <3> QED
      BY <2>1, <2>2, <3>1, <3>2
  <2>3. CASE phase \notin {"prefix", "rejected"}
    <3>1. given = SubSeq(Body, 1, from)
      BY <2>3 DEF Given
    <3>2. \A i \in 1..from : Body[i] \in Bytes
      BY <2>1
    <3>3. Len(given) = from
      BY <2>1, <3>1, <3>2, SubSeqProperties
    <3>4. phase = "done" => given = Body
      BY <2>1, <3>1, SubSeqFull DEF Given
    <3> QED
      BY <2>1, <2>3, <3>1, <3>3, <3>4
  <2> QED
    BY <2>2, <2>3
<1> QED
  BY <1>1, Invariant, PTL

\* Whether the upstream is asked again is a matter of what it sent and not of
\* how that was cut (buffer_copilot_responses_stream_prefix).
THEOREM RetriedForFirstFailureHolds == Spec => []RetriedForFirstFailure
<1>1. Inv => RetriedForFirstFailure
  BY DEF Inv
<1> QED
  BY <1>1, Invariant, PTL
-----------------------------------------------------------------------------
\* What a mapped stream may fail over.
Bad(p) == \/ Refused(TextOf(Raw(Body, p)))
          \/ route = "adapted" /\ Len(Raw(Body, p)) > Limit

\* No line so far is one, and a stream that is over says rightly if there is.
Blamed ==
    ~Relaying /\ ~cut =>
        /\ phase = "lines" => \A p \in LineEnds(Body, pos) : ~Bad(p)
        /\ phase = "done" => \A p \in AllEnds(Body) : ~Bad(p)
        /\ phase = "failed" => \E p \in AllEnds(Body) : Bad(p)

\* A line over the limit is found before the next chunk is looked at.
ShortSoFar == route = "adapted" /\ phase = "lines" /\ pos = from => Len(line) <= Limit

\* A line of more than nothing has an end, and is no shorter there.
LEMMA LineGoesOn ==
    ASSUME NEW b \in Seq(Bytes), NEW n \in 0..Len(b), NEW s \in 1..n + 1,
           BeginsAt(b, n + 1, s), s # n + 1
    PROVE  \E p \in AllEnds(b) : Len(Raw(b, p)) >= n + 1 - s
<1> DEFINE L == Len(b)
           ends == {q \in n + 1..L : b[q] = LF}
<1>1. L \in Nat
  OBVIOUS
<1>2. CASE ends # {}
  <2>1. PICK p \in ends : \A q \in ends : p <= q
    <3>1. ends \in SUBSET Nat
      BY <1>1
    <3>2. PICK k : k \in ends
      BY <1>2
    <3>3. PICK m \in ends : \A q \in ends : <<q, m>> \notin OpToRel(<, Nat)
      BY <3>1, <3>2, NatLessThanWellFounded, WFMin
    <3>4. \A q \in ends : ~(q < m)
      BY <3>1, <3>3 DEF OpToRel
    <3> QED
      BY <3>1, <3>4
  <2>2. p \in n + 1..L /\ b[p] = LF
    OBVIOUS
  <2>3. BeginsAt(b, p, s)
    <3>1. \A q \in s..n + 1 - 1 : b[q] # LF
      BY DEF BeginsAt
    <3>2. \A q \in s..p - 1 : b[q] # LF
      <4> SUFFICES ASSUME NEW q \in s..p - 1, b[q] = LF PROVE FALSE
        OBVIOUS
      <4>1. CASE q <= n
        BY <1>1, <2>2, <3>1, <4>1
      <4>2. CASE q > n
        <5>1. q \in ends
          BY <1>1, <2>2, <4>2
        <5> QED
          BY <2>1, <2>2, <5>1
      <4> QED
        BY <4>1, <4>2
    <3> QED
      BY <3>2 DEF BeginsAt
  <2>4. p \in AllEnds(b) /\ p \in 1..L + 1 /\ s \in 1..p
    BY <1>1, <2>2 DEF AllEnds, LineEnds
  <2>5. Len(Raw(b, p)) = p - s
    BY <2>3, <2>4, RawIs
  <2> QED
    BY <2>2, <2>4, <2>5
<1>3. CASE ends = {}
  <2>1. BeginsAt(b, L + 1, s)
    <3>1. \A q \in s..n : b[q] # LF
      BY DEF BeginsAt
    <3>2. \A q \in n + 1..L : b[q] # LF
      BY <1>3
    <3>3. \A q \in s..L + 1 - 1 : b[q] # LF
      BY <1>1, <3>1, <3>2
    <3> QED
      BY <3>3 DEF BeginsAt
  <2>2. L + 1 \in 1..L + 1 /\ s \in 1..L + 1
    BY <1>1
  <2>3. Raw(b, L + 1) \in Seq(Bytes) /\ Len(Raw(b, L + 1)) = L + 1 - s
    BY <2>1, <2>2, RawIs
  <2>4. Raw(b, L + 1) # <<>>
    <3>1. Len(Raw(b, L + 1)) > 0
      BY <1>1, <2>3
    <3>2. Len(<<>>) = 0
      OBVIOUS
    <3> QED
      BY <3>1, <3>2
  <2>5. L + 1 \in AllEnds(b)
    BY <2>4 DEF AllEnds
  <2> QED
    BY <1>1, <2>3, <2>5
<1> QED
  BY <1>2, <1>3

\* The line in the buffer is the present line.
LEMMA PresentLine ==
    ASSUME Inv, phase = "lines", ~Relaying, ~cut
    PROVE  /\ observing /\ line = Raw(Body, pos + 1)
           /\ pos + 1 \in 1..Len(Body) + 1 /\ pos \in Nat /\ Len(line) \in Nat
<1>1. observing /\ line = Raw(Body, pos + 1)
  BY DEF Inv, Buffered, Live, Faithful
<1>2. pos + 1 \in 1..Len(Body) + 1 /\ pos \in Nat /\ Len(line) \in Nat
  BY BodyFacts DEF Inv, TypeOK
<1> QED
  BY <1>1, <1>2

\* What is bad stays bad.
LEMMA BadAsBefore ==
    ASSUME UNCHANGED <<route, bodies, current>>
    PROVE  /\ Body' = Body /\ Relaying' = Relaying
           /\ \A p : Bad(p)' <=> Bad(p)
<1>1. Body' = Body /\ Relaying' = Relaying
  BY AsBefore
<1>2. \A l : TextOf(l)' = TextOf(l)
  BY <1>1 DEF TextOf
<1> QED
  BY <1>1, <1>2 DEF Bad

\* Nothing has been looked at yet.
LEMMA BlamedInit == Init => Blamed /\ ShortSoFar
<1> SUFFICES ASSUME Init PROVE Blamed /\ ShortSoFar
  OBVIOUS
<1>1. pos = 0 /\ line = <<>> /\ phase \in {"prefix", "lines"}
  BY DEF Init
<1>2. LineEnds(Body, pos) = {}
  BY <1>1 DEF LineEnds
<1>3. Len(line) <= Limit
  BY <1>1, FramingAssumption
<1> QED
  BY <1>1, <1>2, <1>3 DEF Blamed, ShortSoFar

\* Steps between lines.
LEMMA BlamedQuietly ==
    ASSUME Blamed, UNCHANGED <<route, bodies, current, pos>>,
           ~cut' => ~cut,
           phase' = phase \/ phase' \in {"broken", "rejected"}
    PROVE  Blamed'
  BY BadAsBefore DEF Blamed

LEMMA ScanByteBlamed ==
    ASSUME Inv, Blamed, ShortSoFar, ScanByte
    PROVE  Blamed' /\ ShortSoFar'
<1>1. UNCHANGED <<route, bodies, current, phase, from>> /\ pos' = pos + 1 /\ Body[pos + 1] # LF
  BY DEF ScanByte, still
<1>2. ~cut' => ~cut
  BY DEF ScanByte
<1>3. pos \in Nat /\ from \in Nat /\ from <= pos
  BY BodyFacts DEF Inv, TypeOK
<1>4. LineEnds(Body, pos') = LineEnds(Body, pos)
  BY <1>1, <1>3 DEF LineEnds
<1>5. Blamed'
  BY <1>1, <1>2, <1>4, BadAsBefore DEF Blamed
<1>6. pos' # from'
  BY <1>1, <1>3
<1> QED
  BY <1>5, <1>6 DEF ShortSoFar

LEMMA ScanLineBlamed ==
    ASSUME Inv, Blamed, ScanLine
    PROVE  Blamed' /\ ShortSoFar'
<1>1. UNCHANGED <<route, bodies, current, cut>> /\ phase = "lines" /\ pos' = pos + 1
  BY DEF ScanLine, still
<1>2. line' = <<>> /\ pos < avail /\ Body[pos + 1] = LF
  BY DEF ScanLine
<1>3. ShortSoFar'
  <2>1. Len(line') = 0 /\ Limit \in Nat
    BY <1>2, FramingAssumption
  <2> QED
    BY <2>1 DEF ShortSoFar
<1>4. Blamed'
  <2> SUFFICES ASSUME ~Relaying, ~cut
               PROVE  /\ phase' = "lines" => \A p \in LineEnds(Body, pos') : ~Bad(p)
                      /\ phase' # "done"
                      /\ phase' = "failed" => \E p \in AllEnds(Body) : Bad(p)
    BY <1>1, BadAsBefore DEF Blamed
  <2>1. observing /\ line = Raw(Body, pos + 1) /\ pos + 1 \in 1..Len(Body) + 1 /\ Len(line) \in Nat
    BY <1>1, PresentLine
  <2>2. phase' = IF Refused(TextOf(line)) THEN "failed" ELSE "lines"
    BY DEF ScanLine
  <2>3. route = "adapted" => ~(Len(line) > Limit)
    BY DEF ScanLine, Oversized
  <2>4. Bad(pos + 1) <=> Refused(TextOf(line))
    BY <2>1, <2>3 DEF Bad
  <2>5. pos \in Nat /\ Len(Body) \in Nat /\ pos + 1 \in 1..Len(Body)
    BY <1>2, BodyFacts DEF Inv, TypeOK
  <2>6. LineEnds(Body, pos') = LineEnds(Body, pos) \union {pos + 1}
    BY <1>1, <1>2, <2>5 DEF LineEnds
  <2>7. pos + 1 \in AllEnds(Body)
    BY <1>2, <2>5 DEF AllEnds, LineEnds
  <2>8. \A p \in LineEnds(Body, pos) : ~Bad(p)
    BY <1>1 DEF Blamed
  <2> QED
    BY <2>2, <2>4, <2>6, <2>7, <2>8
<1> QED
  BY <1>3, <1>4

LEMMA TooLongBlamed ==
    ASSUME Inv, Blamed, ScanTooLong
    PROVE  Blamed' /\ ShortSoFar'
<1>1. UNCHANGED <<route, bodies, current, cut>> /\ phase = "lines" /\ phase' = "failed"
  BY DEF ScanTooLong, still
<1>2. route = "adapted" /\ Len(line) > Limit
  BY DEF ScanTooLong, Oversized
<1>3. ShortSoFar'
  BY <1>1 DEF ShortSoFar
<1>4. Blamed'
  <2> SUFFICES ASSUME ~Relaying, ~cut PROVE \E p \in AllEnds(Body) : Bad(p)
    BY <1>1, BadAsBefore DEF Blamed
  <2>1. line = Raw(Body, pos + 1) /\ pos + 1 \in 1..Len(Body) + 1 /\ pos \in 0..Len(Body)
    BY <1>1, PresentLine, BodyFacts DEF Inv
  <2>2. Body \in Seq(Bytes) /\ Len(Body) \in Nat /\ Limit \in Nat
    BY BodyFacts, FramingAssumption DEF Inv
  <2>3. PICK s \in 1..pos + 1 : BeginsAt(Body, pos + 1, s)
    BY DEF Inv, LineBegan
  <2>4. Len(line) = pos + 1 - s
    BY <2>1, <2>2, <2>3, RawIs
  <2>5. s # pos + 1
    BY <1>2, <2>1, <2>2, <2>4
  <2>6. PICK p \in AllEnds(Body) : Len(Raw(Body, p)) >= pos + 1 - s
    BY <2>1, <2>2, <2>3, <2>5, LineGoesOn
  <2>7. Len(Raw(Body, p)) > Limit
    <3>1. Len(Raw(Body, p)) \in Int
      BY <2>2, <2>6
    <3> QED
      BY <1>2, <2>1, <2>2, <2>4, <2>6, <3>1
  <2> QED
    BY <1>2, <2>6, <2>7 DEF Bad
<1> QED
  BY <1>3, <1>4

LEMMA EndOfBodyBlamed ==
    ASSUME Inv, Blamed, ShortSoFar, EndOfBody
    PROVE  Blamed' /\ ShortSoFar'
<1>1. UNCHANGED <<route, bodies, current, cut, from, pos, line>> /\ phase = "lines"
  BY DEF EndOfBody, still
<1>2. pos = Len(Body) /\ pos = from /\ phase' \in {"failed", "done"}
  BY DEF EndOfBody, AtEnd, FromConnection, Waiting, Inv, Queue, Joined
<1>3. ShortSoFar'
  BY <1>2 DEF ShortSoFar
<1>4. Blamed'
  <2> SUFFICES ASSUME ~Relaying, ~cut
               PROVE  /\ phase' = "done" => \A p \in AllEnds(Body) : ~Bad(p)
                      /\ phase' = "failed" => \E p \in AllEnds(Body) : Bad(p)
    BY <1>1, <1>2, BadAsBefore DEF Blamed
  <2>1. observing /\ line = Raw(Body, pos + 1) /\ Len(line) \in Nat
    BY <1>1, PresentLine
  <2>2. \A p \in LineEnds(Body, pos) : ~Bad(p)
    BY <1>1 DEF Blamed
  <2>3. AllEnds(Body) = LineEnds(Body, pos) \union {p \in {pos + 1} : line # <<>>}
    BY <1>2, <2>1 DEF AllEnds
  <2>4. route = "adapted" => ~(Len(line) > Limit)
    BY <1>1, <1>2, <2>1, FramingAssumption DEF ShortSoFar
  <2>5. Bad(pos + 1) <=> Refused(TextOf(line))
    BY <2>1, <2>4 DEF Bad
  <2>6. CASE line # <<>>
    <3>1. phase' = IF Refused(TextOf(line)) THEN "failed" ELSE "done"
      BY <2>1, <2>6 DEF EndOfBody
    <3> QED
      BY <2>2, <2>3, <2>5, <2>6, <3>1
  <2>7. CASE line = <<>>
    <3>1. phase' = "done"
      BY <2>7 DEF EndOfBody
    <3> QED
      BY <2>2, <2>3, <2>7, <3>1
  <2> QED
    BY <2>6, <2>7
<1> QED
  BY <1>3, <1>4

\* Before the lines there is a prefix only of what is relayed.
LEMMA PrefixBlamed ==
    ASSUME Inv, ScanPrefixLine \/ EndOfPrefix
    PROVE  Blamed' /\ ShortSoFar'
<1>1. phase = "prefix" /\ route' = route
  BY DEF ScanPrefixLine, EndOfPrefix, still
<1>2. route = "guarded"
  BY <1>1 DEF Inv, Prefix
<1> QED
  BY <1>1, <1>2 DEF Blamed, ShortSoFar, Relaying

\* Chunks come and are done with, or the connection breaks.
LEMMA ChunksBlamed ==
    ASSUME Inv, Blamed, ShortSoFar,
           HeldChunk \/ (\E end \in 1..Len(Body) : Chunk(end)) \/ EndChunk \/ Break
    PROVE  Blamed' /\ ShortSoFar'
<1>1. UNCHANGED <<route, bodies, current, cut, line>>
  BY DEF HeldChunk, Chunk, EndChunk, Break, still
<1>2. CASE HeldChunk
  <2>1. phase' = phase /\ phase = "lines" /\ held # <<>> /\ pos = avail /\ from = avail
        /\ Take(Head(held)[1], Head(held)[2])
    BY <1>2 DEF HeldChunk, Waiting
  <2>2. Joined(held, avail, taken) /\ held \in Seq(Pieces)
    BY <2>1 DEF Inv, Queue, TypeOK
  <2>3. Head(held)[1] = avail
    BY <2>1, <2>2, JoinedTail
  <2>4. pos' = pos /\ from' = from
    BY <2>1, <2>3 DEF Take
  <2> QED
    BY <1>1, <2>1, <2>4, BlamedQuietly DEF ShortSoFar
<1>3. ASSUME NEW end \in 1..Len(Body), Chunk(end) PROVE Blamed' /\ ShortSoFar'
  <2>1. /\ Live /\ pos = avail /\ from = avail /\ (phase = "lines" => held = <<>>)
    BY <1>3 DEF Chunk, FromConnection, Waiting, Live
  <2>2. \/ phase' = phase /\ Take(taken, end)
        \/ phase' = "rejected" /\ UNCHANGED <<from, pos, avail>>
    BY <1>3 DEF Chunk
  <2>3. avail = taken
    BY <2>1 DEF Inv, Queue, Joined, Live
  <2>4. from' = from /\ pos' = pos
    BY <2>1, <2>2, <2>3 DEF Take
  <2> QED
    BY <1>1, <2>2, <2>4, BlamedQuietly DEF ShortSoFar
<1>4. CASE EndChunk
  <2>1. phase' = phase /\ pos' = pos
    BY <1>4 DEF EndChunk, still
  <2>2. phase = "lines" /\ route = "adapted" => Len(line) <= Limit
    <3>1. Len(line) \in Nat /\ Limit \in Nat
      BY FramingAssumption DEF Inv, TypeOK
    <3> QED
      BY <1>4, <3>1 DEF EndChunk, Oversized
  <2> QED
    BY <1>1, <2>1, <2>2, BlamedQuietly DEF ShortSoFar
<1>5. CASE Break
  <2>1. phase' \in {"rejected", "broken"} /\ pos' = pos
    BY <1>5 DEF Break, still
  <2> QED
    BY <1>1, <2>1, BlamedQuietly DEF ShortSoFar
<1> QED
  BY <1>2, <1>3, <1>4, <1>5

\* No step blames a line wrongly.
LEMMA StepBlamed ==
    ASSUME Inv, Blamed, ShortSoFar, [Next]_vars
    PROVE  Blamed' /\ ShortSoFar'
<1>1. CASE UNCHANGED vars
  BY <1>1, BlamedQuietly DEF vars, ShortSoFar
<1>2. CASE Over
  <2>1. UNCHANGED vars
    BY <1>2 DEF Over
  <2> QED
    BY <1>1, <2>1
<1> QED
  BY <1>1, <1>2, ScanByteBlamed, ScanLineBlamed, TooLongBlamed, EndOfBodyBlamed, PrefixBlamed,
     ChunksBlamed DEF Next

\* Whatever the bodies, the limit and the cuts: a mapped stream fails over a
\* line that is refused or too long and over nothing else, and none that is
\* read to its end had one (map_sse_lines_many_checked).
THEOREM FailedForCauseHolds == Spec => []FailedForCause
<1>1. Init => Blamed /\ ShortSoFar
  BY BlamedInit
<1>2. Inv /\ (Blamed /\ ShortSoFar) /\ [Next]_vars => (Blamed /\ ShortSoFar)'
  BY StepBlamed
<1>3. Blamed => FailedForCause
  <2> SUFFICES ASSUME Blamed, ~Relaying, ~cut
               PROVE  LET bad == {p \in AllEnds(Body) :
                                      \/ Refused(TextOf(Raw(Body, p)))
                                      \/ route = "adapted" /\ Len(Raw(Body, p)) > Limit}
                      IN  /\ phase = "failed" => bad # {}
                          /\ phase = "done" => bad = {}
    BY DEF FailedForCause
  <2> QED
    BY DEF Blamed, Bad
<1> QED
  BY <1>1, <1>2, <1>3, Invariant, PTL DEF Spec
=============================================================================
