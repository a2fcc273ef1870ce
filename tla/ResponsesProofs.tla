---------------------------- MODULE ResponsesProofs ----------------------------
(***************************************************************************)
(* Proofs about the two parts of the Responses handlers that live longer   *)
(* than a request: the store of transcripts (ResponsesState), for any      *)
(* limits, any number of clients, turns and restarts, and the WebSocket    *)
(* bridge (ResponsesWebSocket), for any number of messages of the client   *)
(* and of its backends.                                                    *)
(*                                                                         *)
(* The store: a turn under way is new to it (TurnsAreNew), carries what it *)
(* continues (TurnContinues) and the deque is in the order of use.         *)
(*                                                                         *)
(* The bridge: the promise says nothing of a turn that is still relayed;   *)
(* the invariant says how far it is (Bridged), and that nothing of a turn  *)
(* exists before its backend is connected (NoneEarly, NothingSentEarly).   *)
(***************************************************************************)
EXTENDS ResponsesState, ResponsesWebSocket, SequenceTheorems, TLAPS

\* The turns under way are new: no response has their number yet, and no
\* follow-up continues one of them.
TurnsAreNew ==
    /\ \A i \in 1..Len(inner) : inner[i].id <= started
    /\ \A c \in Clients : turn[c].busy =>
          /\ turn[c].n \in 1..started
          /\ ~Stored(turn[c].n)
          /\ turn[c].hit => turn[c].previous \in 1..started
          /\ \A d \in Clients : turn[d].busy =>
                /\ turn[d].hit => turn[d].previous # turn[c].n
                /\ turn[c].n = turn[d].n => c = d

\* What is known of a response after a step.
KnownThen(id) == SubSeq(whole'[id], lost'[id] + 1, Len(whole'[id]))

\* No more is lost of a conversation than it holds.
LossFits == \A id \in Ids : lost[id] <= Len(whole[id])

\* What a turn sends ends as its conversation does: found, the turn it continues
\* adds all that is known of it; not found, nothing is known but the turn.
TurnContinues ==
    \A c \in Clients : turn[c].busy =>
        IF turn[c].hit
        THEN /\ turn[c].items = LastN(MaxItems, Known(turn[c].previous)) \o Input(turn[c].n)
             /\ Known(turn[c].n) = Known(turn[c].previous) \o Input(turn[c].n)
        ELSE turn[c].items = Input(turn[c].n) /\ Known(turn[c].n) = Input(turn[c].n)

\* A turn without its history was asked for none, or is not local and has the
\* id it was asked to continue.
MissesForward ==
    \A c \in Clients : turn[c].busy /\ ~turn[c].hit =>
        \/ turn[c].previous = NoId
        \/ turn[c].route = "chat"
        \/ turn[c].route # "local" /\ turn[c].forwarded = turn[c].previous

\* The deque is in order of use.
InOrderOfUse ==
    /\ \A id \in Ids : used[id] <= clock
    /\ \A i \in 1..Len(inner) : used[inner[i].id] > 0
    /\ \A i, j \in 1..Len(inner) : i < j => used[inner[i].id] < used[inner[j].id]

\* The inductive invariant.
IInv ==
    /\ TypeOK
    /\ StoreBounded
    /\ LossFits
    /\ TranscriptIsTail
    /\ TurnsAreNew
    /\ TurnContinues
    /\ MissesForward
    /\ InOrderOfUse
    /\ KeepsMostRecentlyUsed
-----------------------------------------------------------------------------
\* The end of a sequence: its length and its elements.
LEMMA LastNElements ==
    ASSUME NEW S, NEW s \in Seq(S), NEW n \in Nat
    PROVE  /\ LastN(n, s) \in Seq(S)
           /\ Len(LastN(n, s)) = IF Len(s) > n THEN n ELSE Len(s)
           /\ \A i \in 1..Len(LastN(n, s)) :
                 LastN(n, s)[i] = s[i + (IF Len(s) > n THEN Len(s) - n ELSE 0)]
  BY DEF LastN

\* Cutting before an extension changes nothing of what a later cut keeps.
LEMMA LastNConcat ==
    ASSUME NEW S, NEW s \in Seq(S), NEW t \in Seq(S), NEW n \in Nat
    PROVE  LastN(n, LastN(n, s) \o t) = LastN(n, s \o t)
  <1> DEFINE cut   == LastN(n, s)
             short == cut \o t
             long  == s \o t
  <1>1. CASE Len(s) <= n
    BY <1>1 DEF LastN
  <1>2. CASE Len(s) > n
    <2>1. cut \in Seq(S) /\ Len(cut) = n /\ \A i \in 1..n : cut[i] = s[i + (Len(s) - n)]
      BY <1>2, LastNElements
    <2> HIDE DEF cut
    <2>2. /\ short \in Seq(S) /\ Len(short) = n + Len(t)
          /\ \A i \in 1..(n + Len(t)) : short[i] = IF i <= n THEN cut[i] ELSE t[i - n]
      BY <2>1, ConcatProperties
    <2>3. /\ long \in Seq(S) /\ Len(long) = Len(s) + Len(t)
          /\ \A i \in 1..(Len(s) + Len(t)) : long[i] = IF i <= Len(s) THEN s[i] ELSE t[i - Len(s)]
      BY ConcatProperties
    <2> HIDE DEF short, long
    <2>4. Len(s) \in Nat /\ Len(t) \in Nat /\ Len(short) = n + Len(t) /\ Len(long) = Len(s) + Len(t)
      BY <2>2, <2>3
    <2>5. /\ LastN(n, short) \in Seq(S) /\ Len(LastN(n, short)) = n
          /\ \A i \in 1..n : LastN(n, short)[i] = short[i + Len(t)]
      <3>1. /\ LastN(n, short) \in Seq(S)
            /\ Len(LastN(n, short)) = IF Len(short) > n THEN n ELSE Len(short)
            /\ \A i \in 1..Len(LastN(n, short)) :
                  LastN(n, short)[i] = short[i + (IF Len(short) > n THEN Len(short) - n ELSE 0)]
        BY <2>2, LastNElements
      <3>2. (IF Len(short) > n THEN Len(short) - n ELSE 0) = Len(t)
        BY <2>4
      <3>3. (IF Len(short) > n THEN n ELSE Len(short)) = n
        BY <2>4
      <3>4. QED
        BY <3>1, <3>2, <3>3
    <2>6. /\ LastN(n, long) \in Seq(S) /\ Len(LastN(n, long)) = n
          /\ \A i \in 1..n : LastN(n, long)[i] = long[i + (Len(s) + Len(t) - n)]
      <3>1. /\ LastN(n, long) \in Seq(S)
            /\ Len(LastN(n, long)) = IF Len(long) > n THEN n ELSE Len(long)
            /\ \A i \in 1..Len(LastN(n, long)) :
                  LastN(n, long)[i] = long[i + (IF Len(long) > n THEN Len(long) - n ELSE 0)]
        BY <2>3, LastNElements
      <3>2. (IF Len(long) > n THEN Len(long) - n ELSE 0) = Len(s) + Len(t) - n
        BY <1>2, <2>4
      <3>3. (IF Len(long) > n THEN n ELSE Len(long)) = n
        BY <1>2, <2>4
      <3>4. QED
        BY <3>1, <3>2, <3>3
    <2>7. ASSUME NEW i \in 1..n PROVE LastN(n, short)[i] = LastN(n, long)[i]
      <3> DEFINE a == i + Len(t)
                 b == i + (Len(s) + Len(t) - n)
      <3>1. /\ a \in 1..(n + Len(t)) /\ b \in 1..(Len(s) + Len(t))
            /\ a <= n <=> b <= Len(s)
            /\ b - Len(s) = a - n
            /\ b = a + (Len(s) - n)
        BY <1>2, <2>4, <2>7
      <3>2. LastN(n, short)[i] = short[a] /\ LastN(n, long)[i] = long[b]
        BY <2>5, <2>6
      <3> HIDE DEF a, b
      <3>3. short[a] = IF a <= n THEN cut[a] ELSE t[a - n]
        BY <2>2, <3>1
      <3>4. long[b] = IF b <= Len(s) THEN s[b] ELSE t[b - Len(s)]
        BY <2>3, <3>1
      <3>5. a <= n => cut[a] = s[b]
        BY <2>1, <2>4, <3>1
      <3>6. QED
        BY <3>1, <3>2, <3>3, <3>4, <3>5
    <2>8. QED
      BY <2>5, <2>6, <2>7, SeqEqual DEF short, long, cut
  <1>3. QED
    BY <1>1, <1>2

\* Removing an element.
LEMMA RemoveElements ==
    ASSUME NEW S, NEW s \in Seq(S), NEW i \in 1..Len(s)
    PROVE  /\ Remove(s, i) \in Seq(S)
           /\ Len(Remove(s, i)) = Len(s) - 1
           /\ \A j \in 1..(Len(s) - 1) : Remove(s, i)[j] = IF j < i THEN s[j] ELSE s[j + 1]
  <1> DEFINE front == SubSeq(s, 1, i - 1)
             back  == SubSeq(s, i + 1, Len(s))
  <1>1. front \in Seq(S) /\ Len(front) = i - 1 /\ \A j \in 1..(i - 1) : front[j] = s[j]
    OBVIOUS
  <1>2. back \in Seq(S) /\ Len(back) = Len(s) - i /\ \A j \in 1..(Len(s) - i) : back[j] = s[i + j]
    OBVIOUS
  <1> HIDE DEF front, back
  <1>3. /\ front \o back \in Seq(S)
        /\ Len(front \o back) = Len(s) - 1
        /\ \A j \in 1..(Len(s) - 1) :
              (front \o back)[j] = IF j <= i - 1 THEN front[j] ELSE back[j - (i - 1)]
    BY <1>1, <1>2, ConcatProperties
  <1>4. ASSUME NEW j \in 1..(Len(s) - 1)
        PROVE  (front \o back)[j] = IF j < i THEN s[j] ELSE s[j + 1]
    <2>1. CASE j < i
      <3>1. j \in 1..(i - 1) /\ j <= i - 1
        BY <2>1
      <3>2. (front \o back)[j] = front[j]
        BY <1>3, <3>1
      <3>3. front[j] = s[j]
        BY <1>1, <3>1
      <3> QED
        BY <2>1, <3>2, <3>3
    <2>2. CASE ~(j < i)
      <3>1. j - (i - 1) \in 1..(Len(s) - i) /\ ~(j <= i - 1) /\ i + (j - (i - 1)) = j + 1
        BY <2>2
      <3>2. (front \o back)[j] = back[j - (i - 1)]
        BY <1>3, <3>1
      <3>3. back[j - (i - 1)] = s[i + (j - (i - 1))]
        BY <1>2, <3>1
      <3> QED
        BY <2>2, <3>1, <3>2, <3>3
    <2> QED
      BY <2>1, <2>2
  <1>5. QED
    BY <1>3, <1>4 DEF Remove, front, back
-----------------------------------------------------------------------------
\* Where the entry of a stored response is.
LEMMA EntryPosition ==
    ASSUME NEW id, Stored(id)
    PROVE  \E i \in 1..Len(inner) :
              /\ inner[i].id = id
              /\ Entry(id) = inner[i]
              /\ Without(id) = Remove(inner, i)
  <1> DEFINE i == CHOOSE i \in 1..Len(inner) : inner[i].id = id
  <1>1. i \in 1..Len(inner) /\ inner[i].id = id
    BY DEF Stored
  <1>2. QED
    BY <1>1 DEF Entry, Without

\* A lookup moves the entry to the back and keeps the others in order.
LEMMA GetMoves ==
    ASSUME inner \in Seq(StoreEntry), NEW id, Stored(id), GetCachedResponseState(id)
    PROVE  \E i \in 1..Len(inner) :
              /\ inner[i].id = id
              /\ inner' \in Seq(StoreEntry)
              /\ Len(inner') = Len(inner)
              /\ \A j \in 1..Len(inner) :
                    inner'[j] = inner[IF j < i THEN j ELSE IF j < Len(inner) THEN j + 1 ELSE i]
  <1>1. PICK i \in 1..Len(inner) :
           inner[i].id = id /\ Entry(id) = inner[i] /\ Without(id) = Remove(inner, i)
    BY EntryPosition
  <1>2. inner' = Append(Remove(inner, i), inner[i])
    BY <1>1 DEF GetCachedResponseState
  <1>3. /\ Remove(inner, i) \in Seq(StoreEntry)
        /\ Len(Remove(inner, i)) = Len(inner) - 1
        /\ \A j \in 1..(Len(inner) - 1) :
              Remove(inner, i)[j] = IF j < i THEN inner[j] ELSE inner[j + 1]
    BY RemoveElements
  <1>4. inner[i] \in StoreEntry
    BY <1>1
  <1>5. inner' \in Seq(StoreEntry) /\ Len(inner') = Len(inner)
    BY <1>2, <1>3, <1>4
  <1>6. \A j \in 1..Len(inner) :
           inner'[j] = IF j < Len(inner) THEN Remove(inner, i)[j] ELSE inner[i]
    BY <1>2, <1>3, <1>4
  <1>7. \A j \in 1..Len(inner) :
           inner'[j] = inner[IF j < i THEN j ELSE IF j < Len(inner) THEN j + 1 ELSE i]
    BY <1>3, <1>6
  <1>8. QED
    BY <1>1, <1>5, <1>7

\* Storing a new response adds it at the back; a full deque loses its front.
LEMMA CacheAppends ==
    ASSUME inner \in Seq(StoreEntry), Len(inner) <= StateLimit,
           NEW id \in Ids, ~Stored(id), NEW items \in Seq(Items), CacheResponseState(id, items)
    PROVE  \E k \in {0, 1} :
              /\ k = 1 <=> Len(inner) = StateLimit
              /\ inner' \in Seq(StoreEntry)
              /\ Len(inner') = Len(inner) + 1 - k
              /\ \A j \in 1..Len(inner') :
                    inner'[j] = IF j = Len(inner')
                                THEN [id |-> id, transcript |-> LastN(MaxItems, items)]
                                ELSE inner[j + k]
  <1> DEFINE new  == [id |-> id, transcript |-> LastN(MaxItems, items)]
             long == Append(inner, new)
             k    == IF Len(inner) = StateLimit THEN 1 ELSE 0
  <1>1. new \in StoreEntry
    BY LastNElements, StateAssumption DEF StoreEntry
  <1>2. inner' = LastN(StateLimit, long)
    BY DEF CacheResponseState, Without
  <1> HIDE DEF new
  <1>3. /\ long \in Seq(StoreEntry) /\ Len(long) = Len(inner) + 1
        /\ \A j \in 1..(Len(inner) + 1) : long[j] = IF j = Len(inner) + 1 THEN new ELSE inner[j]
    BY <1>1
  <1> HIDE DEF long
  <1>4. /\ inner' \in Seq(StoreEntry)
        /\ Len(inner') = IF Len(long) > StateLimit THEN StateLimit ELSE Len(long)
        /\ \A j \in 1..Len(inner') :
              inner'[j] = long[j + (IF Len(long) > StateLimit THEN Len(long) - StateLimit ELSE 0)]
    BY <1>2, <1>3, LastNElements, StateAssumption
  <1>5. Len(inner) \in Nat /\ k \in {0, 1} /\ (k = 1 <=> Len(inner) = StateLimit)
    BY <1>3
  <1>6. (IF Len(long) > StateLimit THEN Len(long) - StateLimit ELSE 0) = k
    BY <1>3, StateAssumption
  <1> HIDE DEF k
  <1>7. \A j \in 1..Len(inner') : inner'[j] = long[j + k]
    BY <1>4, <1>6
  <1>8. Len(inner') = Len(inner) + 1 - k
    <2>1. Len(long) = Len(inner) + 1
      BY <1>3
    <2>2. Len(inner') = IF Len(long) > StateLimit THEN StateLimit ELSE Len(long)
      BY <1>4
    <2>3. QED
      BY <1>5, <2>1, <2>2, StateAssumption
  <1>9. \A j \in 1..Len(inner') : inner'[j] = IF j = Len(inner') THEN new ELSE inner[j + k]
    <2> SUFFICES ASSUME NEW j \in 1..Len(inner')
                 PROVE  inner'[j] = IF j = Len(inner') THEN new ELSE inner[j + k]
      OBVIOUS
    <2>1. j + k \in 1..(Len(inner) + 1) /\ (j = Len(inner') <=> j + k = Len(inner) + 1)
      BY <1>5, <1>8
    <2>2. QED
      BY <1>3, <1>7, <2>1
  <1>10. inner' \in Seq(StoreEntry)
    BY <1>4
  <1>11. QED
    BY <1>5, <1>8, <1>9, <1>10 DEF new

-----------------------------------------------------------------------------
\* What both operations on the deque need and keep.
DequeOK ==
    /\ inner \in Seq(StoreEntry)
    /\ clock \in Nat
    /\ used \in [Ids -> Nat]
    /\ StoreBounded
    /\ InOrderOfUse
    /\ KeepsMostRecentlyUsed

\* A lookup keeps the entries, and the deque in order of use.
LEMMA GetKeeps ==
    ASSUME DequeOK, NEW id \in Ids, Stored(id), GetCachedResponseState(id)
    PROVE  /\ DequeOK'
           /\ \A j \in 1..Len(inner') : \E i \in 1..Len(inner) : inner'[j] = inner[i]
  <1>1. PICK i \in 1..Len(inner) :
           /\ inner[i].id = id
           /\ inner' \in Seq(StoreEntry)
           /\ Len(inner') = Len(inner)
           /\ \A j \in 1..Len(inner) :
                 inner'[j] = inner[IF j < i THEN j ELSE IF j < Len(inner) THEN j + 1 ELSE i]
    BY GetMoves DEF DequeOK
  <1> DEFINE Origin(j) == IF j < i THEN j ELSE IF j < Len(inner) THEN j + 1 ELSE i
  <1>2. Len(inner) \in Nat
    BY DEF DequeOK
  <1>3. \A j \in 1..Len(inner) : Origin(j) \in 1..Len(inner) /\ inner'[j] = inner[Origin(j)]
    BY <1>1, <1>2
  <1>4. \A j, k \in 1..Len(inner) : Origin(j) = Origin(k) => j = k
    BY <1>2
  <1>5. \A j \in 1..Len(inner) : Origin(j) = i <=> j = Len(inner)
    BY <1>2
  <1>6. \A j, k \in 1..Len(inner) : j < k /\ k < Len(inner) => Origin(j) < Origin(k)
    BY <1>2
  <1> HIDE DEF Origin
  <1>7. \A x : Stored(x) => \E j \in 1..Len(inner') : inner'[j].id = x
    <2> SUFFICES ASSUME NEW x, Stored(x)
                 PROVE  \E j \in 1..Len(inner') : inner'[j].id = x
      OBVIOUS
    <2>0. PICK k \in 1..Len(inner) : inner[k].id = x
      BY DEF Stored
    <2>1. \E j \in 1..Len(inner) : Origin(j) = k
      <3>1. CASE k < i
        BY <1>2, <3>1 DEF Origin
      <3>2. CASE k = i
        BY <1>2, <1>5, <3>2
      <3>3. CASE k > i
        BY <1>2, <3>3 DEF Origin
      <3>4. QED
        BY <1>2, <3>1, <3>2, <3>3
    <2>2. PICK j \in 1..Len(inner) : Origin(j) = k
      BY <2>1
    <2>3. inner'[j].id = x
      BY <1>3, <2>0, <2>2
    <2>4. j \in 1..Len(inner')
      BY <1>1, <2>2
    <2>5. QED
      BY <2>3, <2>4
  <1>8. clock' = clock + 1 /\ used' = [used EXCEPT ![id] = clock + 1]
    BY DEF GetCachedResponseState, Touch
  <1>9. clock' \in Nat /\ used' \in [Ids -> Nat]
    BY <1>8 DEF DequeOK
  <1>10. \A j \in 1..Len(inner) : inner[j].id \in Ids /\ (inner[j].id = id => j = i)
    <2>1. \A j \in 1..Len(inner) : inner[j] \in StoreEntry
      BY DEF DequeOK
    <2>2. \A j \in 1..Len(inner) : inner[j].id = inner[i].id => j = i
      BY <1>1 DEF DequeOK, StoreBounded
    <2>3. QED
      BY <1>1, <2>1, <2>2 DEF StoreEntry
  <1>11. \A j \in 1..Len(inner) : used'[inner[j].id] = IF j = i THEN clock + 1 ELSE used[inner[j].id]
    BY <1>1, <1>8, <1>10 DEF DequeOK
  <1>12. \A j \in 1..Len(inner) :
            used'[inner'[j].id] = IF j = Len(inner) THEN clock + 1 ELSE used[inner[Origin(j)].id]
    BY <1>3, <1>5, <1>11
  <1>13. StoreBounded'
    <2>1. Len(inner') <= StateLimit
      BY <1>1 DEF DequeOK, StoreBounded
    <2>2. \A j \in 1..Len(inner') : Len(inner'[j].transcript) <= MaxItems
      BY <1>1, <1>3 DEF DequeOK, StoreBounded
    <2>3. ASSUME NEW j \in 1..Len(inner'), NEW k \in 1..Len(inner'), inner'[j].id = inner'[k].id
          PROVE  j = k
      <3>1. /\ Origin(j) \in 1..Len(inner) /\ Origin(k) \in 1..Len(inner)
            /\ inner[Origin(j)].id = inner[Origin(k)].id
        BY <1>1, <1>3, <2>3
      <3>2. Origin(j) = Origin(k)
        BY <3>1 DEF DequeOK, StoreBounded
      <3>3. QED
        BY <1>1, <1>4, <3>2
    <2>4. QED
      BY <2>1, <2>2, <2>3 DEF StoreBounded
  <1>14. InOrderOfUse'
    <2>1. \A x \in Ids : used'[x] <= clock'
      BY <1>8 DEF DequeOK, InOrderOfUse
    <2>2. ASSUME NEW j \in 1..Len(inner') PROVE used'[inner'[j].id] > 0
      <3>1. j \in 1..Len(inner) /\ Origin(j) \in 1..Len(inner)
        BY <1>1, <1>3
      <3>2. used[inner[Origin(j)].id] > 0 /\ clock + 1 > 0
        BY <3>1 DEF DequeOK, InOrderOfUse
      <3>3. QED
        BY <1>12, <3>1, <3>2
    <2>3. ASSUME NEW j \in 1..Len(inner'), NEW k \in 1..Len(inner'), j < k
          PROVE  used'[inner'[j].id] < used'[inner'[k].id]
      <3>1. j \in 1..Len(inner) /\ k \in 1..Len(inner) /\ j # Len(inner)
        BY <1>1, <1>2, <2>3
      <3>5. used'[inner'[j].id] = used[inner[Origin(j)].id] /\ Origin(j) \in 1..Len(inner)
        BY <1>3, <1>12, <3>1
      <3>2. CASE k = Len(inner)
        <4>1. used'[inner'[k].id] = clock + 1
          BY <1>12, <3>1, <3>2
        <4>2. used[inner[Origin(j)].id] <= clock /\ used[inner[Origin(j)].id] \in Nat
          BY <1>10, <3>5 DEF DequeOK, InOrderOfUse
        <4>3. QED
          BY <3>5, <4>1, <4>2 DEF DequeOK
      <3>3. CASE k < Len(inner)
        <4>1. used'[inner'[k].id] = used[inner[Origin(k)].id]
          BY <1>2, <1>12, <3>1, <3>3
        <4>2. Origin(j) < Origin(k)
          BY <1>6, <2>3, <3>1, <3>3
        <4>3. QED
          BY <1>3, <3>1, <3>5, <4>1, <4>2 DEF DequeOK, InOrderOfUse
      <3>4. QED
        BY <1>2, <3>1, <3>2, <3>3
    <2>4. QED
      BY <2>1, <2>2, <2>3 DEF InOrderOfUse
  <1>15. KeepsMostRecentlyUsed'
    <2> SUFFICES ASSUME NEW x \in Ids, used'[x] > 0, ~(Stored(x)')
                 PROVE  /\ Len(inner') = StateLimit
                        /\ \A j \in 1..Len(inner') : used'[x] < used'[inner'[j].id]
      BY DEF KeepsMostRecentlyUsed
    <2>1. ~Stored(x) /\ x # id
      BY <1>7 DEF Stored
    <2>2. used'[x] = used[x]
      BY <1>8, <2>1 DEF DequeOK
    <2>3. Len(inner) = StateLimit /\ \A j \in 1..Len(inner) : used[x] < used[inner[j].id]
      BY <2>1, <2>2 DEF DequeOK, KeepsMostRecentlyUsed
    <2>4. used[x] <= clock /\ used[x] \in Nat /\ clock \in Nat
      BY DEF DequeOK, InOrderOfUse
    <2>5. \A j \in 1..Len(inner) : used'[x] < used'[inner[j].id]
      BY <1>11, <2>2, <2>3, <2>4
    <2>6. QED
      BY <1>1, <1>3, <2>3, <2>5
  <1>16. QED
    BY <1>1, <1>3, <1>9, <1>13, <1>14, <1>15 DEF DequeOK


\* Storing a new response adds its entry, keeps the others or forgets the
\* least recently used one, and keeps the deque in order of use.
LEMMA CacheKeeps ==
    ASSUME DequeOK, NEW id \in Ids, ~Stored(id), NEW items \in Seq(Items), CacheResponseState(id, items)
    PROVE  /\ DequeOK'
           /\ \A j \in 1..Len(inner') :
                 \/ inner'[j] = [id |-> id, transcript |-> LastN(MaxItems, items)]
                 \/ \E i \in 1..Len(inner) : inner'[j] = inner[i]
  <1> DEFINE new == [id |-> id, transcript |-> LastN(MaxItems, items)]
  <1>1. PICK k \in {0, 1} :
           /\ k = 1 <=> Len(inner) = StateLimit
           /\ inner' \in Seq(StoreEntry)
           /\ Len(inner') = Len(inner) + 1 - k
           /\ \A j \in 1..Len(inner') : inner'[j] = IF j = Len(inner') THEN new ELSE inner[j + k]
    BY CacheAppends DEF DequeOK, StoreBounded
  <1>2. /\ new.id = id
        /\ new.transcript = LastN(MaxItems, items)
        /\ Len(new.transcript) <= MaxItems
    <2>1. Len(LastN(MaxItems, items)) = IF Len(items) > MaxItems THEN MaxItems ELSE Len(items)
      BY LastNElements, StateAssumption
    <2>2. Len(LastN(MaxItems, items)) <= MaxItems
      BY <2>1, StateAssumption
    <2>3. QED
      BY <2>2
  <1> HIDE DEF new
  <1>3. Len(inner) \in Nat /\ Len(inner') \in Nat /\ Len(inner) <= StateLimit
    BY <1>1 DEF DequeOK, StoreBounded
  <1>4. \A j \in 1..Len(inner') : j # Len(inner') => j + k \in 1..Len(inner) /\ inner'[j] = inner[j + k]
    BY <1>1, <1>3
  <1>5. Len(inner') \in 1..Len(inner') /\ inner'[Len(inner')] = new
    <2>1. Len(inner') >= 1
      BY <1>1, <1>3, StateAssumption
    <2>2. QED
      BY <1>1, <1>3, <2>1
  <1>6. clock' = clock + 1 /\ used' = [used EXCEPT ![id] = clock + 1]
    BY DEF CacheResponseState, Touch
  <1>7. clock' \in Nat /\ used' \in [Ids -> Nat]
    BY <1>6 DEF DequeOK
  <1>8. \A j \in 1..Len(inner) : inner[j].id \in Ids /\ inner[j].id # id
    <2>1. \A j \in 1..Len(inner) : inner[j] \in StoreEntry
      BY DEF DequeOK
    <2>2. QED
      BY <2>1 DEF Stored, StoreEntry
  <1>9. \A j \in 1..Len(inner') :
           used'[inner'[j].id] = IF j = Len(inner') THEN clock + 1 ELSE used[inner[j + k].id]
    BY <1>2, <1>4, <1>5, <1>6, <1>8 DEF DequeOK
  <1>10. StoreBounded'
    <2>1. Len(inner') <= StateLimit
      BY <1>1, <1>3, StateAssumption
    <2>2. \A j \in 1..Len(inner') : Len(inner'[j].transcript) <= MaxItems
      BY <1>2, <1>4, <1>5 DEF DequeOK, StoreBounded
    <2>3. ASSUME NEW j \in 1..Len(inner'), NEW m \in 1..Len(inner'), inner'[j].id = inner'[m].id
          PROVE  j = m
      <3>1. CASE j = Len(inner') \/ m = Len(inner')
        BY <1>2, <1>4, <1>5, <1>8, <2>3, <3>1
      <3>2. CASE j # Len(inner') /\ m # Len(inner')
        <4>1. /\ j + k \in 1..Len(inner) /\ inner'[j] = inner[j + k]
              /\ m + k \in 1..Len(inner) /\ inner'[m] = inner[m + k]
          BY <1>4, <3>2
        <4>2. inner[j + k].id = inner[m + k].id
          BY <2>3, <4>1
        <4>3. \A a, b \in 1..Len(inner) : inner[a].id = inner[b].id => a = b
          BY DEF DequeOK, StoreBounded
        <4>4. j + k = m + k
          BY ONLY <4>1, <4>2, <4>3
        <4>5. QED
          BY <1>1, <1>3, <4>4
      <3>3. QED
        BY <3>1, <3>2
    <2>4. QED
      BY <2>1, <2>2, <2>3 DEF StoreBounded
  <1>11. InOrderOfUse'
    <2>1. \A x \in Ids : used'[x] <= clock'
      BY <1>6 DEF DequeOK, InOrderOfUse
    <2>2. ASSUME NEW j \in 1..Len(inner') PROVE used'[inner'[j].id] > 0
      <3>1. clock + 1 > 0
        BY DEF DequeOK
      <3>2. CASE j = Len(inner')
        BY <1>9, <3>1, <3>2
      <3>3. CASE j # Len(inner')
        BY <1>4, <1>9, <3>3 DEF DequeOK, InOrderOfUse
      <3>4. QED
        BY <3>2, <3>3
    <2>3. ASSUME NEW j \in 1..Len(inner'), NEW m \in 1..Len(inner'), j < m
          PROVE  used'[inner'[j].id] < used'[inner'[m].id]
      <3>1. j # Len(inner') /\ j + k \in 1..Len(inner) /\ used'[inner'[j].id] = used[inner[j + k].id]
        BY <1>3, <1>4, <1>9, <2>3
      <3>2. CASE m = Len(inner')
        <4>1. used[inner[j + k].id] <= clock /\ used[inner[j + k].id] \in Nat
          BY <1>8, <3>1 DEF DequeOK, InOrderOfUse
        <4>2. QED
          BY <1>9, <3>1, <3>2, <4>1 DEF DequeOK
      <3>3. CASE m # Len(inner')
        <4>1. m + k \in 1..Len(inner) /\ used'[inner'[m].id] = used[inner[m + k].id] /\ j + k < m + k
          BY <1>1, <1>4, <1>9, <2>3, <3>3
        <4>2. QED
          BY <3>1, <4>1 DEF DequeOK, InOrderOfUse
      <3>4. QED
        BY <3>2, <3>3
    <2>4. QED
      BY <2>1, <2>2, <2>3 DEF InOrderOfUse
  <1>12. KeepsMostRecentlyUsed'
    <2> SUFFICES ASSUME NEW x \in Ids, used'[x] > 0, ~(Stored(x)')
                 PROVE  /\ Len(inner') = StateLimit
                        /\ \A j \in 1..Len(inner') : used'[x] < used'[inner'[j].id]
      BY DEF KeepsMostRecentlyUsed
    <2>1. \A j \in 1..Len(inner') : inner'[j].id # x
      BY DEF Stored
    <2>2. x # id
      BY <1>2, <1>5, <2>1
    <2>3. used'[x] = used[x] /\ used[x] \in Nat /\ used[x] <= clock
      BY <1>6, <2>2 DEF DequeOK, InOrderOfUse
    <2>4. CASE Stored(x)
      <3>1. PICK i \in 1..Len(inner) : inner[i].id = x
        BY <2>4 DEF Stored
      <3>2. i = 1 /\ k = 1
        <4>1. \A j \in 1..Len(inner') : j # Len(inner') => j + k # i
          BY <1>4, <2>1, <3>1
        <4>2. CASE i > k
          <5>1. i - k \in 1..Len(inner') /\ i - k # Len(inner') /\ (i - k) + k = i
            BY <1>1, <1>3, <4>2
          <5>2. QED
            BY <4>1, <5>1
        <4>3. CASE i <= k
          BY <4>3
        <4>4. QED
          BY <4>2, <4>3
      <3>3. ASSUME NEW j \in 1..Len(inner'), j # Len(inner') PROVE used[x] < used[inner[j + k].id]
        <4>1. i < j + k /\ j + k \in 1..Len(inner)
          BY <1>3, <1>4, <3>2, <3>3
        <4>2. QED
          BY <3>1, <4>1 DEF DequeOK, InOrderOfUse
      <3>4. ASSUME NEW j \in 1..Len(inner') PROVE used'[x] < used'[inner'[j].id]
        <4>1. CASE j = Len(inner')
          BY <1>9, <2>3, <4>1 DEF DequeOK
        <4>2. CASE j # Len(inner')
          BY <1>9, <2>3, <3>3, <4>2
        <4>3. QED
          BY <4>1, <4>2
      <3>5. QED
        BY <1>1, <1>3, <3>2, <3>4
    <2>5. CASE ~Stored(x)
      <3>1. Len(inner) = StateLimit /\ \A j \in 1..Len(inner) : used[x] < used[inner[j].id]
        BY <2>3, <2>5 DEF DequeOK, KeepsMostRecentlyUsed
      <3>2. \A j \in 1..Len(inner') : j # Len(inner') => used[x] < used[inner[j + k].id]
        BY <1>4, <3>1
      <3>3. ASSUME NEW j \in 1..Len(inner') PROVE used'[x] < used'[inner'[j].id]
        <4>1. CASE j = Len(inner')
          BY <1>9, <2>3, <4>1 DEF DequeOK
        <4>2. CASE j # Len(inner')
          BY <1>9, <2>3, <3>2, <4>2
        <4>3. QED
          BY <4>1, <4>2
      <3>4. QED
        BY <1>1, <1>3, <3>1, <3>3
    <2>6. QED
      BY <2>4, <2>5
  <1>13. \A j \in 1..Len(inner') : inner'[j] = new \/ \E i \in 1..Len(inner) : inner'[j] = inner[i]
    BY <1>4, <1>5
  <1>14. QED
    BY <1>1, <1>7, <1>10, <1>11, <1>12, <1>13 DEF DequeOK, new

-----------------------------------------------------------------------------
\* Extending a sequence extends what is left of it without its first elements.
LEMMA RestConcat ==
    ASSUME NEW S, NEW s \in Seq(S), NEW t \in Seq(S), NEW k \in 0..Len(s)
    PROVE  /\ SubSeq(s \o t, k + 1, Len(s \o t)) = SubSeq(s, k + 1, Len(s)) \o t
           /\ SubSeq(s, k + 1, Len(s)) \in Seq(S)
  <1> DEFINE long  == s \o t
             rest  == SubSeq(s, k + 1, Len(s))
             left  == SubSeq(long, k + 1, Len(long))
             right == rest \o t
  <1>1. /\ long \in Seq(S) /\ Len(long) = Len(s) + Len(t)
        /\ \A i \in 1..(Len(s) + Len(t)) : long[i] = IF i <= Len(s) THEN s[i] ELSE t[i - Len(s)]
    BY ConcatProperties
  <1>2. /\ rest \in Seq(S) /\ Len(rest) = Len(s) - k
        /\ \A i \in 1..(Len(s) - k) : rest[i] = s[i + k]
    OBVIOUS
  <1> HIDE DEF long, rest
  <1>3. /\ left \in Seq(S) /\ Len(left) = Len(s) + Len(t) - k
        /\ \A i \in 1..(Len(s) + Len(t) - k) : left[i] = long[i + k]
    BY <1>1
  <1>4. /\ right \in Seq(S) /\ Len(right) = Len(s) - k + Len(t)
        /\ \A i \in 1..(Len(s) - k + Len(t)) :
              right[i] = IF i <= Len(s) - k THEN rest[i] ELSE t[i - (Len(s) - k)]
    <2>1. Len(rest) = Len(s) - k /\ Len(t) \in Nat
      BY <1>2
    <2>2. /\ rest \o t \in Seq(S) /\ Len(rest \o t) = Len(rest) + Len(t)
          /\ \A i \in 1..(Len(rest) + Len(t)) :
                (rest \o t)[i] = IF i <= Len(rest) THEN rest[i] ELSE t[i - Len(rest)]
      BY <1>2, ConcatProperties
    <2> QED
      BY <2>1, <2>2
  <1> HIDE DEF left, right
  <1>5. ASSUME NEW i \in 1..(Len(s) + Len(t) - k) PROVE left[i] = right[i]
    <2>1. /\ i + k \in 1..(Len(s) + Len(t)) /\ i \in 1..(Len(s) - k + Len(t))
          /\ i + k <= Len(s) <=> i <= Len(s) - k
          /\ i + k - Len(s) = i - (Len(s) - k)
      OBVIOUS
    <2>2. left[i] = IF i + k <= Len(s) THEN s[i + k] ELSE t[i + k - Len(s)]
      BY <1>1, <1>3, <2>1
    <2>3. right[i] = IF i <= Len(s) - k THEN rest[i] ELSE t[i - (Len(s) - k)]
      BY <1>4, <2>1
    <2>4. i <= Len(s) - k => rest[i] = s[i + k]
      BY <1>2
    <2>5. CASE i <= Len(s) - k
      <3>1. left[i] = s[i + k]
        BY <2>1, <2>2, <2>5
      <3>2. right[i] = s[i + k]
        BY <2>3, <2>4, <2>5
      <3> QED
        BY <3>1, <3>2
    <2>6. CASE ~(i <= Len(s) - k)
      <3>1. left[i] = t[i - (Len(s) - k)]
        BY <2>1, <2>2, <2>6
      <3>2. right[i] = t[i - (Len(s) - k)]
        BY <2>3, <2>6
      <3> QED
        BY <3>1, <3>2
    <2> QED
      BY <2>5, <2>6
  <1>6. left = right
    <2>1. Len(left) = Len(right) /\ left \in Seq(S) /\ right \in Seq(S)
      BY <1>3, <1>4
    <2>2. \A i \in 1..Len(left) : left[i] = right[i]
      BY <1>3, <1>5
    <2> QED
      BY <2>1, <2>2, SeqEqual
  <1> QED
    BY <1>2, <1>6 DEF left, right, rest, long

\* The same of items, the extended sequence having a name of its own.
LEMMA RestOfItems ==
    ASSUME NEW s \in Seq(Items), NEW t \in Seq(Items), NEW k \in 0..Len(s),
           NEW u, u = s \o t
    PROVE  /\ SubSeq(u, k + 1, Len(u)) = SubSeq(s, k + 1, Len(s)) \o t
           /\ SubSeq(s, k + 1, Len(s)) \in Seq(Items)
  <1>1. /\ SubSeq(s \o t, k + 1, Len(s \o t)) = SubSeq(s, k + 1, Len(s)) \o t
        /\ SubSeq(s, k + 1, Len(s)) \in Seq(Items)
    BY RestConcat
  <1> QED
    BY ZenonT(30), <1>1

\* Concatenation of items is associative.
LEMMA ItemsAssociative ==
    ASSUME NEW s \in Seq(Items), NEW t \in Seq(Items), NEW u \in Seq(Items), NEW v, v = s \o t
    PROVE  v \o u = s \o (t \o u)
  <1>1. (s \o t) \o u = s \o (t \o u)
    BY ConcatAssociative
  <1> QED
    BY <1>1

\* The items of a turn are items.
LEMMA ItemTypes ==
    ASSUME NEW n \in Ids
    PROVE  /\ Input(n) \in Seq(Items)
           /\ \A size \in Nat : Output(n, size) \in Seq(Items)
  BY DEF Input, Output, Items

\* What is remembered of a stored response has the type of a transcript.
LEMMA EntryType ==
    ASSUME TypeOK, NEW id \in Ids, Stored(id)
    PROVE  Entry(id).transcript \in Seq(Items) /\ \E i \in 1..Len(inner) : inner[i].id = id /\ Entry(id) = inner[i]
  <1>1. PICK i \in 1..Len(inner) : inner[i].id = id /\ Entry(id) = inner[i]
    BY EntryPosition
  <1>2. inner[i] \in StoreEntry
    BY <1>1 DEF TypeOK
  <1>3. QED
    BY <1>1, <1>2 DEF StoreEntry

\* A prepared turn is a turn.
LEMMA PreparedType ==
    ASSUME TypeOK, started < MaxTurns, NEW route \in Routes, NEW hit \in BOOLEAN,
           NEW previous \in Ids \union {NoId}, NEW forwarded \in Ids \union {NoId},
           hit => previous \in Ids /\ Stored(previous)
    PROVE  /\ Prepared(route, previous, hit, forwarded) \in TurnType
           /\ started + 1 \in Ids
  <1>1. started + 1 \in Ids
    BY StateAssumption DEF TypeOK, Ids
  <1>2. Input(started + 1) \in Seq(Items)
    BY <1>1, ItemTypes
  <1>3. (IF hit THEN Entry(previous).transcript ELSE <<>>) \in Seq(Items)
    BY EntryType
  <1>4. (IF hit THEN Entry(previous).transcript ELSE <<>>) \o Input(started + 1) \in Seq(Items)
    BY <1>2, <1>3
  <1>5. QED
    BY <1>1, <1>4 DEF Prepared, TurnType

\* A new turn is known from what is known of the one it continues, if the store
\* has that, and the conversations of the other turns stay as they are.
LEMMA ContinueKnown ==
    ASSUME TypeOK, LossFits, started + 1 \in Ids, NEW hit \in BOOLEAN,
           NEW previous \in Ids \union {NoId}, hit => previous \in Ids, Continue(previous, hit)
    PROVE  /\ whole' \in [Ids -> Seq(Items)] /\ lost' \in [Ids -> Nat]
           /\ LossFits'
           /\ KnownThen(started + 1) = (IF hit THEN Known(previous) ELSE <<>>) \o Input(started + 1)
           /\ \A id \in Ids : id # started + 1 => KnownThen(id) = Known(id)
  <1> DEFINE n      == started + 1
             before == IF previous = NoId THEN <<>> ELSE whole[previous]
             gone   == IF hit THEN lost[previous] ELSE Len(before)
  <1>1. before \in Seq(Items) /\ Len(before) \in Nat
    BY DEF TypeOK
  <1>2. gone \in 0..Len(before)
    BY <1>1 DEF TypeOK, LossFits, Ids, NoId
  <1>3. Input(n) \in Seq(Items) /\ before \o Input(n) \in Seq(Items)
    BY <1>1, ItemTypes
  <1>4. whole' = [whole EXCEPT ![n] = before \o Input(n)] /\ lost' = [lost EXCEPT ![n] = gone]
    BY DEF Continue
  <1>5. hit => before = whole[previous] /\ gone = lost[previous]
    BY DEF Ids, NoId
  <1>6. ~hit => gone = Len(before)
    OBVIOUS
  <1> HIDE DEF before, gone
  <1>type. whole \in [Ids -> Seq(Items)] /\ lost \in [Ids -> Nat] /\ n \in Ids
    BY DEF TypeOK
  <1> HIDE DEF n
  <1>7. /\ whole' \in [Ids -> Seq(Items)] /\ lost' \in [Ids -> Nat]
        /\ whole'[n] = before \o Input(n) /\ lost'[n] = gone
        /\ \A id \in Ids : id # n => whole'[id] = whole[id] /\ lost'[id] = lost[id]
    <2>1. whole' \in [Ids -> Seq(Items)] /\ whole'[n] = before \o Input(n)
      BY <1>3, <1>4, <1>type
    <2>2. gone \in Nat
      BY <1>1, <1>2
    <2>3. lost' \in [Ids -> Nat] /\ lost'[n] = gone
      BY <1>4, <1>type, <2>2
    <2>4. \A id \in Ids : id # n => whole'[id] = whole[id] /\ lost'[id] = lost[id]
      BY <1>4, <1>type
    <2> QED
      BY <2>1, <2>3, <2>4
  <1>8. Len(before \o Input(n)) = Len(before) + Len(Input(n)) /\ Len(Input(n)) \in Nat
    BY <1>1, <1>3
  <1>9. LossFits'
    <2>1. ASSUME NEW id \in Ids PROVE lost'[id] <= Len(whole'[id])
      <3>1. CASE id = n
        <4>1. gone <= Len(before) + Len(Input(n))
          BY <1>1, <1>2, <1>8
        <4> QED
          BY <1>7, <1>8, <3>1, <4>1
      <3>2. CASE id # n
        BY <1>7, <3>2 DEF LossFits
      <3> QED
        BY <3>1, <3>2
    <2> QED
      BY <2>1 DEF LossFits
  <1>10. KnownThen(n) = SubSeq(before, gone + 1, Len(before)) \o Input(n)
    <2>1. SubSeq(whole'[n], gone + 1, Len(whole'[n])) = SubSeq(before, gone + 1, Len(before)) \o Input(n)
      BY <1>1, <1>2, <1>3, <1>7, RestOfItems
    <2> QED
      BY <1>7, <2>1 DEF KnownThen
  <1>11. SubSeq(before, gone + 1, Len(before)) = IF hit THEN Known(previous) ELSE <<>>
    <2>1. CASE hit
      BY <1>5, <2>1 DEF Known
    <2>2. CASE ~hit
      BY <1>1, <1>6, <2>2
    <2> QED
      BY <2>1, <2>2
  <1>12. \A id \in Ids : id # n => KnownThen(id) = Known(id)
    BY <1>7 DEF Known, KnownThen
  <1> QED
    BY <1>7, <1>9, <1>10, <1>11, <1>12 DEF n

-----------------------------------------------------------------------------
\* The deque's part of the invariant.
LEMMA IInvDeque == ASSUME IInv PROVE DequeOK
  BY DEF IInv, TypeOK, DequeOK

\* If a step keeps every entry or loses it, what is stored was stored.
LEMMA StillStored ==
    ASSUME \A j \in 1..Len(inner') : \E i \in 1..Len(inner) : inner'[j] = inner[i]
    PROVE  \A x : Stored(x)' => Stored(x)
  BY DEF Stored

\* Starting a turn, with or without its history, keeps the invariant.
LEMMA BeginKeeps ==
    ASSUME IInv, NEW c \in Clients, NEW route \in Routes, NEW hit \in BOOLEAN,
           NEW previous \in Ids \union {NoId}, NEW forwarded \in Ids \union {NoId},
           hit => previous \in 1..started /\ Stored(previous),
           ~hit => \/ previous = NoId
                   \/ route = "chat"
                   \/ route # "local" /\ forwarded = previous,
           Begin(c, Prepared(route, previous, hit, forwarded)),
           DequeOK',
           \A j \in 1..Len(inner') : \E i \in 1..Len(inner) : inner'[j] = inner[i]
    PROVE  IInv'
  <1> DEFINE request == Prepared(route, previous, hit, forwarded)
  <1>1. /\ ~turn[c].busy /\ started < MaxTurns /\ started' = started + 1
        /\ turn' = [turn EXCEPT ![c] = request]
        /\ Continue(request.previous, request.hit) /\ restarts' = restarts
    BY DEF Begin
  <1>2. /\ started \in Nat /\ started' \in 0..MaxTurns /\ 1..started \subseteq Ids /\ started + 1 \in Ids
        /\ restarts' \in 0..MaxRestarts
    BY <1>1, StateAssumption DEF IInv, TypeOK, Ids
  <1>3. request \in TurnType
    BY <1>1, <1>2, PreparedType DEF IInv
  <1>4. /\ request.busy /\ request.n = started + 1 /\ request.hit = hit /\ request.previous = previous
        /\ request.route = route /\ request.forwarded = forwarded
        /\ request.items = (IF hit THEN Entry(previous).transcript ELSE <<>>) \o Input(started + 1)
    BY DEF Prepared
  <1> HIDE DEF request
  <1>5. /\ turn' \in [Clients -> TurnType] /\ turn'[c] = request
        /\ \A d \in Clients : d # c => turn'[d] = turn[d]
    BY <1>1, <1>3 DEF IInv, TypeOK
  <1>known. /\ whole' \in [Ids -> Seq(Items)] /\ lost' \in [Ids -> Nat] /\ LossFits'
         /\ KnownThen(started + 1) = (IF hit THEN Known(previous) ELSE <<>>) \o Input(started + 1)
         /\ \A id \in Ids : id # started + 1 => KnownThen(id) = Known(id)
    BY <1>1, <1>2, <1>4, ContinueKnown DEF IInv
  <1>6. TypeOK'
    BY <1>2, <1>5, <1>known DEF DequeOK, TypeOK
  <1>stored. \A i \in 1..Len(inner) : inner[i].id \in Ids /\ inner[i].id # started + 1
    <2>1. \A i \in 1..Len(inner) : inner[i] \in StoreEntry /\ inner[i].id <= started
      BY DEF IInv, TypeOK, TurnsAreNew
    <2>2. \A i \in 1..Len(inner) : inner[i].id \in Ids /\ inner[i].id \in Nat
      BY <2>1 DEF StoreEntry, Ids
    <2> QED
      BY <1>2, <2>1, <2>2
  <1>7. TranscriptIsTail'
    <2> SUFFICES ASSUME NEW j \in 1..Len(inner')
                 PROVE  inner'[j].transcript = LastN(MaxItems, KnownThen(inner'[j].id))
      BY DEF TranscriptIsTail, Known, KnownThen
    <2>1. PICK i \in 1..Len(inner) : inner'[j] = inner[i]
      OBVIOUS
    <2>2. inner[i].transcript = LastN(MaxItems, Known(inner[i].id))
      BY DEF IInv, TranscriptIsTail
    <2>3. KnownThen(inner[i].id) = Known(inner[i].id)
      BY <1>known, <1>stored
    <2> QED
      BY <2>1, <2>2, <2>3
  <1>8. TurnsAreNew'
    <2>1. \A i \in 1..Len(inner') : inner'[i].id <= started /\ inner'[i].id \in Nat
      <3>1. \A i \in 1..Len(inner) : inner[i] \in StoreEntry /\ inner[i].id <= started
        BY DEF IInv, TypeOK, TurnsAreNew
      <3>2. \A i \in 1..Len(inner) : inner[i].id \in Nat
        BY <3>1 DEF StoreEntry, Ids
      <3>3. QED
        BY <3>1, <3>2
    <2>2. \A i \in 1..Len(inner') : inner'[i].id # started + 1
      BY <1>2, <2>1
    <2>3. ASSUME NEW d \in Clients, turn'[d].busy
          PROVE  /\ turn'[d].n \in 1..started'
                 /\ \A i \in 1..Len(inner') : inner'[i].id # turn'[d].n
                 /\ turn'[d].hit => turn'[d].previous \in 1..started'
                 /\ turn'[d].hit => turn'[d].previous \in 1..started
                 /\ d # c => turn[d].busy /\ turn'[d] = turn[d] /\ turn[d].n \in 1..started
      <3>1. CASE d = c
        <4>1. turn'[d].n = started + 1 /\ turn'[d].hit = hit /\ turn'[d].previous = previous
          BY <1>4, <1>5, <3>1
        <4>2. QED
          BY <1>1, <1>2, <2>2, <3>1, <4>1
      <3>2. CASE d # c
        <4>1. turn[d].busy /\ turn'[d] = turn[d]
          BY <1>5, <2>3, <3>2
        <4>2. /\ turn[d].n \in 1..started /\ ~Stored(turn[d].n)
              /\ turn[d].hit => turn[d].previous \in 1..started
          BY <4>1 DEF IInv, TurnsAreNew
        <4>3. \A i \in 1..Len(inner') : inner'[i].id # turn[d].n
          BY <4>2 DEF Stored
        <4>4. QED
          BY <1>1, <1>2, <3>2, <4>1, <4>2, <4>3
      <3>3. QED
        BY <3>1, <3>2
    <2>4. ASSUME NEW d \in Clients, NEW e \in Clients, turn'[d].busy, turn'[e].busy
          PROVE  /\ turn'[e].hit => turn'[e].previous # turn'[d].n
                 /\ turn'[d].n = turn'[e].n => d = e
      <3>1. CASE d = c
        <4>1. turn'[d].n = started + 1
          BY <1>4, <1>5, <3>1
        <4>2. QED
          BY <1>2, <2>3, <2>4, <3>1, <4>1
      <3>2. CASE d # c /\ e = c
        <4>1. turn'[e].n = started + 1 /\ turn'[e].hit = hit /\ turn'[e].previous = previous
          BY <1>4, <1>5, <3>2
        <4>2. turn'[d].n = turn[d].n /\ turn[d].n \in 1..started /\ ~Stored(turn[d].n)
          BY <2>3, <2>4, <3>2 DEF IInv, TurnsAreNew
        <4>3. QED
          BY <1>2, <4>1, <4>2
      <3>3. CASE d # c /\ e # c
        BY <2>3, <2>4, <3>3 DEF IInv, TurnsAreNew
      <3>4. QED
        BY <3>1, <3>2, <3>3
    <2>5. QED
      <3>1. \A i \in 1..Len(inner') : inner'[i].id <= started'
        BY <1>1, <1>2, <2>1
      <3>2. QED
        BY <2>3, <2>4, <3>1 DEF TurnsAreNew, Stored
  <1>9. TurnContinues'
    <2>1. ASSUME hit
          PROVE  /\ request.items = LastN(MaxItems, KnownThen(previous)) \o Input(started + 1)
                 /\ KnownThen(started + 1) = KnownThen(previous) \o Input(started + 1)
      <3>1. PICK i \in 1..Len(inner) : inner[i].id = previous /\ Entry(previous) = inner[i]
        BY <2>1, EntryPosition
      <3>2. Entry(previous).transcript = LastN(MaxItems, Known(previous))
        BY <3>1 DEF IInv, TranscriptIsTail
      <3>3. KnownThen(previous) = Known(previous)
        BY <1>known, <1>stored, <3>1
      <3>4. QED
        BY <1>4, <1>known, <2>1, <3>2, <3>3
    <2>2. ASSUME ~hit PROVE request.items = Input(started + 1) /\ KnownThen(started + 1) = Input(started + 1)
      <3>1. Input(started + 1) \in Seq(Items)
        BY <1>2, ItemTypes
      <3>2. QED
        BY <1>4, <1>known, <2>2, <3>1, ConcatEmptySeq
    <2>3. ASSUME NEW d \in Clients, d # c, turn[d].busy
          PROVE  /\ KnownThen(turn[d].n) = Known(turn[d].n)
                 /\ turn[d].hit => KnownThen(turn[d].previous) = Known(turn[d].previous)
      <3>1. turn[d].n \in 1..started /\ (turn[d].hit => turn[d].previous \in 1..started)
        BY <2>3 DEF IInv, TurnsAreNew
      <3>2. \A id \in 1..started : id \in Ids /\ id # started + 1
        BY <1>2
      <3> QED
        BY <1>known, <3>1, <3>2
    <2> SUFFICES ASSUME NEW d \in Clients, turn'[d].busy
                 PROVE  IF turn'[d].hit
                        THEN /\ turn'[d].items = LastN(MaxItems, KnownThen(turn'[d].previous)) \o Input(turn'[d].n)
                             /\ KnownThen(turn'[d].n) = KnownThen(turn'[d].previous) \o Input(turn'[d].n)
                        ELSE turn'[d].items = Input(turn'[d].n) /\ KnownThen(turn'[d].n) = Input(turn'[d].n)
      BY DEF TurnContinues, Known, KnownThen
    <2>4. CASE d = c
      BY <1>4, <1>5, <2>1, <2>2, <2>4
    <2>5. CASE d # c
      <3>1. turn'[d] = turn[d] /\ turn[d].busy
        BY <1>5, <2>5
      <3> QED
        BY <2>3, <2>5, <3>1 DEF IInv, TurnContinues
    <2> QED
      BY <2>4, <2>5
  <1>10. MissesForward'
    BY <1>4, <1>5 DEF IInv, MissesForward
  <1>11. QED
    BY <1>6, <1>7, <1>8, <1>9, <1>10, <1>known DEF IInv, DequeOK

\* An answered turn keeps the invariant.
LEMMA CompleteKeeps ==
    ASSUME IInv, NEW c \in Clients, Complete(c)
    PROVE  IInv'
  <1> DEFINE n == turn[c].n
  <1>1. PICK size \in OutputSizes :
           /\ whole' = [whole EXCEPT ![n] = whole[n] \o Output(n, size)]
           /\ IF turn[c].route \in {"local", "responses"}
              THEN CacheResponseState(n, turn[c].items \o Output(n, size))
              ELSE UNCHANGED <<inner, clock, used>>
    BY DEF Complete
  <1>2. turn[c].busy /\ turn' = [turn EXCEPT ![c] = Idle] /\ started' = started /\ restarts' = restarts /\ lost' = lost
    BY DEF Complete
  <1>3. turn[c] \in TurnType /\ Idle \in TurnType /\ ~Idle.busy
    BY DEF IInv, TypeOK, TurnType, Idle, NoId
  <1>4. n \in 1..started /\ n \in Ids /\ ~Stored(n)
    BY <1>2, StateAssumption DEF IInv, TurnsAreNew, TypeOK, Ids
  <1>5. /\ turn[c].items \in Seq(Items) /\ whole[n] \in Seq(Items) /\ lost[n] \in 0..Len(whole[n])
        /\ Output(n, size) \in Seq(Items) /\ Input(n) \in Seq(Items)
        /\ turn[c].items \o Output(n, size) \in Seq(Items)
        /\ whole[n] \o Output(n, size) \in Seq(Items)
    <2>1. turn[c].items \in Seq(Items)
      BY <1>3 DEF TurnType
    <2>2. Output(n, size) \in Seq(Items) /\ Input(n) \in Seq(Items)
      BY <1>4, ItemTypes, StateAssumption
    <2>3. whole[n] \in Seq(Items) /\ lost[n] \in 0..Len(whole[n])
      BY <1>4 DEF IInv, TypeOK, LossFits
    <2>4. QED
      BY <2>1, <2>2, <2>3
  <1> HIDE DEF n
  <1>6. /\ whole' \in [Ids -> Seq(Items)]
        /\ Known(n) \in Seq(Items)
        /\ KnownThen(n) = Known(n) \o Output(n, size)
        /\ \A id \in Ids : id # n => KnownThen(id) = Known(id)
        /\ LossFits'
    <2>1. /\ whole' \in [Ids -> Seq(Items)]
          /\ whole'[n] = whole[n] \o Output(n, size)
          /\ \A id \in Ids : id # n => whole'[id] = whole[id]
      BY <1>1, <1>4, <1>5 DEF IInv, TypeOK
    <2>2. Known(n) \in Seq(Items) /\ KnownThen(n) = Known(n) \o Output(n, size)
      <3>1. lost[n] \in 0..Len(whole[n]) /\ whole[n] \in Seq(Items) /\ Output(n, size) \in Seq(Items)
        BY <1>5
      <3>2. /\ SubSeq(whole'[n], lost[n] + 1, Len(whole'[n])) = SubSeq(whole[n], lost[n] + 1, Len(whole[n])) \o Output(n, size)
            /\ SubSeq(whole[n], lost[n] + 1, Len(whole[n])) \in Seq(Items)
        BY <2>1, <3>1, RestOfItems
      <3> QED
        BY <1>2, <3>2 DEF Known, KnownThen
    <2>3. \A id \in Ids : id # n => KnownThen(id) = Known(id)
      BY <1>2, <2>1 DEF Known, KnownThen
    <2>4. Len(whole'[n]) = Len(whole[n]) + Len(Output(n, size)) /\ Len(Output(n, size)) \in Nat
      BY <1>5, <2>1
    <2>5. LossFits'
      <3>1. ASSUME NEW id \in Ids PROVE lost[id] <= Len(whole'[id])
        <4>1. CASE id = n
          BY <1>5, <2>1, <2>4, <4>1
        <4>2. CASE id # n
          BY <2>1, <4>2 DEF IInv, LossFits
        <4> QED
          BY <4>1, <4>2
      <3> QED
        BY <1>2, <3>1 DEF LossFits
    <2> QED
      BY <2>1, <2>2, <2>3, <2>5
  <1>7. /\ DequeOK'
        /\ \A j \in 1..Len(inner') :
              \/ inner'[j] = [id |-> n, transcript |-> LastN(MaxItems, turn[c].items \o Output(n, size))]
              \/ \E i \in 1..Len(inner) : inner'[j] = inner[i]
    <2>1. CASE turn[c].route \in {"local", "responses"}
      BY <1>1, <1>4, <1>5, <2>1, IInvDeque, CacheKeeps
    <2>2. CASE turn[c].route \notin {"local", "responses"}
      <3>1. inner' = inner /\ clock' = clock /\ used' = used
        BY <1>1, <2>2
      <3>2. DequeOK'
        BY <3>1, IInvDeque
           DEF DequeOK, StoreBounded, InOrderOfUse, KeepsMostRecentlyUsed, Stored
      <3>3. QED
        BY <3>1, <3>2
    <2>3. QED
      BY <2>1, <2>2
  <1>8. LastN(MaxItems, turn[c].items \o Output(n, size)) = LastN(MaxItems, KnownThen(n))
    <2>1. CASE turn[c].hit
      <3>1. PICK w \in Seq(Items) :
               turn[c].items = LastN(MaxItems, w) \o Input(n) /\ Known(n) = w \o Input(n)
        <4>1. turn[c].previous \in Ids
          BY <1>2, <2>1, StateAssumption DEF IInv, TurnsAreNew, TypeOK, Ids
        <4>2. Known(turn[c].previous) \in Seq(Items)
          <5>1. /\ whole[turn[c].previous] \in Seq(Items)
                /\ lost[turn[c].previous] \in 0..Len(whole[turn[c].previous])
            BY <4>1 DEF IInv, TypeOK, LossFits
          <5> QED
            BY <1>5, <5>1, RestOfItems DEF Known
        <4>3. QED
          BY <1>2, <2>1, <4>2 DEF IInv, TurnContinues, n
      <3>2. LastN(MaxItems, w) \in Seq(Items)
        BY LastNElements, StateAssumption
      <3>in. Input(n) \in Seq(Items) /\ Output(n, size) \in Seq(Items)
        BY <1>5
      <3>3. turn[c].items \o Output(n, size) = LastN(MaxItems, w) \o (Input(n) \o Output(n, size))
        <4>1. turn[c].items = LastN(MaxItems, w) \o Input(n)
          BY <3>1
        <4> QED
          BY <3>in, <3>2, <4>1, ItemsAssociative
      <3>4. Known(n) \o Output(n, size) = w \o (Input(n) \o Output(n, size))
        <4>1. Known(n) = w \o Input(n)
          BY <3>1
        <4> QED
          BY <3>in, <4>1, ItemsAssociative
      <3>5. Input(n) \o Output(n, size) \in Seq(Items)
        BY <1>5
      <3>6. LastN(MaxItems, LastN(MaxItems, w) \o (Input(n) \o Output(n, size)))
               = LastN(MaxItems, w \o (Input(n) \o Output(n, size)))
        BY <3>5, LastNConcat, StateAssumption
      <3>7. QED
        BY <1>6, <3>3, <3>4, <3>6
    <2>2. CASE ~turn[c].hit
      BY <1>2, <1>6, <2>2 DEF IInv, TurnContinues, n
    <2>3. QED
      BY <2>1, <2>2
  <1>9. /\ turn' \in [Clients -> TurnType] /\ ~turn'[c].busy
        /\ \A d \in Clients : d # c => turn'[d] = turn[d]
    BY <1>2, <1>3 DEF IInv, TypeOK
  <1>10. TypeOK'
    BY <1>2, <1>6, <1>7, <1>9 DEF IInv, DequeOK, TypeOK
  <1>11. \A i \in 1..Len(inner) : inner[i].id \in Ids /\ inner[i].id # n /\ inner[i].id <= started
    <2>1. \A i \in 1..Len(inner) : inner[i] \in StoreEntry
      BY DEF IInv, TypeOK
    <2>2. QED
      BY <1>4, <2>1 DEF Stored, StoreEntry, IInv, TurnsAreNew
  <1>12. TranscriptIsTail'
    <2> SUFFICES ASSUME NEW j \in 1..Len(inner')
                 PROVE  inner'[j].transcript = LastN(MaxItems, KnownThen(inner'[j].id))
      BY DEF TranscriptIsTail, Known, KnownThen
    <2>1. CASE inner'[j] = [id |-> n, transcript |-> LastN(MaxItems, turn[c].items \o Output(n, size))]
      <3>1. /\ inner'[j].id = n
            /\ inner'[j].transcript = LastN(MaxItems, turn[c].items \o Output(n, size))
        BY <2>1
      <3>2. QED
        BY <1>8, <3>1
    <2>2. CASE \E i \in 1..Len(inner) : inner'[j] = inner[i]
      BY <1>6, <1>11, <2>2 DEF IInv, TranscriptIsTail
    <2>3. QED
      BY <1>7, <2>1, <2>2
  <1>13. TurnsAreNew'
    <2>1. \A j \in 1..Len(inner') : inner'[j].id <= started'
      BY <1>2, <1>4, <1>7, <1>11
    <2>2. ASSUME NEW d \in Clients, turn'[d].busy
          PROVE  /\ d # c /\ turn'[d] = turn[d] /\ turn[d].busy /\ turn[d].n \in 1..started
                 /\ turn[d].hit => turn[d].previous \in 1..started
                 /\ \A j \in 1..Len(inner') : inner'[j].id # turn[d].n
      <3>1. d # c /\ turn'[d] = turn[d] /\ turn[d].busy
        BY <1>9, <2>2
      <3>2. turn[d].n # n /\ turn[d].n \in 1..started /\ (turn[d].hit => turn[d].previous \in 1..started)
        BY <1>2, <3>1 DEF IInv, TurnsAreNew, n
      <3>3. \A i \in 1..Len(inner) : inner[i].id # turn[d].n
        BY <3>1 DEF IInv, TurnsAreNew, Stored
      <3>4. QED
        BY <1>7, <3>1, <3>2, <3>3
    <2>3. \A d, e \in Clients : turn'[d].busy /\ turn'[e].busy =>
             /\ turn'[e].hit => turn'[e].previous # turn'[d].n
             /\ turn'[d].n = turn'[e].n => d = e
      BY <2>2 DEF IInv, TurnsAreNew
    <2>4. QED
      BY <1>2, <2>1, <2>2, <2>3 DEF TurnsAreNew, Stored
  <1>14. TurnContinues'
    <2> SUFFICES ASSUME NEW d \in Clients, turn'[d].busy
                 PROVE  IF turn'[d].hit
                        THEN /\ turn'[d].items = LastN(MaxItems, KnownThen(turn'[d].previous)) \o Input(turn'[d].n)
                             /\ KnownThen(turn'[d].n) = KnownThen(turn'[d].previous) \o Input(turn'[d].n)
                        ELSE turn'[d].items = Input(turn'[d].n) /\ KnownThen(turn'[d].n) = Input(turn'[d].n)
      BY DEF TurnContinues, Known, KnownThen
    <2>1. turn'[d] = turn[d] /\ turn[d].busy
      BY <1>9
    <2>2. /\ turn[d].hit => KnownThen(turn'[d].previous) = Known(turn[d].previous)
          /\ KnownThen(turn'[d].n) = Known(turn[d].n)
      <3>1. /\ turn[d].hit => turn[d].previous \in 1..started /\ turn[d].previous # n
            /\ turn[d].n \in 1..started /\ turn[d].n # n
        BY <1>2, <1>9, <2>1 DEF IInv, TurnsAreNew, n
      <3>2. 1..started \subseteq Ids
        BY StateAssumption DEF IInv, TypeOK, Ids
      <3>3. QED
        BY <1>6, <2>1, <3>1, <3>2
    <2>3. QED
      BY <2>1, <2>2 DEF IInv, TurnContinues
  <1>15. MissesForward'
    BY <1>9 DEF IInv, MissesForward
  <1>16. QED
    BY <1>6, <1>7, <1>10, <1>12, <1>13, <1>14, <1>15 DEF IInv, DequeOK

\* An abandoned turn leaves nothing behind.
LEMMA AbandonKeeps ==
    ASSUME IInv, NEW c \in Clients, Abandon(c)
    PROVE  IInv'
  <1>1. UNCHANGED <<inner, started, restarts, whole, lost, clock, used>> /\ turn' = [turn EXCEPT ![c] = Idle]
    BY DEF Abandon
  <1>2. Idle \in TurnType /\ ~Idle.busy
    BY DEF TurnType, Idle, NoId
  <1>3. /\ turn' \in [Clients -> TurnType] /\ ~turn'[c].busy
        /\ \A d \in Clients : d # c => turn'[d] = turn[d]
    BY <1>1, <1>2 DEF IInv, TypeOK
  <1>4. TypeOK'
    BY <1>1, <1>3 DEF IInv, TypeOK
  <1>5. StoreBounded' /\ LossFits' /\ TranscriptIsTail' /\ InOrderOfUse' /\ KeepsMostRecentlyUsed'
    BY <1>1 DEF IInv, StoreBounded, LossFits, TranscriptIsTail, Known, InOrderOfUse, KeepsMostRecentlyUsed, Stored
  <1>6. TurnsAreNew'
    BY <1>1, <1>3 DEF IInv, TurnsAreNew, Stored
  <1>7. TurnContinues' /\ MissesForward'
    BY <1>1, <1>3 DEF IInv, TurnContinues, Known, MissesForward
  <1>8. QED
    BY <1>4, <1>5, <1>6, <1>7 DEF IInv

\* An empty deque, and nobody at work: the start, and every restart.
LEMMA EmptyKeeps ==
    ASSUME inner' = <<>>, turn' = [c \in Clients |-> Idle], clock' = 0, used' = [id \in Ids |-> 0],
           started' \in 0..MaxTurns, restarts' \in 0..MaxRestarts, whole' \in [Ids -> Seq(Items)],
           lost' \in [Ids -> Nat], LossFits'
    PROVE  IInv'
  <1>1. Idle \in TurnType /\ ~Idle.busy
    BY DEF TurnType, Idle, NoId
  <1>2. turn' \in [Clients -> TurnType] /\ \A c \in Clients : ~turn'[c].busy
    BY <1>1
  <1>3. inner' \in Seq(StoreEntry) /\ Len(inner') = 0
    OBVIOUS
  <1>4. TypeOK'
    BY <1>2, <1>3 DEF TypeOK
  <1>5. StoreBounded' /\ TranscriptIsTail' /\ InOrderOfUse' /\ KeepsMostRecentlyUsed'
    BY <1>3, StateAssumption DEF StoreBounded, TranscriptIsTail, InOrderOfUse, KeepsMostRecentlyUsed
  <1>6. TurnsAreNew'
    BY <1>2, <1>3 DEF TurnsAreNew
  <1>7. TurnContinues'
    BY <1>2 DEF TurnContinues
  <1>8. MissesForward'
    BY <1>2 DEF MissesForward
  <1>9. QED
    BY <1>4, <1>5, <1>6, <1>7, <1>8 DEF IInv


\* The start satisfies the invariant.
LEMMA InitIInv == Init => IInv
  <1> SUFFICES ASSUME Init PROVE IInv
    OBVIOUS
  <1>1. Idle \in TurnType /\ ~Idle.busy
    BY DEF TurnType, Idle, NoId
  <1>2. turn \in [Clients -> TurnType] /\ \A c \in Clients : ~turn[c].busy
    BY <1>1 DEF Init
  <1>3. inner \in Seq(StoreEntry) /\ Len(inner) = 0
    BY DEF Init
  <1>4. TypeOK
    BY <1>2, <1>3, StateAssumption DEF Init, TypeOK
  <1>5. StoreBounded /\ LossFits /\ TranscriptIsTail
    BY <1>3, StateAssumption DEF Init, StoreBounded, LossFits, TranscriptIsTail
  <1>6. InOrderOfUse /\ KeepsMostRecentlyUsed
    BY <1>3 DEF Init, InOrderOfUse, KeepsMostRecentlyUsed
  <1>7. TurnsAreNew
    BY <1>2, <1>3 DEF TurnsAreNew
  <1>8. TurnContinues /\ MissesForward
    BY <1>2 DEF TurnContinues, MissesForward
  <1>9. QED
    BY <1>4, <1>5, <1>6, <1>7, <1>8 DEF IInv

\* Every step keeps the invariant.
LEMMA NextIInv == IInv /\ [Next]_vars => IInv'
  <1> SUFFICES ASSUME IInv, [Next]_vars PROVE IInv'
    OBVIOUS
  <1>1. ASSUME inner' = inner, clock' = clock, used' = used
        PROVE  DequeOK' /\ \A j \in 1..Len(inner') : \E i \in 1..Len(inner) : inner'[j] = inner[i]
    BY <1>1, IInvDeque DEF DequeOK, StoreBounded, InOrderOfUse, KeepsMostRecentlyUsed, Stored
  <1>2. ASSUME NEW c \in Clients, NEW route \in Routes, FirstTurn(c, route) PROVE IInv'
    <2>1. /\ Begin(c, Prepared(route, NoId, FALSE, NoId))
          /\ inner' = inner /\ clock' = clock /\ used' = used
      BY <1>2 DEF FirstTurn
    <2>2. QED
      BY <1>1, <2>1, BeginKeeps
  <1>3. 1..started \subseteq Ids
    BY StateAssumption DEF IInv, TypeOK, Ids
  <1>4. ASSUME NEW c \in Clients, NEW route \in Routes, NEW previous \in 1..started,
               FollowUpHit(c, route, previous)
        PROVE  IInv'
    <2>1. /\ Stored(previous) /\ Begin(c, Prepared(route, previous, TRUE, NoId))
          /\ GetCachedResponseState(previous)
      BY <1>4 DEF FollowUpHit
    <2>2. DequeOK' /\ \A j \in 1..Len(inner') : \E i \in 1..Len(inner) : inner'[j] = inner[i]
      BY <1>3, <2>1, IInvDeque, GetKeeps
    <2>3. QED
      BY <1>3, <2>1, <2>2, BeginKeeps
  <1>5. ASSUME NEW c \in Clients, NEW route \in Routes, NEW previous \in 1..started,
               FollowUpMiss(c, route, previous)
        PROVE  IInv'
    <2> DEFINE forwarded == IF route = "chat" THEN NoId ELSE previous
    <2>1. /\ route # "local" /\ Begin(c, Prepared(route, previous, FALSE, forwarded))
          /\ inner' = inner /\ clock' = clock /\ used' = used
      BY <1>5 DEF FollowUpMiss
    <2>2. forwarded \in Ids \union {NoId} /\ (route = "chat" \/ forwarded = previous)
      BY <1>3
    <2> HIDE DEF forwarded
    <2>3. QED
      BY <1>1, <1>3, <2>1, <2>2, BeginKeeps
  <1>6. CASE Restart
    <2>1. /\ inner' = <<>> /\ turn' = [c \in Clients |-> Idle] /\ clock' = 0
          /\ used' = [id \in Ids |-> 0] /\ started' = started /\ whole' = whole /\ lost' = lost
          /\ restarts < MaxRestarts /\ restarts' = restarts + 1
      BY <1>6 DEF Restart
    <2>2. restarts' \in 0..MaxRestarts /\ started' \in 0..MaxTurns /\ whole' \in [Ids -> Seq(Items)]
      BY <2>1, StateAssumption DEF IInv, TypeOK
    <2>3. lost' \in [Ids -> Nat] /\ LossFits'
      BY <2>1 DEF IInv, TypeOK, LossFits
    <2>4. QED
      BY <2>1, <2>2, <2>3, EmptyKeeps
  <1>7. CASE UNCHANGED vars
    BY <1>7 DEF vars, IInv, TypeOK, StoreBounded, LossFits, TranscriptIsTail, Known, TurnsAreNew,
         TurnContinues, MissesForward, InOrderOfUse, KeepsMostRecentlyUsed, Stored
  <1>8. QED
    BY <1>2, <1>4, <1>5, <1>6, <1>7, CompleteKeeps, AbandonKeeps DEF Next

\* The invariant holds throughout.
THEOREM Invariant == Spec => []IInv
  BY InitIInv, NextIInv, PTL DEF Spec

\* The store keeps within its two limits and holds no response twice.
THEOREM StoreBoundedHolds == Spec => []StoreBounded
  <1>1. IInv => StoreBounded
    BY DEF IInv
  <1>2. QED
    BY <1>1, Invariant, PTL

\* What cache_response_state remembers of a response is the end of its own
\* conversation, across any number of cuts, branches, evictions and restarts.
THEOREM TranscriptIsTailHolds == Spec => []TranscriptIsTail
  <1>1. IInv => TranscriptIsTail
    BY DEF IInv
  <1>2. QED
    BY <1>1, Invariant, PTL

\* expand_previous_response sends a follow-up on with its history or its id,
\* unless the turn is translated to chat.
THEOREM HistoryReachesUpstreamHolds == Spec => []HistoryReachesUpstream
  <1>1. IInv => HistoryReachesUpstream
    BY DEF IInv, TurnContinues, MissesForward, HistoryReachesUpstream
  <1>2. QED
    BY <1>1, Invariant, PTL

\* The store forgets in the order of last use, and only when it is full.
THEOREM KeepsMostRecentlyUsedHolds == Spec => []KeepsMostRecentlyUsed
  <1>1. IInv => KeepsMostRecentlyUsed
    BY DEF IInv
  <1>2. QED
    BY <1>1, Invariant, PTL
-----------------------------------------------------------------------------
\* Frames are of messages that were read, and a turn has none before its
\* backend is connected.
NoneEarly ==
    \A k \in DOMAIN got :
        /\ 0 < got[k].turn /\ got[k].turn <= read
        /\ stage \in {"preparing", "connecting"} => got[k].turn < read

\* Nor has its backend said anything.
NothingSentEarly ==
    \A n \in DOMAIN sent :
        n > read \/ (n = read /\ stage \in {"preparing", "connecting"}) => sent[n] = <<>>

Turning == stage \in {"preparing", "connecting", "bridging"} => read > 0 /\ asked[read] = "turn"

\* Nothing is on its way without a backend.
Unwired == stage # "bridging" => wire = <<>>

\* c messages of the backend are dealt with: the texts among them are all the
\* client has of the turn, and the rest of the messages is on its way.
DealtWith(c) ==
    /\ c + Len(wire) <= Len(sent[read])
    /\ backend # "broken" => c + Len(wire) = Len(sent[read])
    /\ \A k \in DOMAIN wire : wire[k] = c + k
    /\ \A k \in DOMAIN got : got[k].turn = read => ~Terminal(got[k].kind) /\ got[k].from \in 1..c
    /\ here => \A p \in 1..c : IsText(read, p) => Relayed(read, p)

Bridged == stage = "bridging" => \E c \in Nat : DealtWith(c)

Underway ==
    /\ NoneEarly
    /\ NothingSentEarly
    /\ Turning
    /\ Unwired
    /\ Bridged

SocketIInv ==
    /\ SocketTypeOK
    /\ Underway
    /\ TurnsRelayed
-----------------------------------------------------------------------------
\* A connection begins with nothing read, said or relayed.
LEMMA SocketInitially == SocketInit => SocketIInv
<1> SUFFICES ASSUME SocketInit PROVE SocketIInv
  OBVIOUS
<1>1. SocketTypeOK
  <2>1. wire \in Seq(Nat) /\ got \in Seq(Frames) /\ asked \in Seq(MessageKinds)
    BY DEF SocketInit
  <2>2. sent \in Seq(Seq(FrameKinds)) /\ Len(sent) = Len(asked) /\ read \in 0..Len(asked)
    BY DEF SocketInit
  <2>3. given \in BOOLEAN /\ here \in BOOLEAN
    BY DEF SocketInit
  <2> QED
    BY <2>1, <2>2, <2>3 DEF SocketInit, SocketTypeOK
<1>2. DOMAIN got = {} /\ DOMAIN asked = {} /\ DOMAIN sent = {}
  BY DEF SocketInit
<1>3. NoneEarly /\ NothingSentEarly /\ TurnsRelayed
  BY <1>2 DEF NoneEarly, NothingSentEarly, InOrder, AsSent, TurnsRelayed
<1>4. Turning /\ Unwired /\ Bridged
  BY DEF SocketInit, Turning, Unwired, Bridged
<1> QED
  BY <1>1, <1>3, <1>4 DEF SocketIInv, Underway

\* However a turn ends, nothing of its backend is left.
LEMMA TurnEnded ==
    ASSUME SocketTypeOK, NEW next \in {"reading", "over"}, EndTurn(next),
           UNCHANGED <<read, asked, here, sent>>, got' \in Seq(Frames)
    PROVE  SocketTypeOK'
<1>1. wire' \in Seq(Nat)
  BY DEF EndTurn
<1>2. backend' = "none" /\ stage' \in {"reading", "over"} /\ given' \in BOOLEAN
  BY DEF EndTurn
<1>3. here' \in BOOLEAN /\ read' \in 0..Len(asked') /\ asked' \in Seq(MessageKinds)
  BY DEF SocketTypeOK
<1>4. sent' \in Seq(Seq(FrameKinds)) /\ Len(sent') = Len(asked')
  BY DEF SocketTypeOK
<1> QED
  BY <1>1, <1>2, <1>3, <1>4 DEF SocketTypeOK

\* A message is answered with nothing, an error, or a turn of two frames.
LEMMA Replies ==
    ASSUME NEW kind \in MessageKinds
    PROVE  Reply(kind) \in {<<>>, <<"error">>, <<"created", "completed">>}
BY DEF Reply, MessageKinds

\* Every action keeps the types.
LEMMA TypePreserved == SocketTypeOK /\ Turning /\ Bridged /\ [SocketNext]_socketVars => SocketTypeOK'
<1> SUFFICES ASSUME SocketTypeOK, Turning, Bridged, [SocketNext]_socketVars PROVE SocketTypeOK'
  OBVIOUS
<1> USE BoundsAssumption
<1>1. CASE ReadMessage
  <2> DEFINE kind   == asked[read']
             reply  == Reply(kind)
             frames == [k \in DOMAIN reply |-> [turn |-> read', from |-> 0, kind |-> reply[k]]]
  <2>1. kind \in MessageKinds /\ read' \in 1..Len(asked)
    BY <1>1 DEF ReadMessage, SocketTypeOK
  <2>2. Len(reply) \in Nat /\ DOMAIN reply = 1..Len(reply)
    BY <2>1, Replies
  <2>3. \A k \in DOMAIN reply : reply[k] \in {"error", "created", "completed"}
    BY <2>1, Replies
  <2> HIDE DEF reply
  <2>5. \A k \in 1..Len(reply) : [turn |-> read', from |-> 0, kind |-> reply[k]] \in Frames
    BY <2>1, <2>2, <2>3 DEF Frames, FrameKinds
  <2>6. frames \in Seq(Frames)
    BY <2>2, <2>5
  <2>4. got' \in Seq(Frames)
    BY <2>6, <1>1 DEF ReadMessage, Deliver, SocketTypeOK, reply
  <2> QED
    BY <2>1, <2>4, <1>1 DEF ReadMessage, SocketTypeOK
<1>2. CASE SeeClientGone
  BY <1>2 DEF SeeClientGone, SocketTypeOK
<1>3. CASE Relay
  <2>1. wire # <<>> /\ stage = "bridging"
    BY <1>3 DEF Relay
  <2>2. Head(wire) \in DOMAIN sent[read] /\ read \in 1..Len(sent)
    <3>1. PICK c \in Nat : DealtWith(c)
      BY <2>1 DEF Bridged
    <3>2. read \in 1..Len(sent) /\ sent[read] \in Seq(FrameKinds)
      BY <2>1 DEF Turning, SocketTypeOK
    <3>3. wire \in Seq(Nat) /\ Len(wire) \in Nat /\ Len(wire) > 0
      BY <2>1 DEF SocketTypeOK
    <3>4. Head(wire) = c + 1 /\ c + Len(wire) <= Len(sent[read])
      BY <3>1, <3>3 DEF DealtWith
    <3> QED
      BY <3>2, <3>3, <3>4
  <2>3. Tail(wire) \in Seq(Nat)
    BY <2>1 DEF SocketTypeOK
  <2>4. CASE RelayText(Head(wire))
    <3>1. sent[read][Head(wire)] \in FrameKinds
      BY <2>2 DEF SocketTypeOK
    <3>2. Frame(sent[read][Head(wire)], Head(wire)) \in Frames
      BY <3>1, <2>2, SMTT(30) DEF Frame, Frames, SocketTypeOK
    <3>3. got' \in Seq(Frames)
      BY <3>2, <2>4 DEF RelayText, Deliver, SocketTypeOK
    <3>4. CASE Terminal(sent[read][Head(wire)])
      BY <3>3, <3>4, <2>4, <1>3, TurnEnded DEF RelayText, Relay
    <3>5. CASE ~Terminal(sent[read][Head(wire)])
      BY <3>3, <3>5, <2>3, <2>4, <1>3 DEF RelayText, Relay, SocketTypeOK
    <3> QED
      BY <3>4, <3>5
  <2>5. CASE SkipOther(Head(wire))
    BY <2>5, <2>3, <1>3 DEF SkipOther, Relay, SocketTypeOK
  <2>6. CASE RelayFails(Head(wire))
    <3>1. got' \in Seq(Frames)
      BY <2>6 DEF RelayFails, SocketTypeOK
    <3> QED
      BY <3>1, <2>6, <1>3, TurnEnded DEF RelayFails, Relay
  <2> QED
    BY <1>3, <2>4, <2>5, <2>6 DEF Relay
<1>4. CASE SeeBackendClosed
  BY <1>4 DEF SeeBackendClosed, EndTurn, SocketTypeOK
<1>5. CASE SeeBackendBroken
  <2>1. Frame("error", 0) \in Frames
    BY DEF Frame, Frames, FrameKinds, SocketTypeOK
  <2>2. got' \in Seq(Frames)
    BY <2>1, <1>5 DEF SeeBackendBroken, Deliver, SocketTypeOK
  <2> QED
    BY <2>2, <1>5, TurnEnded DEF SeeBackendBroken
<1>14. CASE ConnectFails
  <2>1. Frame("error", 0) \in Frames
    BY DEF Frame, Frames, FrameKinds, SocketTypeOK
  <2>2. got' \in Seq(Frames)
    BY <2>1, <1>14 DEF ConnectFails, Deliver, SocketTypeOK
  <2> QED
    BY <2>2, <1>14, TurnEnded DEF ConnectFails
<1>6. CASE Prepare
  BY <1>6 DEF Prepare, SocketTypeOK
<1>7. CASE Connect
  BY <1>7 DEF Connect, SocketTypeOK
<1>8. CASE \E kind \in MessageKinds : ClientSends(kind)
  <2>1. sent' \in Seq(Seq(FrameKinds)) /\ Len(sent') = Len(asked')
    BY <1>8 DEF ClientSends, SocketTypeOK
  <2> QED
    BY <2>1, <1>8 DEF ClientSends, SocketTypeOK, handlerVars
<1>9. CASE ClientLeaves
  BY <1>9 DEF ClientLeaves, SocketTypeOK, handlerVars
<1>10. CASE \E kind \in FrameKinds : BackendSends(kind)
  <2>1. read \in DOMAIN sent
    BY <1>10 DEF BackendSends, SocketTypeOK, Turning
  <2> QED
    BY <2>1, <1>10 DEF BackendSends, SocketTypeOK
<1>11. CASE BackendCloses
  BY <1>11 DEF BackendCloses, SocketTypeOK
<1>12. CASE BackendBreaks
  BY <1>12 DEF BackendBreaks, SocketTypeOK
<1>13. CASE UNCHANGED socketVars
  BY <1>13 DEF socketVars, handlerVars, SocketTypeOK
<1> QED
  BY <1>1, <1>2, <1>3, <1>4, <1>5, <1>6, <1>7, <1>8, <1>9, <1>10, <1>11, <1>12, <1>13, <1>14 DEF SocketNext, Handle
-----------------------------------------------------------------------------
\* A frame is of a message that was read, for which there is a record of what
\* its backend sent.
LEMMA FramesAreOfTurns ==
    ASSUME SocketTypeOK, NoneEarly, NEW k \in DOMAIN got
    PROVE  /\ got[k] \in Frames /\ got[k].from \in Nat /\ got[k].turn \in Nat
           /\ got[k].turn \in DOMAIN sent
<1>1. got[k] \in Frames
  BY DEF SocketTypeOK
<1>2. got[k].turn \in Nat /\ got[k].from \in Nat
  BY <1>1 DEF Frames
<1>3. got[k].turn \in 1..Len(sent)
  BY <1>2 DEF SocketTypeOK, NoneEarly
<1> QED
  BY <1>1, <1>2, <1>3 DEF SocketTypeOK

\* Steps that tell the client nothing leave what it was told.
LEMMA NothingTold ==
    ASSUME SocketIInv, UNCHANGED <<got, sent>>
    PROVE  InOrder' /\ AsSent'
BY DEF SocketIInv, TurnsRelayed, InOrder, AsSent, IsText, Relayed

\* A turn that was whole stays whole while nobody says anything.
LEMMA StaysWhole ==
    ASSUME SocketIInv, UNCHANGED <<got, sent, asked, here, read>>,
           stage' = "reading" => stage = "reading"
    PROVE  \A n \in DOMAIN asked' : Whole(n)'
BY DEF SocketIInv, TurnsRelayed, Whole, Done, Answered, Relayed, IsText

LEMMA PrepareKeeps == SocketIInv /\ Prepare => Underway' /\ TurnsRelayed'
<1> SUFFICES ASSUME SocketIInv, Prepare PROVE Underway' /\ TurnsRelayed'
  OBVIOUS
<1>1. Underway'
  BY DEF SocketIInv, Underway, Prepare, NoneEarly, NothingSentEarly, Turning, Unwired, Bridged
<1> QED
  BY <1>1, NothingTold, StaysWhole DEF Prepare, TurnsRelayed

LEMMA GoneKeeps == SocketIInv /\ SeeClientGone => Underway' /\ TurnsRelayed'
<1> SUFFICES ASSUME SocketIInv, SeeClientGone PROVE Underway' /\ TurnsRelayed'
  OBVIOUS
<1>1. Underway'
  BY DEF SocketIInv, Underway, SeeClientGone, NoneEarly, NothingSentEarly, Turning, Unwired, Bridged
<1> QED
  BY <1>1, NothingTold, StaysWhole DEF SeeClientGone, TurnsRelayed

\* A backend that was just connected has said nothing, and the client was told
\* nothing of the turn.
LEMMA ConnectKeeps == SocketIInv /\ Connect => Underway' /\ TurnsRelayed'
<1> SUFFICES ASSUME SocketIInv, Connect PROVE Underway' /\ TurnsRelayed'
  OBVIOUS
<1> USE DEF SocketIInv, Underway
<1>1. NoneEarly' /\ NothingSentEarly' /\ Turning' /\ Unwired'
  BY DEF Connect, NoneEarly, NothingSentEarly, Turning, Unwired
<1>2. wire = <<>>
  BY DEF Connect, Unwired
<1>3. read \in DOMAIN sent /\ sent[read] = <<>>
  BY DEF Connect, Turning, NothingSentEarly, SocketTypeOK
<1>4. \A k \in DOMAIN got : got[k].turn # read
  BY DEF Connect, NoneEarly, SocketTypeOK, Frames
<1>5. DealtWith(0)'
  BY <1>2, <1>3, <1>4 DEF DealtWith, Connect
<1>6. Bridged'
  BY <1>5 DEF Bridged
<1> QED
  BY <1>1, <1>6, NothingTold, StaysWhole DEF Connect, TurnsRelayed

\* The backend's next message joins those on their way.
LEMMA SendKeeps ==
    ASSUME SocketIInv, NEW kind \in FrameKinds, BackendSends(kind)
    PROVE  Underway' /\ TurnsRelayed'
<1> USE DEF SocketIInv, Underway
<1>1. read \in DOMAIN sent /\ sent[read] \in Seq(FrameKinds) /\ stage = "bridging"
  BY DEF BackendSends, Turning, SocketTypeOK
<1>2. /\ DOMAIN sent' = DOMAIN sent /\ \A n \in DOMAIN sent : n # read => sent'[n] = sent[n]
      /\ sent'[read] = Append(sent[read], kind)
  BY <1>1 DEF BackendSends, SocketTypeOK
<1>3. /\ Len(sent'[read]) = Len(sent[read]) + 1
      /\ \A p \in DOMAIN sent[read] : p \in DOMAIN sent'[read] /\ sent'[read][p] = sent[read][p]
  BY <1>1, <1>2
<1>4. NoneEarly' /\ NothingSentEarly' /\ Turning' /\ Unwired'
  BY <1>1, <1>2 DEF BackendSends, NoneEarly, NothingSentEarly, Turning, Unwired
<1>5. PICK c \in Nat : DealtWith(c)
  BY <1>1 DEF Bridged
<1>6. wire' = Append(wire, Len(sent[read]) + 1) /\ wire \in Seq(Nat)
  BY <1>3 DEF BackendSends, SocketTypeOK
<1>7. c + Len(wire) = Len(sent[read])
  BY <1>5 DEF DealtWith, BackendSends
<1>8. \A k \in DOMAIN wire' : wire'[k] = c + k
  <2>1. Len(wire) \in Nat /\ DOMAIN wire' = 1..(Len(wire) + 1)
    BY <1>6
  <2>2. \A k \in 1..Len(wire) : wire'[k] = wire[k] /\ wire[k] = c + k
    BY <1>5, <1>6 DEF DealtWith
  <2>3. Len(sent[read]) + 1 \in Nat
    BY <1>1
  <2>4. wire'[Len(wire) + 1] = Len(sent[read]) + 1
    BY <1>6, <2>3
  <2>5. \A k \in DOMAIN wire' : k \in 1..Len(wire) \/ k = Len(wire) + 1
    BY <2>1
  <2>6. wire'[Len(wire) + 1] = c + (Len(wire) + 1)
    BY <1>5, <1>7, <2>1, <2>3, <2>4
  <2> QED
    BY <2>2, <2>5, <2>6
<1>9. \A p \in 1..c : sent'[read][p] = sent[read][p]
  BY <1>1, <1>3, <1>6, <1>7
<1>10. DealtWith(c)'
  <2>1. UNCHANGED <<read, backend, got, here>> /\ backend = "open"
    BY DEF BackendSends
  <2>2. c + Len(wire') = Len(sent'[read])
    BY <1>3, <1>6, <1>7, SMTT(30)
  <2>3. here' => \A p \in 1..c : IsText(read, p)' => Relayed(read, p)'
    BY <1>5, <1>9, <2>1 DEF DealtWith, IsText, Relayed
  <2>4. \A k \in DOMAIN got' : got'[k].turn = read' => ~Terminal(got'[k].kind) /\ got'[k].from \in 1..c
    BY <1>5, <2>1 DEF DealtWith
  <2>5. Len(sent'[read]) \in Nat
    BY <1>1, <1>3
  <2> QED
    BY <1>8, <2>1, <2>2, <2>3, <2>4, <2>5 DEF DealtWith
<1>11. InOrder'
  BY DEF BackendSends, TurnsRelayed, InOrder
<1>12. AsSent'
  <2> SUFFICES ASSUME NEW k \in DOMAIN got, got[k].from > 0
               PROVE  /\ got[k].from \in DOMAIN sent'[got[k].turn]
                      /\ got[k].kind = sent'[got[k].turn][got[k].from]
                      /\ IsText(got[k].turn, got[k].from)'
                      /\ \A p \in 1..(got[k].from - 1) : IsText(got[k].turn, p)' => Relayed(got[k].turn, p)'
    BY DEF AsSent, BackendSends, IsText, Relayed
  <2> DEFINE n == got[k].turn
  <2>1. n \in DOMAIN sent /\ got[k].from \in Nat
    BY FramesAreOfTurns
  <2>2. got[k].from \in DOMAIN sent[n] /\ DOMAIN sent[n] = 1..Len(sent[n])
    BY <2>1 DEF TurnsRelayed, AsSent, SocketTypeOK
  <2>3. \A p \in 1..got[k].from : p \in DOMAIN sent[n]
    BY <2>1, <2>2
  <2>4. \A p \in 1..got[k].from : p \in DOMAIN sent'[n] /\ sent'[n][p] = sent[n][p]
    BY <2>1, <2>3, <1>2, <1>3
  <2>5. got' = got
    BY DEF BackendSends
  <2>6. /\ got[k].kind = sent[n][got[k].from]
        /\ IsText(n, got[k].from)
        /\ \A p \in 1..(got[k].from - 1) : IsText(n, p) => Relayed(n, p)
    BY DEF TurnsRelayed, AsSent
  <2>7. got[k].from \in 1..got[k].from
    BY <2>1
  <2>8. got[k].from \in DOMAIN sent'[n] /\ sent'[n][got[k].from] = sent[n][got[k].from]
    BY <2>4, <2>7
  <2>9. sent'[n][got[k].from] # "binary"
    BY <2>6, <2>8 DEF IsText
  <2>10. ASSUME NEW p \in 1..(got[k].from - 1), sent'[n][p] # "binary"
         PROVE  \E j \in DOMAIN got : got[j].turn = n /\ got[j].from = p
    <3>1. p \in 1..got[k].from
      BY <2>1
    <3>2. IsText(n, p)
      BY <2>4, <2>10, <3>1 DEF IsText
    <3> QED
      BY <2>6, <3>2 DEF Relayed
  <2>11. IsText(got[k].turn, got[k].from)'
    BY <2>5, <2>9 DEF IsText
  <2>12. \A p \in 1..(got[k].from - 1) : IsText(got[k].turn, p)' => Relayed(got[k].turn, p)'
    BY <2>5, <2>10 DEF IsText, Relayed
  <2> QED
    BY <2>6, <2>8, <2>11, <2>12
<1>13. \A n \in DOMAIN asked' : Whole(n)'
  BY <1>1, <1>2 DEF BackendSends, TurnsRelayed, Whole, Done, Answered, Relayed, IsText, SocketTypeOK
<1> QED
  BY <1>4, <1>10, <1>11, <1>12, <1>13 DEF Bridged, TurnsRelayed

LEMMA CloseKeeps == SocketIInv /\ BackendCloses => Underway' /\ TurnsRelayed'
<1> SUFFICES ASSUME SocketIInv, BackendCloses PROVE Underway' /\ TurnsRelayed'
  OBVIOUS
<1>1. Underway'
  BY DEF SocketIInv, Underway, BackendCloses, NoneEarly, NothingSentEarly, Turning, Unwired,
         Bridged, DealtWith, IsText, Relayed
<1> QED
  BY <1>1, NothingTold, StaysWhole DEF BackendCloses, TurnsRelayed

\* A break only takes messages from the end of those on their way.
LEMMA BreakKeeps == SocketIInv /\ BackendBreaks => Underway' /\ TurnsRelayed'
<1> SUFFICES ASSUME SocketIInv, BackendBreaks PROVE Underway' /\ TurnsRelayed'
  OBVIOUS
<1> USE DEF SocketIInv, Underway
<1>1. stage = "bridging" /\ wire \in Seq(Nat)
  BY DEF BackendBreaks, SocketTypeOK
<1>2. NoneEarly' /\ NothingSentEarly' /\ Turning' /\ Unwired'
  BY <1>1 DEF BackendBreaks, NoneEarly, NothingSentEarly, Turning, Unwired
<1>3. PICK c \in Nat : DealtWith(c)
  BY <1>1 DEF Bridged
<1>4. PICK k \in 0..Len(wire) : wire' = SubSeq(wire, 1, k)
  BY DEF BackendBreaks
<1>5. Len(wire') <= Len(wire) /\ \A j \in DOMAIN wire' : j \in DOMAIN wire /\ wire'[j] = wire[j]
  BY <1>1, <1>4
<1>6. Len(sent[read]) \in Nat
  BY <1>1 DEF Turning, SocketTypeOK
<1>7. c + Len(wire') <= Len(sent[read])
  BY <1>1, <1>3, <1>4, <1>5, <1>6 DEF DealtWith
<1>8. DealtWith(c)'
  BY <1>3, <1>5, <1>7 DEF DealtWith, BackendBreaks, IsText, Relayed
<1>9. Bridged'
  BY <1>8 DEF Bridged
<1> QED
  BY <1>2, <1>9, NothingTold, StaysWhole DEF BackendBreaks, TurnsRelayed

LEMMA LeaveKeeps == SocketIInv /\ ClientLeaves => Underway' /\ TurnsRelayed'
<1> SUFFICES ASSUME SocketIInv, ClientLeaves PROVE Underway' /\ TurnsRelayed'
  OBVIOUS
<1>1. Underway'
  BY DEF SocketIInv, Underway, ClientLeaves, handlerVars, NoneEarly, NothingSentEarly, Turning, Unwired,
         Bridged, DealtWith
<1>2. \A n \in DOMAIN asked' : Whole(n)'
  BY DEF ClientLeaves, Whole
<1> QED
  BY <1>1, <1>2, NothingTold DEF ClientLeaves, TurnsRelayed

\* A message that waits to be read changes nothing for those before it.
LEMMA AskKeeps ==
    ASSUME SocketIInv, NEW kind \in MessageKinds, ClientSends(kind)
    PROVE  Underway' /\ TurnsRelayed'
<1> USE DEF SocketIInv, Underway
<1>1. /\ Len(sent') = Len(sent) + 1 /\ Len(asked') = Len(asked) + 1
      /\ \A n \in 1..Len(sent) : sent'[n] = sent[n] /\ asked'[n] = asked[n]
      /\ sent'[Len(sent) + 1] = <<>>
      /\ DOMAIN sent = 1..Len(sent) /\ DOMAIN sent' = 1..Len(sent')
      /\ DOMAIN asked = 1..Len(asked) /\ DOMAIN asked' = 1..Len(asked')
  BY DEF ClientSends, SocketTypeOK
<1>2. UNCHANGED <<stage, read, backend, given, wire, here, got>>
  BY DEF ClientSends, handlerVars
<1>3. read \in 0..Len(sent) /\ Len(sent) = Len(asked)
  BY DEF SocketTypeOK
<1>4. NoneEarly' /\ Unwired'
  BY <1>2 DEF NoneEarly, Unwired
<1>5. NothingSentEarly' /\ Turning'
  BY <1>1, <1>2, <1>3 DEF NothingSentEarly, Turning
<1>6. ASSUME stage = "bridging" PROVE Bridged'
  <2>1. sent'[read] = sent[read]
    BY <1>1, <1>3, <1>6 DEF Turning
  <2> QED
    BY <2>1, <1>2, <1>6 DEF Bridged, DealtWith, IsText, Relayed
<1>7. InOrder'
  BY <1>2 DEF TurnsRelayed, InOrder
<1>8. AsSent'
  <2>1. \A k \in DOMAIN got : sent'[got[k].turn] = sent[got[k].turn]
    BY <1>1, FramesAreOfTurns
  <2> QED
    BY <1>2, <2>1 DEF TurnsRelayed, AsSent, IsText, Relayed
<1>9. \A n \in DOMAIN asked' : Whole(n)'
  <2> SUFFICES ASSUME NEW n \in DOMAIN asked', Done(n)' PROVE Whole(n)'
    BY DEF Whole
  <2>1. n \in DOMAIN asked /\ Done(n) /\ sent'[n] = sent[n] /\ asked'[n] = asked[n]
    BY <1>1, <1>2, <1>3 DEF Done
  <2> QED
    BY <2>1, <1>2 DEF TurnsRelayed, Whole, Answered, Relayed, IsText
<1> QED
  BY <1>2, <1>4, <1>5, <1>6, <1>7, <1>8, <1>9 DEF Bridged, TurnsRelayed
-----------------------------------------------------------------------------
\* A frame of the message that is handled keeps what was told in order and as
\* it was sent, if it comes after a frame that ends nothing and skips no text.
LEMMA Telling ==
    ASSUME SocketIInv, NEW f \in Frames, f.turn = read, got' = Append(got, f), UNCHANGED sent,
           \A k \in DOMAIN got : got[k].turn = read =>
               ~Terminal(got[k].kind) /\ (f.from > 0 => got[k].from < f.from),
           f.from > 0 =>
               /\ f.from \in DOMAIN sent[read] /\ f.kind = sent[read][f.from]
               /\ IsText(read, f.from)
               /\ \A p \in 1..(f.from - 1) : IsText(read, p) => Relayed(read, p)
    PROVE  /\ InOrder' /\ AsSent'
           /\ \E k \in DOMAIN got' : got'[k] = f
           /\ \A k \in DOMAIN got : k \in DOMAIN got' /\ got'[k] = got[k]
           /\ \A k \in DOMAIN got' : k \in DOMAIN got \/ got'[k] = f
<1> USE DEF SocketIInv, Underway
<1>1. /\ Len(got) \in Nat /\ DOMAIN got = 1..Len(got) /\ DOMAIN got' = 1..(Len(got) + 1)
      /\ \A k \in 1..Len(got) : got'[k] = got[k]
      /\ got'[Len(got) + 1] = f
  BY DEF SocketTypeOK
<1>2. \A k \in DOMAIN got : k \in DOMAIN got' /\ got'[k] = got[k]
  BY <1>1
<1>3. \A k \in DOMAIN got' : k \in DOMAIN got \/ (k = Len(got) + 1 /\ got'[k] = f)
  BY <1>1
<1>4. InOrder'
  <2> SUFFICES ASSUME NEW i \in DOMAIN got', NEW j \in DOMAIN got', i < j
               PROVE  \/ got'[i].turn < got'[j].turn
                      \/ /\ got'[i].turn = got'[j].turn /\ ~Terminal(got'[i].kind)
                         /\ got'[j].from > 0 => got'[i].from < got'[j].from
    BY DEF InOrder
  <2>1. i \in DOMAIN got /\ got'[i] = got[i]
    BY <1>1
  <2>2. CASE j \in DOMAIN got
    BY <2>1, <2>2, <1>2 DEF TurnsRelayed, InOrder
  <2>3. CASE j = Len(got) + 1
    <3>1. got'[j] = f
      BY <2>3, <1>1
    <3>2. got[i].turn \in Nat /\ got[i].turn <= read /\ read \in Nat
      <4>1. got[i].turn \in Nat
        BY <2>1, FramesAreOfTurns
      <4>2. got[i].turn <= read
        BY <2>1 DEF NoneEarly
      <4>3. read \in Nat
        BY DEF SocketTypeOK
      <4> QED
        BY <4>1, <4>2, <4>3
    <3>3. CASE got[i].turn = read
      <4>1. ~Terminal(got[i].kind) /\ (f.from > 0 => got[i].from < f.from)
        BY <2>1, <3>3
      <4> QED
        BY <2>1, <3>1, <3>3, <4>1
    <3>4. CASE got[i].turn < read
      BY <2>1, <3>1, <3>4
    <3> QED
      BY <3>2, <3>3, <3>4
  <2> QED
    BY <1>3, <2>2, <2>3
<1>5. \A n, p : Relayed(n, p) => Relayed(n, p)'
  BY <1>2 DEF Relayed
<1>6. AsSent'
  <2> SUFFICES ASSUME NEW k \in DOMAIN got', got'[k].from > 0
               PROVE  /\ got'[k].from \in DOMAIN sent[got'[k].turn]
                      /\ got'[k].kind = sent[got'[k].turn][got'[k].from]
                      /\ IsText(got'[k].turn, got'[k].from)
                      /\ \A p \in 1..(got'[k].from - 1) : IsText(got'[k].turn, p) =>
                            \E j \in DOMAIN got' : got'[j].turn = got'[k].turn /\ got'[j].from = p
    BY DEF AsSent, IsText, Relayed
  <2>1. CASE k \in DOMAIN got
    BY <2>1, <1>2 DEF TurnsRelayed, AsSent, Relayed
  <2>2. CASE got'[k] = f
    BY <2>2, <1>2 DEF Relayed
  <2> QED
    BY <1>3, <2>1, <2>2
<1> QED
  BY <1>1, <1>2, <1>3, <1>4, <1>6

\* The turns before the one that ends are not touched, and it is whole if it was
\* answered or nothing of it is left.
LEMMA EndingKeeps ==
    ASSUME SocketIInv, stage \in {"connecting", "bridging"}, NEW next \in {"reading", "over"}, EndTurn(next),
           UNCHANGED <<read, asked, here, sent>>,
           InOrder', AsSent',
           \A k \in DOMAIN got : k \in DOMAIN got' /\ got'[k] = got[k],
           \A k \in DOMAIN got' : k \in DOMAIN got \/ got'[k].turn = read,
           here /\ next = "reading" =>
               \/ \E k \in DOMAIN got' : got'[k].turn = read /\ Terminal(got'[k].kind)
               \/ \A p \in DOMAIN sent[read] : IsText(read, p) => Relayed(read, p)
    PROVE  Underway' /\ TurnsRelayed'
<1> USE DEF SocketIInv, Underway
<1>1. stage' = next /\ wire' = <<>> /\ read > 0 /\ asked[read] = "turn" /\ read \in Nat
  BY DEF EndTurn, Turning, SocketTypeOK
<1>2. NoneEarly'
  BY <1>1 DEF NoneEarly
<1>3. NothingSentEarly' /\ Turning' /\ Unwired' /\ Bridged'
  BY <1>1 DEF NothingSentEarly, Turning, Unwired, Bridged
<1>4. \A n : Answered(n) => Answered(n)'
  BY DEF Answered
<1>5. \A n, p : Relayed(n, p) => Relayed(n, p)'
  BY DEF Relayed
<1>6. ASSUME NEW n \in DOMAIN asked' PROVE Whole(n)'
  <2>1. CASE n = read
    BY <2>1, <1>1, <1>5 DEF Whole, Done, Answered, IsText
  <2>2. CASE n # read
    BY <2>2, <1>1, <1>4, <1>5 DEF TurnsRelayed, Whole, Done, IsText
  <2> QED
    BY <2>1, <2>2
<1> QED
  BY <1>2, <1>3, <1>6 DEF TurnsRelayed

\* All that was on its way is relayed, and the connection was not broken.
LEMMA ClosedKeeps == SocketIInv /\ SeeBackendClosed => Underway' /\ TurnsRelayed'
<1> SUFFICES ASSUME SocketIInv, SeeBackendClosed PROVE Underway' /\ TurnsRelayed'
  OBVIOUS
<1>1. PICK c \in Nat : DealtWith(c)
  BY DEF SocketIInv, Underway, Bridged, SeeBackendClosed
<1>2. c = Len(sent[read]) /\ DOMAIN sent[read] = 1..Len(sent[read])
  <2>1. read \in DOMAIN sent /\ sent[read] \in Seq(FrameKinds)
    BY DEF SocketIInv, Underway, SeeBackendClosed, Turning, SocketTypeOK
  <2> QED
    BY <2>1, <1>1 DEF SeeBackendClosed, DealtWith
<1>3. here => \A p \in DOMAIN sent[read] : IsText(read, p) => Relayed(read, p)
  BY <1>1, <1>2 DEF DealtWith
<1> QED
  BY <1>3, NothingTold, EndingKeeps DEF SeeBackendClosed

\* The proxy's own error ends a turn.
LEMMA ErrorKeeps ==
    ASSUME SocketIInv, stage \in {"connecting", "bridging"}, Deliver(<<Frame("error", 0)>>),
           EndTurn("reading"), UNCHANGED <<read, asked, here, sent>>
    PROVE  Underway' /\ TurnsRelayed'
<1>1. CASE here
  <2> DEFINE f == Frame("error", 0)
  <2>1. f \in Frames /\ f.turn = read /\ f.from = 0 /\ Terminal(f.kind)
    BY DEF Frame, Frames, FrameKinds, Terminal, SocketIInv, SocketTypeOK
  <2>2. got' = Append(got, f)
    BY <1>1, <2>1 DEF Deliver, SocketIInv, SocketTypeOK
  <2>3. \A k \in DOMAIN got : got[k].turn = read => ~Terminal(got[k].kind)
    BY FramesAreOfTurns DEF SocketIInv, Underway, NoneEarly, Bridged, DealtWith, SocketTypeOK
  <2> HIDE DEF f
  <2> QED
    BY <2>1, <2>2, <2>3, Telling, EndingKeeps
<1>2. CASE ~here
  BY <1>2, NothingTold, EndingKeeps DEF Deliver
<1> QED
  BY <1>1, <1>2 DEF SocketIInv, SocketTypeOK

LEMMA RelayKeeps == SocketIInv /\ Relay => Underway' /\ TurnsRelayed'
<1> SUFFICES ASSUME SocketIInv, Relay PROVE Underway' /\ TurnsRelayed'
  OBVIOUS
<1> USE DEF SocketIInv, Underway
<1>1. stage = "bridging" /\ wire # <<>> /\ wire \in Seq(Nat) /\ UNCHANGED <<read, asked, here, sent>>
  BY DEF Relay, SocketTypeOK
<1>2. PICK c \in Nat : DealtWith(c)
  BY <1>1 DEF Bridged
<1>3. read \in DOMAIN sent /\ sent[read] \in Seq(FrameKinds) /\ read \in Nat /\ read > 0
  BY <1>1 DEF Turning, SocketTypeOK
<1>4. /\ Head(wire) = c + 1 /\ c + 1 \in DOMAIN sent[read]
      /\ Tail(wire) \in Seq(Nat) /\ Len(Tail(wire)) = Len(wire) - 1
      /\ \A k \in DOMAIN Tail(wire) : Tail(wire)[k] = c + 1 + k
  <2> HIDE DEF SocketIInv, Underway
  <2>1. /\ Len(wire) > 0 /\ Head(wire) = wire[1]
        /\ Tail(wire) \in Seq(Nat) /\ Len(Tail(wire)) = Len(wire) - 1
        /\ \A k \in 1..Len(Tail(wire)) : Tail(wire)[k] = wire[k + 1]
    BY <1>1
  <2>2. c + Len(wire) <= Len(sent[read]) /\ \A k \in 1..Len(wire) : wire[k] = c + k
    BY <1>1, <1>2 DEF DealtWith
  <2>3. Head(wire) = c + 1 /\ c + 1 \in DOMAIN sent[read]
    BY <1>2, <1>3, <2>1, <2>2
  <2>4. \A k \in 1..Len(Tail(wire)) : Tail(wire)[k] = c + 1 + k
    <3>1. \A k \in 1..Len(Tail(wire)) : k + 1 \in 1..Len(wire) /\ c + (k + 1) = c + 1 + k
      BY <1>1, <1>2, <2>1
    <3> QED
      BY <2>1, <2>2, <3>1
  <2> QED
    BY <2>1, <2>3, <2>4
\* A message that does not end the turn is dealt with.
<1>5. ASSUME wire' = Tail(wire), UNCHANGED <<stage, backend>>, InOrder', AsSent',
             \A k \in DOMAIN got : k \in DOMAIN got' /\ got'[k] = got[k],
             \A k \in DOMAIN got' : k \in DOMAIN got \/
                 (got'[k].turn = read /\ got'[k].from = c + 1 /\ ~Terminal(got'[k].kind)),
             here /\ IsText(read, c + 1) => Relayed(read, c + 1)'
      PROVE  Underway' /\ TurnsRelayed'
  <2>1. NoneEarly'
    BY <1>1, <1>3, <1>5 DEF NoneEarly
  <2>9. NothingSentEarly' /\ Turning' /\ Unwired'
    BY <1>1, <1>5 DEF NothingSentEarly, Turning, Unwired
  <2>2. \A n, p : Relayed(n, p) => Relayed(n, p)'
    BY <1>5 DEF Relayed
  <2>3. here => \A p \in 1..(c + 1) : IsText(read, p) => Relayed(read, p)'
    <3>1. \A p \in 1..(c + 1) : p \in 1..c \/ p = c + 1
      BY <1>2
    <3> QED
      BY <1>1, <1>2, <1>5, <2>2, <3>1 DEF DealtWith, Relayed
  <2>4. \A k \in DOMAIN got' : got'[k].turn = read => ~Terminal(got'[k].kind) /\ got'[k].from \in 1..(c + 1)
    BY <1>2, <1>5 DEF DealtWith
  <2>5. /\ c + 1 + Len(wire') <= Len(sent[read])
        /\ backend # "broken" => c + 1 + Len(wire') = Len(sent[read])
    BY <1>1, <1>2, <1>3, <1>4, <1>5 DEF DealtWith
  <2>6. DealtWith(c + 1)'
    BY <1>1, <1>4, <1>5, <2>3, <2>4, <2>5 DEF DealtWith, IsText, Relayed
  <2>7. Bridged'
    BY <1>2, <2>6 DEF Bridged
  <2>8. \A n \in DOMAIN asked' : Whole(n)'
    BY <1>1, <1>3, <1>5, <2>2 DEF TurnsRelayed, Whole, Done, Answered, IsText
  <2> QED
    BY <2>1, <2>9, <2>7, <2>8, <1>5 DEF TurnsRelayed
<1>6. CASE RelayText(c + 1)
  <2> DEFINE f == Frame(sent[read][c + 1], c + 1)
  <2>1. f \in Frames /\ f.turn = read /\ f.from = c + 1 /\ f.kind = sent[read][c + 1]
    BY <1>2, <1>3, <1>4 DEF Frame, Frames, SocketTypeOK
  <2>2. IsText(read, c + 1)
    BY <1>6 DEF RelayText, IsText
  <2>3. CASE here
    <3>1. got' = Append(got, f)
      BY <1>6, <2>3 DEF RelayText, Deliver, SocketTypeOK
    <3>2. \A k \in DOMAIN got : got[k].turn = read => ~Terminal(got[k].kind) /\ got[k].from < c + 1
      BY <1>2 DEF DealtWith
    <3>3. \A p \in 1..c : IsText(read, p) => Relayed(read, p)
      BY <1>2, <2>3 DEF DealtWith
    <3> HIDE DEF f
    <3>4. /\ InOrder' /\ AsSent'
          /\ \E k \in DOMAIN got' : got'[k] = f
          /\ \A k \in DOMAIN got : k \in DOMAIN got' /\ got'[k] = got[k]
          /\ \A k \in DOMAIN got' : k \in DOMAIN got \/ got'[k] = f
      BY <1>1, <1>2, <1>4, <2>1, <2>2, <3>1, <3>2, <3>3, Telling
    <3>5. CASE Terminal(f.kind)
      <4>1. EndTurn("reading")
        BY <1>6, <2>1, <3>5 DEF RelayText
      <4>2. \E k \in DOMAIN got' : got'[k].turn = read /\ Terminal(got'[k].kind)
        BY <2>1, <3>4, <3>5
      <4> QED
        BY <1>1, <2>1, <3>4, <4>1, <4>2, EndingKeeps
    <3>6. CASE ~Terminal(f.kind)
      <4>1. wire' = Tail(wire) /\ UNCHANGED <<stage, backend>>
        BY <1>4, <1>6, <2>1, <3>6 DEF RelayText
      <4>2. Relayed(read, c + 1)'
        BY <1>1, <2>1, <3>4 DEF Relayed
      <4> QED
        BY <1>5, <2>1, <3>4, <3>6, <4>1, <4>2
    <3> QED
      BY <3>5, <3>6
  <2>4. CASE ~here
    <3>1. got' = got
      BY <1>6, <2>4 DEF RelayText, Deliver
    <3>2. CASE Terminal(sent[read][c + 1])
      BY <1>1, <1>6, <2>4, <3>1, <3>2, NothingTold, EndingKeeps DEF RelayText
    <3>3. CASE ~Terminal(sent[read][c + 1])
      BY <1>1, <1>5, <1>6, <2>4, <3>1, <3>3, NothingTold DEF RelayText
    <3> QED
      BY <3>2, <3>3
  <2> QED
    BY <2>3, <2>4 DEF SocketTypeOK
<1>7. CASE SkipOther(c + 1)
  BY <1>1, <1>5, <1>7, NothingTold DEF SkipOther, IsText
<1>8. CASE RelayFails(c + 1)
  BY <1>1, <1>8, NothingTold, EndingKeeps DEF RelayFails
<1> QED
  BY <1>4, <1>6, <1>7, <1>8 DEF Relay

LEMMA Concatenated ==
    ASSUME NEW S, NEW s \in Seq(S), NEW u \in Seq(S)
    PROVE  /\ s \o u \in Seq(S) /\ Len(s \o u) = Len(s) + Len(u)
           /\ \A k \in 1..Len(s) : (s \o u)[k] = s[k]
           /\ \A k \in (Len(s) + 1)..(Len(s) + Len(u)) : (s \o u)[k] = u[k - Len(s)]
OBVIOUS

\* A message is read when those before it are done; its answer, if any, comes
\* after all that was told and ends with a frame that ends it.
LEMMA ReadKeeps == SocketIInv /\ ReadMessage => Underway' /\ TurnsRelayed'
<1> SUFFICES ASSUME SocketIInv, ReadMessage PROVE Underway' /\ TurnsRelayed'
  OBVIOUS
<1> USE DEF SocketIInv, Underway
<1> DEFINE new    == read + 1
           reply  == Reply(asked[new])
           frames == [k \in DOMAIN reply |-> [turn |-> new, from |-> 0, kind |-> reply[k]]]
<1>1. /\ read \in Nat /\ read' = new /\ new \in DOMAIN asked /\ new \in DOMAIN sent /\ asked[new] \in MessageKinds
      /\ UNCHANGED <<backend, wire, asked, here, sent>> /\ stage = "reading"
      /\ stage' = IF asked[new] = "turn" THEN "preparing" ELSE "reading"
      /\ got' = IF here THEN got \o frames ELSE got
  BY DEF ReadMessage, SocketTypeOK, Deliver
<1>2. /\ reply \in {<<>>, <<"error">>, <<"created", "completed">>}
      /\ reply = <<>> <=> asked[new] \in {"binary", "turn"}
  BY <1>1, Replies DEF Reply, MessageKinds
<1> HIDE DEF reply
<1>3. /\ Len(reply) \in 0..2 /\ DOMAIN reply = 1..Len(reply)
      /\ \A k \in DOMAIN reply : Terminal(reply[k]) <=> k = Len(reply)
  <2>1. CASE reply = <<>>
    BY <2>1
  <2>2. CASE reply = <<"error">>
    BY <2>2 DEF Terminal
  <2>3. CASE reply = <<"created", "completed">>
    BY <2>3 DEF Terminal
  <2> QED
    BY <1>2, <2>1, <2>2, <2>3
<1>4. /\ frames \in Seq(Frames) /\ Len(frames) = Len(reply)
      /\ \A k \in DOMAIN reply : frames[k] = [turn |-> new, from |-> 0, kind |-> reply[k]]
  <2>1. \A k \in DOMAIN reply : [turn |-> new, from |-> 0, kind |-> reply[k]] \in Frames
    BY <1>1, <1>2 DEF Frames, FrameKinds
  <2>2. frames \in Seq(Frames) /\ Len(frames) = Len(reply)
    BY <1>3, <2>1
  <2>3. \A k \in DOMAIN reply : frames[k] = [turn |-> new, from |-> 0, kind |-> reply[k]]
    BY <1>3
  <2> QED
    BY <2>2, <2>3
<1> HIDE DEF frames
<1>5. /\ Len(got) \in Nat /\ DOMAIN got = 1..Len(got) /\ got \in Seq(Frames)
      /\ Len(got') \in Nat /\ DOMAIN got' = 1..Len(got')
      /\ \A k \in DOMAIN got : k \in DOMAIN got' /\ got'[k] = got[k]
  <2>1. got \in Seq(Frames) /\ got' \in Seq(Frames)
    BY <1>1, <1>4 DEF SocketTypeOK
  <2> QED
    BY <2>1, <1>1, <1>4
<1>6. \A k \in DOMAIN got' : k \in DOMAIN got \/
          /\ here /\ k - Len(got) \in DOMAIN reply /\ k > Len(got)
          /\ got'[k].turn = new /\ got'[k].from = 0 /\ got'[k].kind = reply[k - Len(got)]
  <2>1. CASE here
    <3>1. got' = got \o frames
      BY <1>1, <2>1
    <3>2. Len(got') = Len(got) + Len(reply)
      <4>1. got \in Seq(Frames) /\ frames \in Seq(Frames)
        BY <1>4, <1>5
      <4>2. Len(got \o frames) = Len(got) + Len(frames)
        BY <4>1, Concatenated
      <4> QED
        BY <1>4, <3>1, <4>2
    <3>3. \A k \in DOMAIN got' : k \in DOMAIN got \/ (k > Len(got) /\ k - Len(got) \in DOMAIN reply)
      BY <1>3, <1>4, <1>5, <3>2
    <3>4. \A k \in DOMAIN got' : k > Len(got) => got'[k] = frames[k - Len(got)]
      BY <1>4, <1>5, <3>1, <3>2, Concatenated
    <3>5. \A k \in DOMAIN got' : k \in DOMAIN got \/ got'[k] = [turn |-> new, from |-> 0, kind |-> reply[k - Len(got)]]
      BY <1>4, <3>3, <3>4
    <3> QED
      BY <2>1, <3>3, <3>5
  <2>2. CASE ~here
    BY <1>1, <2>2
  <2> QED
    BY <2>1, <2>2 DEF SocketTypeOK
<1>7. \A k \in DOMAIN got : got[k].turn \in Nat /\ got[k].turn <= read /\ got[k].turn > 0
  BY FramesAreOfTurns DEF NoneEarly
<1>8. NoneEarly'
  <2>1. \A k \in DOMAIN got' : 0 < got'[k].turn /\ got'[k].turn <= read'
    BY <1>1, <1>5, <1>6, <1>7
  <2>2. ASSUME stage' = "preparing" PROVE \A k \in DOMAIN got' : got'[k].turn < read'
    <3>1. reply = <<>>
      BY <1>1, <1>2, <2>2
    <3> QED
      BY <1>1, <1>5, <1>6, <1>7, <3>1
  <2> QED
    BY <1>1, <2>1, <2>2 DEF NoneEarly
<1>9. NothingSentEarly' /\ Turning' /\ Unwired' /\ Bridged'
  BY <1>1 DEF NothingSentEarly, Turning, Unwired, Bridged, SocketTypeOK
<1>10. InOrder'
  <2> SUFFICES ASSUME NEW i \in DOMAIN got', NEW j \in DOMAIN got', i < j
               PROVE  \/ got'[i].turn < got'[j].turn
                      \/ /\ got'[i].turn = got'[j].turn /\ ~Terminal(got'[i].kind)
                         /\ got'[j].from > 0 => got'[i].from < got'[j].from
    BY DEF InOrder
  <2>1. CASE j \in DOMAIN got
    <3>1. i \in DOMAIN got
      BY <1>5, <1>6, <2>1
    <3> QED
      BY <1>5, <2>1, <3>1 DEF TurnsRelayed, InOrder
  <2>2. CASE j \notin DOMAIN got /\ i \in DOMAIN got
    BY <1>1, <1>5, <1>6, <1>7, <2>2
  <2>3. CASE j \notin DOMAIN got /\ i \notin DOMAIN got
    <3>1. i - Len(got) \in DOMAIN reply /\ j - Len(got) \in DOMAIN reply /\ i \in Int /\ j \in Int
      BY <1>3, <1>5, <1>6, <2>3
    <3>2. i - Len(got) # Len(reply)
      BY <1>3, <1>5, <3>1
    <3> QED
      BY <1>3, <1>6, <2>3, <3>1, <3>2
  <2> QED
    BY <2>1, <2>2, <2>3
<1>11. AsSent'
  <2>1. AsSent /\ sent' = sent
    BY <1>1 DEF TurnsRelayed
  <2>2. \A k \in DOMAIN got : k \in DOMAIN got' /\ got'[k] = got[k]
    BY <1>5
  <2>3. \A k \in DOMAIN got' : got'[k].from > 0 => k \in DOMAIN got
    BY <1>6
  <2> HIDE DEF SocketIInv, Underway
  <2>4. \A n, p : (IsText(n, p)' <=> IsText(n, p)) /\ (Relayed(n, p) => Relayed(n, p)')
    BY <2>1, <2>2 DEF IsText, Relayed
  <2> SUFFICES ASSUME NEW k \in DOMAIN got', got'[k].from > 0
               PROVE  (/\ got[k].from \in DOMAIN sent[got[k].turn]
                       /\ got[k].kind = sent[got[k].turn][got[k].from]
                       /\ IsText(got[k].turn, got[k].from)
                       /\ \A p \in 1..(got[k].from - 1) :
                             IsText(got[k].turn, p) => Relayed(got[k].turn, p))'
    BY DEF AsSent
  <2>5. k \in DOMAIN got /\ got'[k] = got[k]
    BY <2>2, <2>3
  <2> QED
    BY <2>1, <2>4, <2>5 DEF AsSent
<1>12. ASSUME NEW n \in DOMAIN asked', here', Done(n)'
       PROVE  /\ ~Answered(n)' => \A p \in DOMAIN sent[n] : IsText(n, p) => Relayed(n, p)'
              /\ asked[n] \notin {"binary", "turn"} => Answered(n)'
  <2>1. CASE n = new
    <3>1. sent[n] = <<>>
      BY <1>1, <2>1 DEF NothingSentEarly
    <3>2. ASSUME asked[n] \notin {"binary", "turn"} PROVE Answered(n)'
      <4>1. Len(reply) \in DOMAIN reply
        BY <1>2, <1>3, <2>1, <3>2
      <4>2. Len(got) + Len(reply) \in DOMAIN got' /\ got'[Len(got) + Len(reply)] = frames[Len(reply)]
        BY <1>1, <1>3, <1>4, <1>5, <1>12, <4>1
      <4>3. frames[Len(reply)] = [turn |-> new, from |-> 0, kind |-> reply[Len(reply)]]
        BY <1>4, <4>1
      <4>4. frames[Len(reply)].turn = n /\ Terminal(frames[Len(reply)].kind)
        BY <1>3, <2>1, <4>1, <4>3
      <4> QED
        BY <4>2, <4>4 DEF Answered
    <3> QED
      BY <3>1, <3>2
  <2>2. CASE n # new
    <3>1. Done(n) /\ here
      BY <1>1, <1>12, <2>2 DEF Done, SocketTypeOK
    <3>2. Answered(n) => Answered(n)'
      BY <1>5 DEF Answered
    <3>3. \A p : Relayed(n, p) => Relayed(n, p)'
      BY <1>5 DEF Relayed
    <3> QED
      BY <1>1, <1>12, <3>1, <3>2, <3>3 DEF TurnsRelayed, Whole
  <2> QED
    BY <2>1, <2>2
<1> QED
  BY <1>1, <1>8, <1>9, <1>10, <1>11, <1>12 DEF TurnsRelayed, Whole, IsText
-----------------------------------------------------------------------------
LEMMA SocketIInvPreserved == SocketIInv /\ [SocketNext]_socketVars => SocketIInv'
<1> SUFFICES ASSUME SocketIInv, [SocketNext]_socketVars PROVE Underway' /\ TurnsRelayed'
  BY TypePreserved DEF SocketIInv, Underway
<1>1. CASE ReadMessage
  BY <1>1, ReadKeeps
<1>2. CASE SeeClientGone
  BY <1>2, GoneKeeps
<1>3. CASE Relay
  BY <1>3, RelayKeeps
<1>4. CASE SeeBackendClosed
  BY <1>4, ClosedKeeps
<1>5. CASE SeeBackendBroken
  BY <1>5, ErrorKeeps DEF SeeBackendBroken
<1>6. CASE Prepare
  BY <1>6, PrepareKeeps
<1>7. CASE Connect
  BY <1>7, ConnectKeeps
<1>8. CASE ConnectFails
  BY <1>8, ErrorKeeps DEF ConnectFails
<1>9. CASE \E kind \in MessageKinds : ClientSends(kind)
  BY <1>9, AskKeeps
<1>10. CASE ClientLeaves
  BY <1>10, LeaveKeeps
<1>11. CASE \E kind \in FrameKinds : BackendSends(kind)
  BY <1>11, SendKeeps
<1>12. CASE BackendCloses
  BY <1>12, CloseKeeps
<1>13. CASE BackendBreaks
  BY <1>13, BreakKeeps
<1>14. CASE UNCHANGED socketVars
  <2>1. Underway'
    BY <1>14 DEF socketVars, handlerVars, SocketIInv, Underway, NoneEarly, NothingSentEarly, Turning, Unwired,
                 Bridged, DealtWith, IsText, Relayed
  <2> QED
    BY <1>14, <2>1, NothingTold, StaysWhole DEF socketVars, handlerVars, TurnsRelayed
<1> QED
  BY <1>1, <1>2, <1>3, <1>4, <1>5, <1>6, <1>7, <1>8, <1>9, <1>10, <1>11, <1>12, <1>13, <1>14
     DEF SocketNext, Handle

\* The connection, its backends and what they say keep their types, for any
\* number of messages.
THEOREM SocketTypeCorrect == SocketSpec => []SocketTypeOK
<1>1. SocketIInv => SocketTypeOK
  BY DEF SocketIInv
<1> QED
  BY SocketInitially, SocketIInvPreserved, <1>1, PTL DEF SocketSpec

\* However a client queues its messages and however its backends end, what it is
\* told of each turn is in order, as it was sent, and whole (handle_responses_ws).
THEOREM TurnsRelayedHolds == SocketSpec => []TurnsRelayed
<1>1. SocketIInv => TurnsRelayed
  BY DEF SocketIInv
<1> QED
  BY SocketInitially, SocketIInvPreserved, <1>1, PTL DEF SocketSpec
=============================================================================
