----------------------------- MODULE SseFraming -----------------------------
(***************************************************************************)
(* How a streamed upstream body becomes lines: http/sse.rs and, in front   *)
(* of a Responses stream whose request had ciphertext taken from it, the   *)
(* prefix that http/responses.rs holds back until it knows whether to ask  *)
(* the upstream again.  The body comes in chunks cut anywhere; a route is  *)
(* one way of reading it:                                                  *)
(*   relayed   chunks pass as they are, an observer is shown the lines     *)
(*   guarded   the same, after a prefix has been held back and classified  *)
(*   adapted   each line is mapped, a line over the limit ends the stream  *)
(*   mapped    each line is mapped, each chunk is decoded on its own       *)
(* A byte is a name: LF, CR, the two bytes H1 and H2 of one character, and *)
(* whatever else.                                                          *)
(***************************************************************************)
EXTENDS Naturals, Sequences

CONSTANTS
    LF, CR, H1, H2,  \* the bytes that matter to framing
    Replacement,     \* what from_utf8_lossy puts in place of half a character
    Bytes,           \* all of them
    Limit,           \* max_decoded_body_bytes, the limit of a line and of the prefix
    Cases,           \* what may be read: a route and the bodies of two upstream answers
    Classify(_),     \* of a line of the prefix: "forward", "retry" or "undecided"
    Refused(_)       \* the mapper of the route answers the line with an error

Routes == {"relayed", "guarded", "adapted", "mapped"}

ASSUME FramingAssumption ==
    /\ {LF, CR, H1, H2, Replacement} \subseteq Bytes
    /\ LF \notin {CR, H1, H2, Replacement}
    /\ Limit \in Nat
    /\ Cases \subseteq [route : Routes, bodies : Seq(Bytes) \X Seq(Bytes)]
    /\ ~Refused(<<>>) /\ Classify(<<>>) = "undecided"

VARIABLES
    route, bodies,
    current,    \* which of the two answers is being read
    phase,      \* "prefix", "lines", "done", or why it ended: "broken", "failed", "rejected"
    taken,      \* bytes of the answer taken from the connection
    from,       \* where the present chunk begins in the answer; where it ends once dealt with
    avail,      \* where it ends
    pos,        \* where its last scanned byte is
    held,       \* chunks held back, each by where it begins and ends
    line,       \* the line buffer
    observing,  \* the present line has not passed the limit
    given,      \* bytes passed to the client as they came
    seen,       \* history: the lines handed over, each by where it ended in the answer
    cut         \* history: a character has been cut between chunks

vars == <<route, bodies, current, phase, taken, from, avail, pos, held, line, observing,
          given, seen, cut>>

Body == bodies[current]
Relaying == route \in {"relayed", "guarded"}

Init ==
    /\ \E c \in Cases : route = c.route /\ bodies = c.bodies
    /\ current = 1
    /\ phase = IF route = "guarded" THEN "prefix" ELSE "lines"
    /\ taken = 0 /\ from = 0 /\ avail = 0 /\ pos = 0
    /\ held = <<>> /\ line = <<>> /\ observing = TRUE
    /\ given = <<>>
    /\ seen = [p \in {} |-> <<>>]
    /\ cut = FALSE

still == UNCHANGED <<route, bodies>>
-----------------------------------------------------------------------------
\* line.pop() after a look at the last byte: one CR goes.
WithoutCR(l) ==
    IF l # <<>> /\ l[Len(l)] = CR THEN SubSeq(l, 1, Len(l) - 1) ELSE l

\* trim_end_matches: every CR at the end goes.
Trimmed(l) ==
    SubSeq(l, 1, CHOOSE n \in 0..Len(l) : /\ \A k \in n + 1..Len(l) : l[k] = CR
                                          /\ n = 0 \/ l[n] # CR)

TextOf(l) == IF Relaying THEN WithoutCR(l) ELSE Trimmed(l)

\* Between two chunks.
Waiting == phase \in {"prefix", "lines"} /\ pos = avail /\ from = avail

Take(begin, end) == from' = begin /\ pos' = begin /\ avail' = end

\* A chunk that was held back comes before what is still to arrive.
HeldChunk ==
    /\ Waiting /\ phase = "lines" /\ held # <<>>
    /\ Take(Head(held)[1], Head(held)[2])
    /\ held' = Tail(held)
    /\ still /\ UNCHANGED <<current, phase, taken, line, observing, given, seen, cut>>

FromConnection == Waiting /\ (phase = "lines" => held = <<>>)

\* The bound on what is held back counts whole chunks; past it the client
\* is told 502.
Chunk(end) ==
    /\ FromConnection
    /\ end \in taken + 1..Len(Body)
    /\ taken' = end
    /\ IF phase = "prefix" /\ end > Limit
       THEN phase' = "rejected" /\ UNCHANGED <<from, pos, avail>>
       ELSE phase' = phase /\ Take(taken, end)
    /\ still /\ UNCHANGED <<current, held, line, observing, given, seen, cut>>

\* The byte about to be scanned, as the route decodes it.
Halved == \/ Body[pos + 1] = H1 /\ pos + 1 = avail
          \/ Body[pos + 1] = H2 /\ pos = from
Decoded == IF route = "mapped" /\ Halved THEN Replacement ELSE Body[pos + 1]

\* Mutant: a line over the limit is cut off there, not skipped.
KeepByteCutsOff(b) ==
    /\ line' = IF Len(line) < Limit THEN Append(line, b) ELSE line
    /\ observing' = observing

KeepByte(b) ==
    IF ~observing THEN UNCHANGED <<line, observing>>
    ELSE IF phase = "lines" /\ Relaying /\ Len(line) >= Limit
    THEN line' = <<>> /\ observing' = FALSE
    ELSE line' = Append(line, b) /\ observing' = TRUE

\* A byte inside a line.
ScanByte ==
    /\ phase \in {"prefix", "lines"} /\ pos < avail /\ Body[pos + 1] # LF
    /\ KeepByte(Decoded)
    /\ pos' = pos + 1
    /\ cut' = (cut \/ (route = "mapped" /\ Halved))
    /\ still /\ UNCHANGED <<current, phase, taken, avail, from, held, given, seen>>

HandOver(p) == seen' = [q \in DOMAIN seen \union {p} |-> IF q = p THEN TextOf(line) ELSE seen[q]]

\* Mutant: a line of exactly the limit is refused.
OversizedAtLimit == Len(line) >= Limit

Oversized == Len(line) > Limit

\* The end of a line the route can take.
ScanLine ==
    /\ phase = "lines" /\ pos < avail /\ Body[pos + 1] = LF
    /\ route = "adapted" => ~Oversized
    /\ IF observing THEN HandOver(pos + 1) ELSE UNCHANGED seen
    /\ line' = <<>> /\ observing' = TRUE
    /\ pos' = pos + 1
    /\ phase' = IF ~Relaying /\ Refused(TextOf(line)) THEN "failed" ELSE "lines"
    /\ still /\ UNCHANGED <<current, taken, avail, from, held, given, cut>>

\* An adapted line over the limit, found at its end or at the end of a chunk.
ScanTooLong ==
    /\ phase = "lines" /\ route = "adapted" /\ Oversized
    /\ (pos = avail /\ from < avail) \/ (pos < avail /\ Body[pos + 1] = LF)
    /\ phase' = "failed"
    /\ still /\ UNCHANGED <<current, taken, avail, from, pos, held, line, observing, given, seen, cut>>

\* The chunk is done with: relayed, held back or, of a mapped one, the rest kept.
EndChunk ==
    /\ phase \in {"prefix", "lines"} /\ pos = avail /\ from < avail
    /\ phase = "lines" /\ route = "adapted" => ~Oversized
    /\ from' = avail
    /\ held' = IF phase = "prefix" THEN Append(held, <<from, avail>>) ELSE held
    /\ given' = IF phase = "lines" /\ Relaying
                THEN given \o SubSeq(Body, from + 1, avail) ELSE given
    /\ still /\ UNCHANGED <<current, phase, taken, avail, pos, line, observing, seen, cut>>
-----------------------------------------------------------------------------
\* The answer is read from its first byte, held chunks before the rest.
Begin(n, chunks) ==
    /\ current' = n /\ phase' = "lines" /\ held' = chunks
    /\ taken' = IF n = current THEN taken ELSE 0
    /\ Take(0, 0) /\ line' = <<>>

\* The upstream is asked once more, without the ciphertext; it may not answer.
AskAgain ==
    \/ Begin(2, <<>>)
    \/ phase' = "rejected" /\ UNCHANGED <<current, held, taken, avail, from, pos, line>>

\* Mutant: the chunk with the deciding line is lost.
DecideDropsChunk ==
    IF Classify(WithoutCR(line)) = "retry" THEN AskAgain ELSE Begin(1, held)

\* The chunk that holds the deciding line joins the ones held back.
Decide ==
    IF Classify(WithoutCR(line)) = "retry" THEN AskAgain
    ELSE Begin(1, Append(held, <<from, avail>>))

ScanPrefixLine ==
    /\ phase = "prefix" /\ pos < avail /\ Body[pos + 1] = LF
    /\ IF Classify(WithoutCR(line)) = "undecided"
       THEN /\ pos' = pos + 1 /\ line' = <<>>
            /\ UNCHANGED <<current, phase, taken, avail, from, held>>
       ELSE Decide
    /\ still /\ UNCHANGED <<observing, given, seen, cut>>

AtEnd == FromConnection /\ taken = Len(Body)

\* Mutant: what follows the last line break is not looked at.
DecideAtEndUnread == Begin(1, held)

DecideAtEnd ==
    IF Classify(WithoutCR(line)) = "retry" THEN AskAgain ELSE Begin(1, held)

EndOfPrefix ==
    /\ AtEnd /\ phase = "prefix"
    /\ DecideAtEnd
    /\ still /\ UNCHANGED <<observing, given, seen, cut>>

\* A last line without its line break is handed over all the same.
EndOfBody ==
    /\ AtEnd /\ phase = "lines"
    /\ IF observing /\ line # <<>>
       THEN /\ HandOver(pos + 1)
            /\ phase' = IF ~Relaying /\ Refused(TextOf(line)) THEN "failed" ELSE "done"
       ELSE UNCHANGED seen /\ phase' = "done"
    /\ still /\ UNCHANGED <<current, taken, avail, from, pos, held, line, observing, given, cut>>

\* The connection breaks: a line that has begun is dropped.
Break ==
    /\ FromConnection
    /\ phase' = IF phase = "prefix" THEN "rejected" ELSE "broken"
    /\ still /\ UNCHANGED <<current, taken, avail, from, pos, held, line, observing, given, seen, cut>>

Over == phase \in {"done", "broken", "failed", "rejected"} /\ UNCHANGED vars

Next ==
    \/ HeldChunk
    \/ \E end \in 1..Len(Body) : Chunk(end)
    \/ ScanByte \/ ScanLine \/ ScanTooLong \/ EndChunk
    \/ ScanPrefixLine \/ EndOfPrefix \/ EndOfBody
    \/ Break
    \/ Over

Spec == Init /\ [][Next]_vars
-----------------------------------------------------------------------------
\* Where a chunk that is held back begins and ends.
Pieces == Nat \X Nat

TypeOK ==
    /\ route \in Routes /\ bodies \in Seq(Bytes) \X Seq(Bytes)
    /\ current \in {1, 2}
    /\ phase \in {"prefix", "lines", "done", "broken", "failed", "rejected"}
    /\ taken \in 0..Len(Body) /\ avail \in 0..taken
    /\ from \in 0..avail /\ pos \in from..avail
    /\ held \in Seq(Pieces)
    /\ line \in Seq(Bytes) /\ given \in Seq(Bytes)
    /\ observing \in BOOLEAN /\ cut \in BOOLEAN

(***************************************************************************)
(* Lines by what they are: the bytes between one line break and the next.  *)
(***************************************************************************)
LineFrom(b, p) ==
    CHOOSE s \in 1..p : /\ \A q \in s..p - 1 : b[q] # LF
                        /\ s = 1 \/ b[s - 1] = LF
Raw(b, p) == SubSeq(b, LineFrom(b, p), p - 1)

\* Where the lines end in the first n bytes, and in the whole of it.
LineEnds(b, n) == {p \in 1..n : b[p] = LF}
AllEnds(b) == LineEnds(b, Len(b)) \union
              {p \in {Len(b) + 1} : Raw(b, p) # <<>>}


\* Those the route has come to; a stream that failed between chunks did so
\* over its last line.
Ended ==
    IF phase \in {"prefix", "rejected"} THEN {}
    ELSE IF phase = "done" \/ (phase = "failed" /\ from = avail) THEN AllEnds(Body)
    ELSE LineEnds(Body, pos)

\* However the answer was cut into chunks, the observer or the mapper has
\* been shown its lines: each once, whole, and none the relay must skip for
\* its length.  Where each chunk is decoded on its own this needs characters
\* that lie within a chunk (http/sse.rs:93).
LinesAsSent ==
    route # "mapped" \/ ~cut =>
        seen = [p \in {q \in Ended : Relaying => Len(Raw(Body, q)) <= Limit} |->
                    TextOf(Raw(Body, p))]

\* The client of a relay has been given the beginning of one upstream answer,
\* byte for byte, and nothing else; at the end all of it.  What was held back
\* is part of it or, when the upstream was asked again, has not been seen by
\* anyone (http/responses.rs:388).
RelayedIntact ==
    Relaying =>
        /\ Len(given) <= Len(Body) /\ given = SubSeq(Body, 1, Len(given))
        /\ phase = "prefix" => given = <<>>
        /\ phase = "done" => given = Body

\* The upstream is asked again exactly when the first line that decides is
\* a failure worth it, wherever chunks begin and whether or not that line is
\* the last and has no line break (http/responses.rs:77).
FirstDecision(b) ==
    LET deciding == {p \in AllEnds(b) : Classify(WithoutCR(Raw(b, p))) # "undecided"}
    IN  IF deciding = {} THEN "forward"
        ELSE Classify(WithoutCR(Raw(b, CHOOSE p \in deciding : \A q \in deciding : p <= q)))

RetriedForFirstFailure ==
    route = "guarded" /\ phase \notin {"prefix", "rejected"} =>
        (current = 2 <=> FirstDecision(bodies[1]) = "retry")

\* A mapped stream fails over a line the mapper refuses or, where lines are
\* limited, one over the limit: never over several lines that arrived in one
\* chunk.  One that is read to its end had no such line (http/sse.rs:159).
FailedForCause ==
    ~Relaying /\ ~cut =>
        LET bad == {p \in AllEnds(Body) :
                        \/ Refused(TextOf(Raw(Body, p)))
                        \/ route = "adapted" /\ Len(Raw(Body, p)) > Limit}
        IN  /\ phase = "failed" => bad # {}
            /\ phase = "done" => bad = {}
=============================================================================
