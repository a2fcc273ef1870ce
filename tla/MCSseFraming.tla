---------------------------- MODULE MCSseFraming ----------------------------
(***************************************************************************)
(* SseFraming over every body of a few bytes.  On the guarded route, F is  *)
(* a line that reports a failure worth asking again for, X any other event *)
(* and every longer line something that does not decide.                   *)
(***************************************************************************)
EXTENDS SseFraming

CONSTANTS F, X

BytesDef == {LF, CR, H1, H2, Replacement, F, X}

Upto(n, alphabet) == UNION {[1..k -> alphabet] : k \in 0..n}

\* Only whole characters.
WellFormed(b) ==
    \A k \in 1..Len(b) : /\ b[k] = H1 => k < Len(b) /\ b[k + 1] = H2
                         /\ b[k] = H2 => k > 1 /\ b[k - 1] = H1

Read(routes, firsts, seconds) == [route : routes, bodies : firsts \X seconds]

CasesDef ==
    Read({"relayed", "adapted"}, Upto(6, {LF, CR, X}), {<<>>})
    \union Read({"guarded"}, Upto(5, {LF, CR, F, X}), {<<>>, <<X>>, <<LF, X, LF>>})
    \union Read({"mapped"}, {b \in Upto(6, {LF, H1, H2, X}) : WellFormed(b)}, {<<>>})
    \union Read({"adapted", "mapped"}, Upto(4, {LF, CR, F}), {<<>>})

ClassifyDef(l) ==
    IF l = <<F>> THEN "retry" ELSE IF l = <<X>> THEN "forward" ELSE "undecided"

RefusedDef(l) == \E k \in 1..Len(l) : l[k] = F
=============================================================================
