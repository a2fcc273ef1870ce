----------------------------- MODULE MCModelStats -----------------------------
(* A small instance of ModelStats: two ids, one of them listed by everybody, *)
(* and a file that is missing, complete, or that was cut by hand.            *)
EXTENDS ModelStats, TLC

ListerSymmetry == Permutations(Listers)
MCListings == {{"a"}, {"a", "b"}}
MCFiles == {[entries |-> <<>>, resolved |-> {}],
            [entries |-> "a" :> 1, resolved |-> {"a", "b"}]}
=============================================================================
