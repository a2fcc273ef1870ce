--------------------------- MODULE MCResponsesState ---------------------------
(* Small instances of ResponsesState: clients are interchangeable. *)
EXTENDS ResponsesState, TLC

ClientSymmetry == Permutations(Clients)
=============================================================================
