--------------------------- MODULE MCDurableTurns ---------------------------
(* DurableTurns on small sets of interchangeable ids. *)
EXTENDS DurableTurns, TLC

Symmetry == Permutations(Workers)
=============================================================================
