--------------------------- MODULE MCTaskActions ---------------------------
(* TaskActions on small sets of interchangeable ids. *)
EXTENDS TaskActions, TLC

Symmetry == Permutations(Payloads) \cup Permutations(Edits) \cup Permutations(Workers)
============================================================================
