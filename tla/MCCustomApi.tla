---------------------------- MODULE MCCustomApi ----------------------------
(* CustomApi on small sets of interchangeable ids. *)
EXTENDS CustomApi, TLC

Symmetry ==
  Permutations(Owners) \cup Permutations(Calls) \cup Permutations(Asks)
    \cup Permutations(Taps) \cup Permutations(Admins) \cup Permutations(Arguments)
=============================================================================
