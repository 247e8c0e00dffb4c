----------------------------- MODULE MCCalendar -----------------------------
(* Small instances of Calendar for TLC. *)
EXTENDS Calendar, TLC

Symmetry == Permutations(Events) \cup Permutations(Texts)
=============================================================================
