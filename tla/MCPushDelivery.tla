-------------------------- MODULE MCPushDelivery --------------------------
(* PushDelivery on small sets of interchangeable ids. *)
EXTENDS PushDelivery, TLC

Symmetry == Permutations(Workers) \cup Permutations(Tokens) \cup Permutations(Users)
=============================================================================
