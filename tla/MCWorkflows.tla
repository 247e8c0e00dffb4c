---------------------------- MODULE MCWorkflows ----------------------------
(* Workflows on small sets. *)
EXTENDS Workflows, TLC
=============================================================================
