---------------------------- MODULE MCReminders ----------------------------
(* Reminders on small sets. *)
EXTENDS Reminders, TLC
=============================================================================
