---------------------------- MODULE RequestOnce ----------------------------
(***************************************************************************)
(* What a durable conversation turn promises the person who sent it: a     *)
(* request is answered at most once; each consequential effect of it is    *)
(* reserved before it happens and happens at most once; and a request that *)
(* failed is tried again only when nothing of it was ever reserved.        *)
(***************************************************************************)
CONSTANTS
  Requests,  \* what people asked for
  Keys,      \* the consequential effects a request may ask for
  Occasions  \* what tells two executions of an effect apart

VARIABLES
  phase,     \* absent, working, answered or failed
  reserved,  \* effects announced before they were carried out
  acted      \* the occasions on which each effect was carried out

vars == <<phase, reserved, acted>>

Init ==
  /\ phase = [r \in Requests |-> "absent"]
  /\ reserved = [r \in Requests |-> {}]
  /\ acted = [r \in Requests |-> [k \in Keys |-> {}]]

Move(r, from, to) == phase[r] = from /\ phase' = [phase EXCEPT ![r] = to]

Accept(r) == Move(r, "absent", "working") /\ UNCHANGED <<reserved, acted>>

Answer(r) == Move(r, "working", "answered") /\ UNCHANGED <<reserved, acted>>

\* Losing a login gives up every request that was waiting under it at once.
GiveUp(R) ==
  /\ \A r \in R : phase[r] = "working"
  /\ phase' = [r \in Requests |-> IF r \in R THEN "failed" ELSE phase[r]]
  /\ UNCHANGED <<reserved, acted>>

TryAgain(r) ==
  /\ reserved[r] = {}
  /\ Move(r, "failed", "working")
  /\ UNCHANGED <<reserved, acted>>

Reserve(r, k) ==
  /\ phase[r] = "working"
  /\ k \notin reserved[r]
  /\ reserved' = [reserved EXCEPT ![r] = @ \cup {k}]
  /\ UNCHANGED <<phase, acted>>

\* An effect under way is not called back when its request is given up.
Act(r, k) ==
  /\ k \in reserved[r]
  /\ acted[r][k] = {}
  /\ \E o \in Occasions : acted' = [acted EXCEPT ![r] = [@ EXCEPT ![k] = {o}]]
  /\ UNCHANGED <<phase, reserved>>

Next ==
  \/ \E r \in Requests : Accept(r) \/ Answer(r) \/ TryAgain(r)
  \/ \E R \in SUBSET Requests : GiveUp(R)
  \/ \E r \in Requests, k \in Keys : Reserve(r, k) \/ Act(r, k)

Spec == Init /\ [][Next]_vars
============================================================================
