---------------------------- MODULE ConsentOnce ----------------------------
(***************************************************************************)
(* What asking for permission promises: a request is carried out at most   *)
(* once, only after the person it was prepared for agreed to it, and never *)
(* after it was turned down, ran out of time or was withdrawn unanswered.  *)
(* An agreement cannot be taken back: a request already on its way is sent.*)
(***************************************************************************)
EXTENDS Naturals

CONSTANTS
  Requests,  \* what may be asked
  People,
  Nobody

VARIABLES
  phase,    \* unasked, asked, granted or refused
  asked,    \* whom each request was prepared for
  consent,  \* who agreed to it
  carried   \* how often it was carried out

vars == <<phase, asked, consent, carried>>

Init ==
  /\ phase = [r \in Requests |-> "unasked"]
  /\ asked = [r \in Requests |-> Nobody]
  /\ consent = [r \in Requests |-> Nobody]
  /\ carried = [r \in Requests |-> 0]

Ask(r, p) ==
  /\ phase[r] = "unasked"
  /\ phase' = [phase EXCEPT ![r] = "asked"]
  /\ asked' = [asked EXCEPT ![r] = p]
  /\ UNCHANGED <<consent, carried>>

Agree(r) ==
  /\ phase[r] = "asked"
  /\ phase' = [phase EXCEPT ![r] = "granted"]
  /\ consent' = [consent EXCEPT ![r] = asked[r]]
  /\ UNCHANGED <<asked, carried>>

\* Several requests may run out, or be withdrawn, at once.
Refuse(R) ==
  /\ \A r \in R : phase[r] = "asked"
  /\ phase' = [r \in Requests |-> IF r \in R THEN "refused" ELSE phase[r]]
  /\ UNCHANGED <<asked, consent, carried>>

CarryOut(r) ==
  /\ phase[r] = "granted" /\ consent[r] = asked[r]
  /\ carried[r] = 0
  /\ carried' = [carried EXCEPT ![r] = 1]
  /\ UNCHANGED <<phase, asked, consent>>

Next ==
  \/ \E r \in Requests, p \in People : Ask(r, p)
  \/ \E r \in Requests : Agree(r) \/ CarryOut(r)
  \/ \E R \in SUBSET Requests : Refuse(R)

Spec == Init /\ [][Next]_vars
============================================================================
