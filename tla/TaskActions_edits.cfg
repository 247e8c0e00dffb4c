\* One drafted task; two requests of the owner may edit its slots, make it
\* ready again, cancel or close it at any point; two workers, one death.
CONSTANTS
  None = None
  Tasks = {t1}
  Approvals = {a1}
  Payloads = {p1, p2}
  Turns = {u1}
  Edits = {e1, e2}
  Workers = {w1, w2}
  EditTargets = {"ready", "cancelled", "confirmed"}
  MaxCrashes = 1
SPECIFICATION Spec
SYMMETRY Symmetry
CHECK_DEADLOCK FALSE
INVARIANTS
  ExactConsent
  OneCallPerReadyTask
