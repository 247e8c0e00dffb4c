\* Two turns of one conversation, two tasks, the expiry job, two workers of
\* which one may die; the owner decides approvals and edits nothing.
CONSTANTS
  None = None
  Tasks = {t1, t2}
  Approvals = {a1, a2}
  Payloads = {p1}
  Turns = {u1, u2}
  Edits = {}
  Workers = {w1, w2}
  EditTargets = {}
  MaxCrashes = 1
SPECIFICATION FairSpec
CHECK_DEADLOCK FALSE
INVARIANTS
  RefusedIsNeverSent
  ApprovalAndActionAgree
PROPERTIES
  OutcomeIsFinal
  EveryDraftSettles
