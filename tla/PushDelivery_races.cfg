\* Two workers, one of them slow or dying, and two accounts that take turns on one phone.
CONSTANTS
  None = None
  Users = {u1, u2}
  Installs = {i1}
  Tokens = {t1, t2}
  Events = {e1}
  Explicit = {}
  Workers = {w1, w2}
  MaxAttempts = 2
  MaxRegistrations = 2
  MaxTrouble = 1
SPECIFICATION Spec
SYMMETRY Symmetry
CHECK_DEADLOCK FALSE
INVARIANTS
  SentToItsOwner
  OneCopyKept
PROPERTIES
  NewTokenSurvives
