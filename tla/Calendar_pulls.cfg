\* Two local events, one of Google's, the worker and one request of the API; one answer is lost or one process dies.
CONSTANTS
  None = None
  Events = {e1, e2}
  Foreign = {g1}
  Texts = {a, b}
  Apis = {p1}
  Worker = Worker
  MaxEdits = 2
  MaxChanges = 1
  MaxTrouble = 1
SPECIFICATION Spec
SYMMETRY Symmetry
CHECK_DEADLOCK FALSE
INVARIANTS
  MadeOnce
  NothingSkipped
