\* One local event and the worker, which may die once.  SyncedIsPushed is violated.
CONSTANTS
  None = None
  Events = {e1}
  Foreign = {}
  Texts = {a, b}
  Apis = {}
  Worker = Worker
  MaxEdits = 2
  MaxChanges = 0
  MaxTrouble = 1
SPECIFICATION Spec
SYMMETRY Symmetry
CHECK_DEADLOCK FALSE
INVARIANTS SyncedIsPushed
