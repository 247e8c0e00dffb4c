\* Two workers, each of which may stall anywhere for as long as it likes; two
\* turns, the second of which may retry the first; a login that may end.
CONSTANTS
  None = None
  NTurns = 2
  Sessions = {s1}
  Keys = {k1}
  Workers = {w1, w2}
  MaxActive = 2
  MaxAttempts = 2
  MaxHops = 2
  MaxDeaths = 0
  MaxThrows = 0
  OutOfProcess = FALSE
SPECIFICATION Spec
SYMMETRY Symmetry
CHECK_DEADLOCK FALSE
INVARIANTS
  RetryFindsNothing
  TurnsInOrder
PROPERTIES
  KeepsPromise
