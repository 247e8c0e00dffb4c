\* The shipped deployment: one worker, which may die twice and comes back, and
\* of whose jobs one may end with an exception.
CONSTANTS
  None = None
  NTurns = 2
  Sessions = {s1}
  Keys = {k1}
  Workers = {w1}
  MaxActive = 2
  MaxAttempts = 2
  MaxHops = 2
  MaxDeaths = 2
  MaxThrows = 1
  OutOfProcess = FALSE
SPECIFICATION FairSpec
CHECK_DEADLOCK FALSE
INVARIANTS
  EffectsRunOnce
  CapacityIsExact
PROPERTIES
  AcceptedIsSettled
