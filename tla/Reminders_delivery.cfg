\* One reminder with two texts, edited and moved, two workers, one phone; a query fails or a worker dies once.
CONSTANTS
  None = None
  Users = {u1}
  Installs = {i1}
  Tokens = {t1}
  Events = {r1}
  Explicit = {r1}
  Workers = {w1, w2}
  MaxAttempts = 1
  MaxRegistrations = 0
  MaxTrouble = 1
  Texts = {x1, x2}
  MaxTime = 2
  MaxRevision = 2
  MaxJobAttempts = 2
SPECIFICATION AllFairSpec
CHECK_DEADLOCK FALSE
INVARIANTS
  SaidAsItStands
  ScheduledKeepsItsJob
PROPERTIES
  ReminderComes
  EveryPushSettles
