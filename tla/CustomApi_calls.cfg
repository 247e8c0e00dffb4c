\* One person who decides in two tabs, and one administrator, who edits, tests, moves and switches what is being asked for.
CONSTANTS
  None = None
  Owners = {u1}
  Endpoints = {e1}
  Calls = {c1}
  Hosts = {h1, h2}
  Paths = {p1}
  Meanings = {read, write}
  Reads = {read}
  Arguments = {x1}
  Asks = {a1}
  Taps = {t1, t2}
  Admins = {d1}
  MaxChanges = 2
SPECIFICATION FairSpec
CHECK_DEADLOCK FALSE
INVARIANTS
  ExecutedWasSent
  SentAsApproved
PROPERTIES
  KeepsConsent
  EveryCallSettles
