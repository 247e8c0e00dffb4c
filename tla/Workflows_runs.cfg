\* One run decided on in two tabs, an administrator who changes the connection, a provider that calls back twice at once.
CONSTANTS
  None = None
  Runs = {r1}
  Owners = {u1}
  Taps = {t1, t2}
  Admins = {a1}
  Deliveries = {d1, d2}
  Bases = {b1}
  Targets = {g1}
  MaxChanges = 2
  MaxTrouble = 1
SPECIFICATION FairSpec
CHECK_DEADLOCK FALSE
INVARIANTS
  SentAsPrepared
  
  SucceededWasReported
  AcknowledgedStays
PROPERTIES
  KeepsConsent
  CompletedIsSettled
