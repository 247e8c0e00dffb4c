SPECIFICATION FairSpec
CONSTANTS
  Files <- MCFiles
  Exported <- MCExported
  Refused <- MCTooLarge
  Unindexable <- MCTooLarge
  MaxVersion = 2
  MaxEdits = 2
  Quotas = {1, 2}
  MaxMappings = 1
  MaxPending = 1
  MaxDeaths = 1
INVARIANTS SettledIsCurrent UnmappedLeavesNothing QuotaKept
PROPERTIES OnlyTheGoneAreRemoved IndexCatchesUp
CHECK_DEADLOCK FALSE
