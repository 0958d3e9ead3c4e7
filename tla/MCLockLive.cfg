SPECIFICATION FairSpec
CONSTANTS
  Txns <- Two
  Rows = {r1, r2}
  NoRow = NoRow
  CycleDetection = TRUE
  ReadUncommitted <- Empty
  Upgraders <- Two
  Killable <- Last
INVARIANTS
  MutualExclusion
  QueueMatchesLockSets
  FinishedHoldsNothing
  NoDuplicateRequest
PROPERTY WaitsEnd
