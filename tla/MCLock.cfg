SPECIFICATION Spec
CONSTANTS
  Txns <- Three
  Rows = {r1, r2}
  NoRow = NoRow
  CycleDetection = TRUE
  ReadUncommitted <- Empty
  Upgraders <- Two
  Killable <- Empty
SYMMETRY RowSymmetry
INVARIANTS
  NoLostWakeup
  NoStuckUpgradeFlag
  HolderDeadlocksAreSeen
  SearchDelivers
PROPERTIES
  TwoPhase
  VictimIsBlocked
  ImplementsLockTable
