SPECIFICATION Spec
CONSTANTS
  Txns = {t1, t2}
  Keys = {k1, k2}
  Vals = {v1, v2}
  NoTxn = NoTxn
  NoKey = NoKey
  Absent = Absent
  MaxLog = 6
  MaxCrashes = 2
SYMMETRY DataSymmetry
INVARIANTS
  RecoversCommitted
  UndoOwnChain
PROPERTY RecoveryAdvances
CHECK_DEADLOCK FALSE
