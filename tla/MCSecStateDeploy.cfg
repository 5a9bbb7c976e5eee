SPECIFICATION Spec
CONSTANTS
  Deploy = TRUE
  Fused = TRUE
  HmacFaults = TRUE
  MaxCtrs = {2}
  UartCtrs = {1, 2}
  CtrMod = 4
  McMod = 5
  MaxRnd = 3
INVARIANTS
  TypeOK
  LeavesIncrease
  SlotsCoverReleases
  TxOrdersCounters
  SnapshotIsActiveRecord
