SPECIFICATION Spec
CONSTANTS
  Deploy = FALSE
  Fused = FALSE
  HmacFaults = TRUE
  MaxCtrs = {2}
  UartCtrs = {1, 2}
  CtrMod = 4
  McMod = 5
  MaxRnd = 3
INVARIANTS
  TxOrdersCounters
  SnapshotIsActiveRecord
