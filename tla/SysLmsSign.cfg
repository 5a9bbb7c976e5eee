SPECIFICATION SysSpec
CONSTANTS
  Deploy = TRUE
  Fused = TRUE
  HmacFaults = FALSE
  MaxCtrs = {2}
  UartCtrs = {1}
  CtrMod = 4
  McMod = 6
  MaxRnd = 1
  LmsSign = TRUE
  WindowLoss = FALSE
  MaxLoss = 2
INVARIANTS
  LeavesIncrease
