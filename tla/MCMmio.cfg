SPECIFICATION FairSpec
CONSTANTS
  Shake = TRUE
  Caps = {"hash", "coef", "batch", "sec", "imm"}
  Polls = 2
  Fallback = FALSE
  CallMod = 3
INVARIANTS TypeOK OwnResult OwnCoefficients NoDroppedWrite
PROPERTIES RefusalNeedsTimeout CallReturns
