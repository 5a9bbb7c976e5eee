SPECIFICATION Spec
CONSTANTS
  ADDRW = 2
  DEPTH = 4
  Transfers <- MCTransfers
  WordBytes = 2
  Data = {0, 1, 2, 3, 4, 5, 6, 7, 8, 9, 10}
  RX_DEPTH = 2
  Frame = 1
  Gap = 3
INVARIANT Conservative
INVARIANT HeadIsOldest
INVARIANT NoLoss
INVARIANT InOrder
INVARIANT StoredWhenDone
PROPERTY Completes
