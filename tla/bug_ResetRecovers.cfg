SPECIFICATION HSpec
CONSTANTS
  c1 = c1
  c2 = c2
  NumMotors = 2
  WarmupCycles = 1
  MaxEmpty = 2
  MaxTxFail = 2
  StaleThreshold = 2
  Action = "DISABLE"
  Callers <- OneCaller
  LoopCap = 5
  MaxResets = 1
  RxPatterns <- AllOrNone
  Readings <- WithinLimits
  OverspeedThreshold = 1
  OvercurrentThreshold = 1
INVARIANTS ResetRecovers
CHECK_DEADLOCK FALSE
