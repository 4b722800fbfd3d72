SPECIFICATION HFairSpec
CONSTANTS
  c1 = c1
  c2 = c2
  NumMotors = 2
  WarmupCycles = 1
  MaxEmpty = 1
  MaxTxFail = 1
  StaleThreshold = 1
  Action = "HOLD"
  Callers <- OneCaller
  LoopCap = 4
  MaxResets = 1
  RxPatterns <- AllOrNone
  Readings = {TRUE, FALSE}
  OverspeedThreshold = 2
  OvercurrentThreshold = 1
INVARIANTS LoopInvariant TripIsPrompt LimpOnlyByDecision
PROPERTIES NeverStiffUnderFault RequestsAreTaken SilenceIsReported StopEnds
CHECK_DEADLOCK FALSE
