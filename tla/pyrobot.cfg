SPECIFICATION Spec
CONSTANTS
  OvercurrentThreshold = 2
  MaxCommands = 2
  MaxSessions = 2
INVARIANTS TypeOK HoldsUntilCommanded DampingHolds
CHECK_DEADLOCK FALSE
