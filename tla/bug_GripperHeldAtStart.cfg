SPECIFICATION Spec
CONSTANTS
  OvercurrentThreshold = 1
  MaxCommands = 1
  MaxSessions = 2
INVARIANT GripperHeldAtStart
CHECK_DEADLOCK FALSE
