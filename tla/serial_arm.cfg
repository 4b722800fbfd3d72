SPECIFICATION Spec
CONSTANTS
  Arm <- OneJoint
  gripper = "gripper"
  Threads <- Both
  MaxWire = 2
  MaxFaults = 1
  Refreshes = 1
  MaxSessions = 2
  Kinds = {"chain", "follower"}
  ReadDuring = {"idle", "act", "off"}
  Foreign <- OtherArm
CONSTRAINT OneAtATime
INVARIANTS TypeOK DetectedMeansAnswered ReadyMeansReady FramesUnmixed
PROPERTIES StopDisables
CHECK_DEADLOCK FALSE
