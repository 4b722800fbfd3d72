SPECIFICATION Spec
CONSTANTS
  Arm <- OneJoint
  gripper = "gripper"
  Threads <- Both
  MaxWire = 2
  MaxFaults = 1
  Refreshes = 0
  MaxSessions = 2
  Kinds = {"follower"}
  ReadDuring = {"idle", "act", "off"}
  Foreign <- OtherArm
INVARIANTS ConnectedMeansAnswered
CHECK_DEADLOCK FALSE
