SPECIFICATION Spec
CONSTANTS
  Kinds = {"single", "pair", "teleop"}
  Cameras = {"top", "wrist"}
  Release = FALSE
  MaxLoops = 4
  MaxReads = 2
INVARIANTS TypeOK ThreadsAreOwned DisconnectStops OneReadPerPort
PROPERTIES PromiseKept ZerosMeanStopped
CHECK_DEADLOCK FALSE
