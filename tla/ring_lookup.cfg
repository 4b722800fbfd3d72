SPECIFICATION Spec
CONSTANTS
  RingSize = 3
  Readers = {r1}
  MaxAttempts = 2
  MaxSamples = 7
INVARIANTS TypeOK SnapshotUntornWithinLap LatestAtOrBefore MissIsExplained
CHECK_DEADLOCK FALSE
