SPECIFICATION LiveFairSpec
CONSTANTS
  MaxTime = 3
  Time <- MCTime
  ImuCapacity = 2
  StereoCapacity = 2
  MaxRejected = 0
  MaxTroubles = 1
INVARIANTS
  FinalizedIsWhole
PROPERTIES
  DecisionIsFinal
  RunEnds
CHECK_DEADLOCK FALSE
