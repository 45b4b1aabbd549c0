SPECIFICATION Spec
CONSTANTS
  ImuCapacity = 1
  StereoCapacity = 1
  Capacity <- MCCapacity
  MaxFaults = 1
INVARIANT WriteFailureKeepsMarker
CHECK_DEADLOCK FALSE
