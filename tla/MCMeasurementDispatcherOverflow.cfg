SPECIFICATION Spec
CONSTANTS
  MaxTime = 3
  Time <- MCTime
  ImuCapacity = 2
  StereoCapacity = 1
  MaxRejected = 0
INVARIANTS
  DeliveredFramesCovered
