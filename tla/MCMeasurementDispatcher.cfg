SPECIFICATION FairSpec
CONSTANTS
  MaxTime = 5
  Time <- MCTime
  ImuCapacity = 2
  StereoCapacity = 2
  MaxRejected = 1
INVARIANTS
  TypeOK
  Conservation
  FrontAlwaysThere
  NoLostWakeup
  CleanExit
PROPERTIES
  KeepsPromise
  StopReturns
  ReadyFramesLeave
