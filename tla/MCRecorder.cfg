SPECIFICATION FairSpec
CONSTANTS
  ImuCapacity = 1
  StereoCapacity = 1
  Capacity <- MCCapacity
  MaxFaults = 2
INVARIANTS
  TypeOK
  CompleteIsWhole
  MarkerKept
PROPERTY DrainEnds
CHECK_DEADLOCK FALSE
