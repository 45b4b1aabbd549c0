\* Capacity 3: all three buffers overflow, and runs without overflow exist.
CONSTANTS
  MaxTime = 5
  Time <- MCTime
  Requested = 3
  MaxRejected = 1
SPECIFICATION FairSpec
INVARIANTS TypeOK BracketsAreNeighbours AccountedFor OutcomeIndependentOfArrival
PROPERTY ProcessReturns
CHECK_DEADLOCK FALSE
