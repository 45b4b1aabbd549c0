SPECIFICATION FairSpec
\* A gap of one step is the longest that is judged; any two steps of one kind decide,
\* and three without a decision end the warm-up.
CONSTANTS
  MaxTime = 5
  Time <- MCTime
  MaxSampleGap = 1
  DegradeAfter = 2
  RecoverAfter = 2
  WarmupTimeout = 3
INVARIANTS
  FedAsLive
  UsesWhatItCan
  StatusIsDeserved
PROPERTIES
  StopIsObeyed
  KeepsPromise
CHECK_DEADLOCK FALSE
