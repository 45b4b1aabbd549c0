SPECIFICATION FairSpec
CONSTANTS
  Raw <- MCRaw
  Domains = {hardware, global}
  MaxFrames = 3
  MaxGap = 1
INVARIANTS
  TypeOK
  OneTimeline
  StatisticsOfTheEpoch
  NothingUnnoticed
PROPERTIES
  CallsReturn
