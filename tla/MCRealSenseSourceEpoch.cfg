SPECIFICATION Spec
CONSTANTS
  Raw = {0, 1}
  Domains = {hardware, global}
  MaxFrames = 2
  MaxGap = 0
INVARIANT CleanEpoch
