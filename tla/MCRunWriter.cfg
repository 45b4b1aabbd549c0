SPECIFICATION Spec
CONSTANTS
  Dirs = {first, second}
  NoDirectory = NoDirectory
SYMMETRY MCSymmetry
INVARIANTS
  TypeOK
  MarkerProtects
PROPERTY CompletedRunsStay
