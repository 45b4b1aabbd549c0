SPECIFICATION Spec
CONSTANTS
  Nothing = Nothing
  Positions = {0, 2, 5}
  MaxFinite = 4
  MaxPoints = 2
  Cursors = {0, 16}
  MaxPublish = 3
  MaxInputs = 2
INVARIANTS
  TypeOK
  ShowsOneMoment
PROPERTY ViewStaysPut
CHECK_DEADLOCK FALSE
