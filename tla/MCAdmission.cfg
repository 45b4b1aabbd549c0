CONSTANTS
  Missing = Missing
  Malformed = Malformed
  ScaleUnit = 10000000
  PixelUnit = 10000
  MatrixUnit = 1000
  MatrixTolerance = 10
  MatrixDigits = 100
  Situations <- MCSituations
  Editions <- MCEditions
  Rigs <- MCRigs
  Requests <- MCRequests
  MaxSessions = 2
  MaxEdits = 1

SPECIFICATION Spec

INVARIANTS
  TypeOK
  EstimatesAsCalibrated

PROPERTIES
  SameVerdict
  ExportIsAdmissible

CHECK_DEADLOCK FALSE
