SPECIFICATION Spec
CONSTANTS
  DataStart = 2
  Total = 8
PROPERTIES
  ScanIsFirstFit
CHECK_DEADLOCK FALSE
