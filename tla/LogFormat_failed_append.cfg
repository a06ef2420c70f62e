SPECIFICATION Spec
CONSTANTS
  BlockSize = 6
  HeaderSize = 2
  Sizes = {0, 1, 2, 6}
  ReuseLogs = FALSE
  MaxRecords = 3
  MaxFaults = 1
  MaxCrashes = 0
INVARIANTS AckedReadable
CHECK_DEADLOCK FALSE
