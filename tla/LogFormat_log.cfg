SPECIFICATION Spec
CONSTANTS
  BlockSize = 6
  HeaderSize = 2
  Sizes = {0, 1, 2, 6}
  ReuseLogs = TRUE
  MaxRecords = 3
  MaxFaults = 1
  MaxCrashes = 1
INVARIANTS TypeOK WriterAligned ReadIntact NoFalseAlarm
PROPERTY ImplementsRecordLog
CHECK_DEADLOCK FALSE
