SPECIFICATION FairSpec
CONSTANTS
  Threads = {t1, t2}
  Null = Null
  Requests <- LiveRequests
  MaxOps = 1
  WriteBufferSize = 0
  CompactionTrigger = 1
  SlowdownTrigger = 1
  StopTrigger = 1
  SmallBatch = 1
  MaxBatch = 3
  MaxFaults = 1
  MaxExtra = 1
  MaxPieces = 1
  MaxLevels = 2
INVARIANT ManualPointerValid
PROPERTIES EveryCallReturns
CHECK_DEADLOCK FALSE
