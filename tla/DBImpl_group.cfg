SPECIFICATION Spec
CONSTANTS
  Threads = {t1, t2, t3}
  Null = Null
  Requests <- AllRequests
  MaxOps = 1
  WriteBufferSize = 1
  CompactionTrigger = 1
  SlowdownTrigger = 1
  StopTrigger = 2
  SmallBatch = 1
  MaxBatch = 3
  MaxFaults = 1
  MaxExtra = 1
  MaxPieces = 0
  MaxLevels = 1
SYMMETRY Symmetry
INVARIANTS TypeOK LeaderIsHead QueueMembers NoLostSignal SequencesUnique AckedSynced WriteAhead WorkIsScheduled
PROPERTIES SnapshotStable ImplementsAtomicStore NoLogAfterSyncError
CHECK_DEADLOCK FALSE
