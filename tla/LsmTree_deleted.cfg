SPECIFICATION Spec
CONSTANTS
  NumKeys = 2
  NumLevels = 3
  MaxMemLevel = 1
  ExpandLimit = 9
  Settings <- CutAndManual
  NoCompaction = NoCompaction
INVARIANT DeletedStaysDeleted
CHECK_DEADLOCK FALSE
