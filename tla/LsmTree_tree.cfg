SPECIFICATION Spec
CONSTANTS
  NumKeys = 3
  NumLevels = 3
  MaxMemLevel = 1
  ExpandLimit = 9
  Settings <- CutOrManual
  NoCompaction = NoCompaction
INVARIANTS LevelsDisjoint NewerAbove
PROPERTY ImplementsSnapshotMap
CHECK_DEADLOCK FALSE
