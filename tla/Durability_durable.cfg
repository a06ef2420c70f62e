SPECIFICATION Spec
CONSTANTS
  ReuseLogs = FALSE
  Failing = {"append", "fsync", "newlog", "table", "manifest", "current", "remove", "read"}
  MaxWrites = 2
  MaxEvents = 4
PROPERTY ImplementsDurableStore
INVARIANT TypeOK CanOpen SequenceOrder NothingLeftBehind
CHECK_DEADLOCK FALSE
