CONSTANTS
  Clients = {c1, c2}
  Scanners = {c1}
  bg = bg
  MmapLimit = 1
  FdLimit = 0
  MaxFiles = 3
  MaxMemTables = 2
  CacheKeys = {1, 2, 3}
  MaxEntries = 2
  capacity_ = 1
SPECIFICATION Spec
INVARIANTS RefsExact TableCacheExact FilesStay NoStaleTable LimitersExact
