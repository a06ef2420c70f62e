SPECIFICATION Spec
CONSTANTS
  MaxByte = 9
  MaxTag = 99
  RestartInterval = 2
  kFilterBase = 3
  UserKeys <- MCUserKeys
  Contents <- MCContents
  MaxInserts = 1
INVARIANTS ValueIsNewest TableGetFindsNewest
PROPERTY ImplementsCursor
