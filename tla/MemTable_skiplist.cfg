SPECIFICATION Spec
CONSTANTS
  UserKeys = {1, 2}
  kMaxHeight = 3
  MaxSequence = 3
INVARIANTS LinkIsStored
PROPERTIES ImplementsSortedSet GetFindsNewest
