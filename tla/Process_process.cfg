CONSTANTS
  p1 = p1
  p2 = p2
  d1 = d1
  d2 = d2
  t1 = t1
  t2 = t2
  t3 = t3
  Nobody = Nobody
  Procs = {p1, p2}
  Dirs = {d1, d2}
  Databases = {t1, t2, t3}
  ProcOf <- TwoAndOne
  Places <- Apart
  MaxHandles = 1
SPECIFICATION FairSpec
INVARIANTS OneOwner UsesExist
PROPERTY EveryTaskRuns
