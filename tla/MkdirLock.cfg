SPECIFICATION FairSpec
CONSTANTS
  Procs = {p1, p2, p3}
  None = None
  MaxOps = 1
INVARIANT ExclusiveUntilStale
PROPERTIES OnlyMakerRemoves AcquireEnds
CHECK_DEADLOCK FALSE
