SPECIFICATION Spec
CONSTANTS
  c1 = c1 c2 = c2 c3 = c3 l1 = l1 l2 = l2
  Clients = {c1, c2, c3}
  Libraries = {l1, l2}
  None = None
  Jobs = {j1, j2}
  LibraryOf <- LibraryPaths
  Synchronous = {c3}
INVARIANTS LeaseReturnedOnce NoUseAfterRelease NeverRefusesShutdown
PROPERTY EveryJobSettles
CHECK_DEADLOCK FALSE
