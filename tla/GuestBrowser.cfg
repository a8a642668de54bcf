SPECIFICATION MCSpec
CONSTANTS
  Procs = {"p", "q"}
  Runtimes = {"r"}
  Creators = {"q"}
  Destroyers = {"p"}
  MaxInstances = 2
  MaxPid = 2
  t1 = t1  t2 = t2
  Tabs = {t1, t2}
  Found <- FoundBrowsers
  Temporary = temporary
  NoTab = NoTab
  MaxLate = 2
  MaxClosed = 1
INVARIANTS DestroyCleansForwarding LeavesBrowserAsFound
PROPERTIES ArchiveIsWhole WritesReachDisk OnlyExpectedIsDeleted
CHECK_DEADLOCK FALSE
