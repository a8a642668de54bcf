SPECIFICATION Spec
CONSTANTS
  Procs = {"p", "q"}
  Runtimes = {"r"}
  Creators = {"q"}
  Destroyers = {"p"}
  MaxInstances = 2
  MaxPid = 2
PROPERTY NoUnflushedLoss
