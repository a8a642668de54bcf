SPECIFICATION Spec
CONSTANTS
  Procs = {p1, p2, p3}
  None = None
  MaxOps = 1
SYMMETRY ProcSymmetry
INVARIANT SerializedAcrossCrashes
CHECK_DEADLOCK FALSE
