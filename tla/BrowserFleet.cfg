SPECIFICATION Spec
CONSTANTS
  Procs = {p1, p2}
  Profiles = {f1, f2}
  Backends = {b1, b2}
  Names = {n1, n2}
  Tokens = {}
  CliProfiles = {f1, f2}
  CliDeletes = {f2}
  None = None
SYMMETRY FleetSymmetry
INVARIANTS MountedOnce MountedVolumeExists SingleHome
CHECK_DEADLOCK FALSE
