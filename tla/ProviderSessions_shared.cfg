SPECIFICATION SessionSpec
CONSTANTS
  s1 = s1  s2 = s2  f1 = f1  f2 = f2  f3 = f3
  Procs = {p1, p2}
  Profiles = {f1, f2, f3}
  Backends = {b1, b2}
  Names = {}
  Tokens = {t1, t2}
  CliProfiles = {}
  CliDeletes = {}
  None = None
  Sessions = {s1, s2}
  providerProfileName <- OneSharedName
  LegacyProfiles = {}
  SavedProfiles = {f3}
  Leases = {l1, l2}
  MAX_DISPOSABLE_SESSIONS = 1
SYMMETRY SessionSymmetry
INVARIANT OneOwner
CHECK_DEADLOCK FALSE
