SPECIFICATION MCSpec
CONSTANTS
  s1 = s1  s2 = s2  f1 = f1  f2 = f2  f3 = f3
  Procs = {p1, p2}
  Profiles = {f1, f2, f3}
  Backends = {b1}
  Names = {}
  Tokens = {t1, t2}
  CliProfiles = {f3}
  CliDeletes = {}
  None = None
  Sessions = {s1, s2}
  providerProfileName <- DistinctNames
  LegacyProfiles = {f1}
  SavedProfiles = {f3}
  Leases = {l1, l2}
  MAX_DISPOSABLE_SESSIONS = 1
  MaxChanges = 1
  Script <- TwoActions
SYMMETRY SessionSymmetry
INVARIANTS OneOwner SourceIsRetained InputIsPermitted OnlyPinnedIsDestroyed VerifiedIsWhole
PROPERTIES SavedStorageSurvives OnlyOwnerCleansUp DisposableLeavesNothing
CHECK_DEADLOCK FALSE
