SPECIFICATION MCSpec
CONSTANTS
  f1 = f1  f2 = f2
  main = main  demo = demo
  Procs = {p1, p2}
  Profiles = {f1, f2, f3}
  Backends = {b1}
  Names = {n1}
  Tokens = {}
  CliProfiles = {f1, f3}
  CliDeletes = {f3}
  None = None
  Nothing = Nothing
  Manifest <- TwoNames
  NameList <- TwoNames
  Destination = b1
  Restorers = {p1}
  Clients = {c1, c2}
  SpaceList <- TwoSpaces
  Originals <- Starts
  MaxEdits = 1
SYMMETRY Interchangeable
INVARIANTS OnlyPlannedIsRetired EvidenceIsKept SetIsNotSplit
PROPERTIES IsTransaction FreshBindingsStay
CHECK_DEADLOCK FALSE
