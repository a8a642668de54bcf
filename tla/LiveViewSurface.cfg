SPECIFICATION SurfaceSpec
CONSTANTS
  MaxOps = 3
  MaxFrames = 1
  MaxResizes = 1
  MaxErrors = 1
  Kinds = {"connect", "disconnect", "dispose", "destroy"}
INVARIANTS SessionIsNewest NothingLeaks
PROPERTIES CallsSettle NewestIsShown
CHECK_DEADLOCK FALSE
