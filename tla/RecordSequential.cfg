SPECIFICATION Spec
CONSTANTS
  Streams = {s1, s2}
  None = None
  PartSize = 2
  MaxFrames = 3
  MaxCrashes = 0
  Faults = {"create", "upload", "complete", "abort"}
  Overlap = FALSE
  Periodic = TRUE
  ScanLag = FALSE
  LateStarted = FALSE
  BreakAnywhere = FALSE
  s1 = s1
  s2 = s2
CHECK_DEADLOCK FALSE
INVARIANTS
  NeverClosedWhileFed
  CompletedHoldsAll
