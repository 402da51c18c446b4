SPECIFICATION Spec
CONSTANTS
  Streams = {s1, s2}
  None = None
  PartSize = 2
  MaxFrames = 1
  MaxCrashes = 1
  Faults = {"create", "upload", "complete", "answer", "disk", "report"}
  Overlap = TRUE
  Periodic = FALSE
  ScanLag = FALSE
  LateStarted = FALSE
  BreakAnywhere = TRUE
  s1 = s1
  s2 = s2
SYMMETRY Symmetry
CHECK_DEADLOCK FALSE
INVARIANTS
  PutNeverClobbers
  CompletedIsTrue
