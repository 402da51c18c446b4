SPECIFICATION FairSpec
CONSTANTS
  Streams = {s1}
  None = None
  PartSize = 2
  MaxFrames = 3
  MaxCrashes = 2
  Faults = {"create", "upload", "report"}
  Overlap = FALSE
  Periodic = TRUE
  ScanLag = FALSE
  LateStarted = FALSE
  BreakAnywhere = FALSE
  s1 = s1
CHECK_DEADLOCK FALSE

  
  
  
PROPERTIES
  EverySessionTold
  EveryUploadCloses
