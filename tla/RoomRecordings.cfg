SPECIFICATION Spec
CONSTANTS
  r1 = r1
  r2 = r2
  t1 = t1
  t2 = t2
  Rooms = {r1}
  Tracks = {t1, t2}
  RoomOf <- RoomOfFirst
  TtsTracks = {t2}
  None = None
  Copies <- Once
  MaxCrashes = 0
  Faults = {"recording", "stt"}
  LateStarted = FALSE
CHECK_DEADLOCK FALSE
INVARIANTS
  FireOnce
  
