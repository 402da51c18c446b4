SPECIFICATION Spec
CONSTANTS
  r1 = r1
  r2 = r2
  t1 = t1
  t2 = t2
  Rooms = {r1, r2}
  Tracks = {t1}
  RoomOf <- RoomOfFirst
  TtsTracks = {}
  None = None
  Copies <- Once
  MaxCrashes = 1
  Faults = {"recording"}
  LateStarted = FALSE
CHECK_DEADLOCK FALSE
INVARIANTS
  RegisteredIsLive
PROPERTIES
  SupersededIsFinal
