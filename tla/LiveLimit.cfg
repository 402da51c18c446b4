SPECIFICATION Spec
CONSTANTS
  Nobody = Nobody
  Sockets = {c1, c2}
  Speakers = {k1, k2}
  MaxClients = 1
  AudioQueue = 2
  BoxSize = 1
  Batch = 2
  Block = 3
  Threshold = 3
  MaxChunks = 4
  MaxErrors = 1
SYMMETRY Symmetry
CHECK_DEADLOCK FALSE
INVARIANTS
  LimitRejects
