SPECIFICATION ServicesSpec
CONSTANTS
  NoOne = NoOne
  Nobody = Nobody
  MaxAttempts = 2
  Batches = 2
  MaxRetries = 1
  MaxTrouble = 2
  Conns = {1, 2}
  Sockets = {1, 2}
  Speakers = {k1, k2}
  MaxClients = 1
  AudioQueue = 2
  BoxSize = 1
  Batch = 2
  Block = 3
  Threshold = 3
  MaxChunks = 4
  MaxErrors = 1
  Stamp <- StampNight
  Summarisers = {w1}
  Correctors = {a1, a2}
  TailSize = 2
  Windows = {0, 1}
  ChunkDuration = 1
  Faults = {"llm", "db", "sections", "outbox", "crash"}
  MaxFaults = 2
  MaxCalls = 3
  NoRoom = NoRoom
  Clients <- Everyone
  Kinds = {"messages", "agent_requests", "metadata", "chat_external"}
  QueueSize = 2
  MaxEvents = 2
  MaxBreaks = 1
  Marker <- ThreeWords
  Blacklist <- Spam
  Enders = {"y"}
  MaxPacked = 7
  Bridge = 1
  Recordings <- SomeRecordings
  Texts <- Heard
  MaxSegments = 2
SYMMETRY Alike
CHECK_DEADLOCK FALSE
INVARIANTS
  BatchesInOrder
  CompletedIsWhole
  CountIsRows
  NeverStuck
  
  TailIsHeard
  SummaryIsWhole
  ProgressIsTrue
  MissingIsQueued
  NewestMissesNothing
  MarkersAreRemoved
  CutsAreCheapest
