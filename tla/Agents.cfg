SPECIFICATION Spec
CONSTANTS
  None = None
  Rooms = {r1}
  Agents = {a1, a2, a3}
  FleetEvents = 4
  MaxAttempts = 1
  MaxTrouble = 1
  MaxCrashes = 1
  NoOne = NoOne
  Slots = {s1, s2}
  Peers = {p1, p2}
  SlotEvents = 2
  NoPlayer = NoPlayer
  Players = {1}
  SpeakQueue = 1
  QueueSize = 2
  Frames = 2
  MaxAsks = 2
  MaxTime = 3
  Faults = {"dial", "synthesize", "write", "send", "reject"}
SYMMETRY Symmetry
CHECK_DEADLOCK FALSE
INVARIANTS
  OneAgent
  RegistryIsCurrent
  ChatForwarded
  DepartedIsClosed
  EndedIsSilent
  SttFollows
  
  PlayedIsReported
