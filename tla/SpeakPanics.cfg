SPECIFICATION Spec
CONSTANTS
 NoPlayer=NoPlayer
 Players={1}
 SpeakQueue=1
 QueueSize=2
 Frames=1
 MaxAsks=1
 MaxTime=1
 Faults={}
CHECK_DEADLOCK FALSE
INVARIANT SpeakIsSafe
