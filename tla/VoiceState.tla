-------------------------------- MODULE VoiceState --------------------------------
(* What the agent's voice keeps, the Player of each session with its worker, silence *)
(* ticker and forwarder to record-service, and what its recorded track promises.     *)
EXTENDS Integers, Sequences

CONSTANTS NoPlayer,      \* a nil *ttsplayer.Player
          Players,       \* the players sessions may make
          SpeakQueue,    \* speakQueueSize (8)
          QueueSize,     \* maxQueueSize of a forwarder
          Frames,        \* whole frames of an utterance
          MaxAsks,       \* bound: tts_play requests
          MaxTime,       \* bound: frames of time
          Faults         \* subset of {"dial", "synthesize", "write", "send", "reject"}

\* A nil reference is no player's, and an utterance is a number of frames.
ASSUME VoiceAssumption == NoPlayer \notin Players /\ Frames \in Nat

VARIABLES player,    \* each Player
          refs,      \* sessionRefs.player
          main,      \* the session's goroutine, and what it is closing
          handler,   \* the player the tts_play handler has taken from refs
          now, asked, panicked
-----------------------------------------------------------------------------------
(* Promises.                                                                     *)

\* An utterance lies in the recording where its transcript says it starts, give or
\* take the one frame each earlier utterance is ahead of the clock: idle time,
\* synthesis and failed or stopped utterances are all in the recorded timeline, once.
SpeechIsPlaced ==
  \A p \in Players : \A i \in DOMAIN player[p].said :
    LET s == player[p].said[i] IN player[p].has => s.pos - s.at \in 0..(i - 1)

\* An utterance that was played to its end is reported before its track is reported
\* complete ("this report matters even when the utterance finished writing frames
\* right as Close() cancelled stopCtx", player.go:251-253).
PlayedIsReported == \A p \in Players : player[p].completed => ~player[p].owed
===================================================================================
