-------------------------------- MODULE MediaState --------------------------------
(* What mezon-sfu, the agent's read loops and the participant bridge keep of a      *)
(* media pool, and what it promises.                                               *)

CONSTANTS NoOne,        \* the holder of a slot nobody holds
          Slots,        \* audio slots of the pool, one MID each
          Peers         \* peer connections, each leaving at most once

\* That a slot is held is a flag of its own (assigned), which no peer id can stand for.
ASSUME NoOneAssumption == NoOne \notin Peers

VARIABLES owner,      \* the SFU's slots: owner and generation
          gone,       \* peers that have left, according to the SFU
          sent,       \* events so far
          pool,       \* PeerAgent.pool
          midTable,   \* PeerAgent.midTable with activeMids
          revisions,  \* nextBindingRevision
          ending,     \* goroutines in OnTrackEnded
          ended,      \* bindings whose OnTrackEnded has returned (for the properties)
          sessions,   \* participantBridge.sessions, by peer
          departed, retired, sttEnabled, closed,     \* participantBridge
          toClose,    \* sessions taken out of the table, to be closed
          reader,     \* the read loop of a slot's track
          toggle      \* sessions SetSTTEnabled has still to visit
-----------------------------------------------------------------------------------
(* Promises.                                                                     *)

\* A peer that has left, or whose agent session is over, has no open sink once its
\* close has run: no late packet, toggle or end of a binding opens one again
\* ("blocks late packets from recreating a departed peer's sinks").
DepartedIsClosed == \A p \in Peers : (p \in departed \/ closed) /\ p \notin toClose => sessions[p].at # "open" /\ ~sessions[p].stt

\* A binding that was ended is silent: once its OnTrackEnded has returned, no packet
\* read under it is written, though it may have been accepted before; except the
\* one packet the close of its session is waiting for.
EndedIsSilent == \A s \in Slots : reader[s].at = "write" /\ reader[s].info.peer \notin toClose =>
                   reader[s].info.rev \notin ended

\* Transcription off is off: when no toggle is under way and transcription is
\* disabled, no session holds a transcription sink, whichever packet was opening
\* one meanwhile; one that is about to be closed aside.
SttFollows == toggle = {} /\ ~sttEnabled => \A p \in Peers \ toClose : ~sessions[p].stt
===================================================================================
