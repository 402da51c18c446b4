-------------------------------- MODULE MCAgents --------------------------------
(* Finite instances of the three models of the agent tier, checked in one run.  *)
(* They share no state: `part` says which of them this behaviour is about, and  *)
(* the others stay in their initial states.                                     *)
EXTENDS FleetState, MediaState, VoiceState, Naturals, Sequences, TLC

CONSTANTS FleetEvents, MaxAttempts, MaxTrouble, MaxCrashes,                  \* AgentFleet
          SlotEvents                                                         \* MediaSlots

VARIABLE part

fleetVars == <<manager, queue, job, agents, file, writers, adopting, reaper, watch, killers, proc, socket,
               active, newest, unsaved, lost, events, trouble, crashes>>
mediaVars == <<owner, gone, sent, pool, midTable, revisions, ending, ended, sessions, departed, retired,
               sttEnabled, closed, toClose, reader, toggle>>
voiceVars == <<player, refs, main, handler, now, asked, panicked>>

Fleet == INSTANCE AgentFleet WITH MaxEvents <- FleetEvents
Media == INSTANCE MediaSlots WITH MaxEvents <- SlotEvents
Voice == INSTANCE TtsPlayer

Init == part \in {"fleet", "media", "voice"} /\ Fleet!Init /\ Media!Init /\ Voice!Init
Next == \/ part = "fleet" /\ Fleet!Next /\ UNCHANGED <<part, mediaVars, voiceVars>>
        \/ part = "media" /\ Media!Next /\ UNCHANGED <<part, fleetVars, voiceVars>>
        \/ part = "voice" /\ Voice!Next /\ UNCHANGED <<part, fleetVars, mediaVars>>
Spec == Init /\ [][Next]_<<part, fleetVars, mediaVars, voiceVars>>

Symmetry == Permutations(Agents)
--------------------------------------------------------------------------------
(* The properties of AgentFleet, MediaSlots and TtsPlayer are those of FleetState, *)
(* MediaState and VoiceState; one of TtsPlayer is stated with its comment there.   *)

\* TtsPlayer: every frame that was dropped is reported or still counted.
NothingUncounted == Voice!NothingUncounted
================================================================================
