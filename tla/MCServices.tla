------------------------------- MODULE MCServices -------------------------------
(* Finite instances of five models of the servers, checked in one run: the      *)
(* transcription of a track, how its audio becomes segments, live transcription, *)
(* the summary of a room and the event channels.  They share no state: `part`   *)
(* says which of them this behaviour is about, and the others rest.              *)
EXTENDS TranscriptPipeline, SummaryState, EventState, LiveState, SequencesExt, TLC

CONSTANTS Faults, MaxFaults, MaxCalls,
          NoRoom,
          Marker, Blacklist, Enders, MaxPacked, Bridge, Recordings, Texts, MaxSegments

VARIABLES part,
          \* MarkerSegments
          spans, packed, stage, heard, slots, yielded
\* Recordings of two spans, of three in one chunk, and of three in two chunks. A decoder
\* hears up to four words, or three of which "y" ends a sentence and "y y" is blacklisted, or
\* some longer texts: two markers, one that begins twice, spam before one, an echoed one.
TwoSpans == <<2, 1>>
SomeRecordings == {TwoSpans, <<1, 1, 3>>, <<3, 3, 1>>}
ThreeWords == <<"d", "m", "h">>
Spam == {<<"y", "y">>}
Heard == SeqOf({"d", "m", "h", "x"}, 4) \cup SeqOf({"x", "y"}, 3)
         \cup {<<"x">> \o ThreeWords \o <<"x">> \o ThreeWords \o <<"x">>, <<"x", "d", "m">> \o ThreeWords \o <<"x">>,
               <<"x", "y", "y">> \o ThreeWords \o <<"x">>, <<"x">> \o ThreeWords \o ThreeWords \o <<"y">>}

liveVars == <<socket, dispatcher, box, halted, sent, pipeline, chunks, emits, joining, stuck, breaker, trips, errors>>
roomVars == <<long, draft, messages, progress, summary, sections, outbox, fix, call, logged, stale, faults, calls>>
eventVars == <<conn, registered, queue, client, pos, overflowed, pushes, saving, saved, down, breaks>>

markerVars == <<spans, packed, stage, heard, slots, yielded>>

Live == INSTANCE LivePipelines
Room == INSTANCE RoomSummary
Events == INSTANCE EventChannels
Segments == INSTANCE MarkerSegments

\* bound: a second failure of the transcript only while there is one attempt at the track
Affordable == thread'[2].pc = "none" \/ trouble' <= 1

ServicesInit ==
  /\ part \in {"transcript", "live", "room", "events", "segments"}
  /\ Init /\ Live!Init /\ Room!Init /\ Events!Init /\ Segments!Init
  /\ part # "room" => ~long
  /\ part # "segments" => spans = TwoSpans
ServicesNext ==
  \/ part = "transcript" /\ Next /\ Affordable /\ UNCHANGED <<part, liveVars, roomVars, eventVars, markerVars>>
  \/ part = "live" /\ Live!Next /\ UNCHANGED <<part, vars, roomVars, eventVars, markerVars>>
  \/ part = "room" /\ Room!Next /\ UNCHANGED <<part, vars, liveVars, eventVars, markerVars>>
  \/ part = "events" /\ Events!Next /\ UNCHANGED <<part, vars, liveVars, roomVars, markerVars>>
  \/ part = "segments" /\ Segments!Next /\ UNCHANGED <<part, vars, liveVars, roomVars, eventVars>>
ServicesSpec == ServicesInit /\ [][ServicesNext]_<<part, vars, liveVars, roomVars, eventVars, markerVars>>

\* six messages, two of them in one second, the last ones past midnight
StampNight == <<3, 4, 4, 5, 0, 1>>
\* two tabs of one user in a room, the agent of the room, and a bot
Tab(n) == [name |-> n, kind |-> "messages", room |-> "r", app |-> "user"]
Agent == [name |-> 1, kind |-> "agent_requests", room |-> "r", app |-> "agent"]
Bot == [name |-> 1, kind |-> "metadata", room |-> NoRoom, app |-> "bot"]
ChatBot == [Bot EXCEPT !.kind = "chat_external"]
Everyone == {Tab(1), Tab(2), Agent, Bot, ChatBot}
\* no action tells one speaker, or one correction, from another
Alike == Permutations(Speakers) \cup Permutations(Correctors)
--------------------------------------------------------------------------------
(* The properties of MarkerSegments, stated with their comments there; those of    *)
(* live transcription, the summary and the event channels are in LiveState,        *)
(* SummaryState and EventState.                                                    *)

\* MarkerSegments: no speaker is given a marker, and no marker takes a speaker's words.
MarkersAreRemoved == Segments!MarkersAreRemoved
\* MarkerSegments: a chunk's text is divided at the least cost.
CutsAreCheapest == Segments!CutsAreCheapest
================================================================================
