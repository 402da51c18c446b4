
----------------------------- MODULE RoomLifecycle -----------------------------
(***************************************************************************)
(* The orchestrator's rooms and tracks: a room is registered by an agent,  *)
(* its tracks are recorded, transcribed and transcoded, and when it has    *)
(* been finalized two facts are computed by whichever handler comes last:  *)
(* that its recordings are ready (room_record_done is pushed) and that it  *)
(* is complete (its summary is generated).                                 *)
(*                                                                         *)
(* A call is one delivery of one request or stream message to a handler.   *)
(* A step of a handler is one committed SQL transaction, one Redis command *)
(* or one push: other handlers (of this or another worker process) run     *)
(* between any two.  A sender that got no answer delivers again, as the    *)
(* same call after a crash or, beside a handler that is still running, as  *)
(* the next copy.                                                          *)
(***************************************************************************)
EXTENDS Naturals, FiniteSets

CONSTANTS
    Rooms,          \* session ids minted by the agents that serve one room_name
    Tracks,         \* recording ids
    RoomOf,         \* the session each track is recorded in
    TtsTracks,      \* the agents' own tracks: their text is known, no Whisper
    None,           \* no room
    Copies,         \* bound: deliveries of each kind of call
    MaxCrashes,     \* bound: orchestrator crashes
    Faults,         \* what may fail, see FaultKinds
    LateStarted     \* recording.started may be handled after the room is finalized

TrackOps == {"started", "completed", "failed", "derived", "saved", "tts"}
RoomOps  == {"register", "unregister", "final"}
FaultKinds == {"recording", "stt", "transcode", "save", "queue", "check"}

ASSUME RoomsAssumption == None \notin Rooms
ASSUME TracksAssumption == RoomOf \in [Tracks -> Rooms] /\ TtsTracks \subseteq Tracks
ASSUME CopiesAssumption ==
    Copies \in [TrackOps \cup RoomOps -> Nat] /\ Copies["final"] = Copies["unregister"]
ASSUME EnvAssumption ==
    /\ MaxCrashes \in Nat /\ Faults \subseteq FaultKinds /\ LateStarted \in BOOLEAN

--------------------------------------------------------------------------------
Deliveries(ops, ids) ==
    UNION {{<<op, x, n>> : x \in ids, n \in 1..Copies[op]} : op \in ops}
Calls == Deliveries(TrackOps, Tracks) \cup Deliveries(RoomOps, Rooms)
Op(c) == c[1]
On(c) == c[2]

\* the columns status and derivative_status of a track
NoRow == [stt |-> "none", der |-> "none"]
Stts  == {"pending", "wait_process", "completed", "failed"}
Ders  == {"pending", "completed", "failed"}
Rows  == [stt : Stts, der : Ders] \cup {NoRow}
Unfinished == {"pending", "wait_process"}

VARIABLES
    registry,     \* Redis rooms:registry[room_name]
    room,         \* rooms.status
    notified,     \* rooms.record_notified_at is set
    track,        \* the tracks rows
    queued,       \* tasks added to transcription:stream and audio_derivative:stream
    recording,    \* record-service: the recording and its outcome
    transcript,   \* stt_service or the agent: the last marker sent
    derivative,   \* audio-processing-service: the outcome it reports
    pc,           \* where each call is
    current,      \* register, unregister: the room_id the registry named
    read,         \* the row as the ORM session loaded it
    outcome,      \* the outcome the message carries
    pushed,       \* room_record_done pushes of each room
    summaries,    \* summaries generated for each room
    crashes       \* history: crashes so far

roomVars == <<registry, room, notified>>
envVars  == <<recording, transcript, derivative>>
tallies  == <<pushed, summaries>>
vars == <<roomVars, track, queued, envVars, pc, current, read, outcome, tallies, crashes>>

Pcs == {"idle", "done", "error", "resolve", "insert", "load", "write", "stt", "derive", "mark",
        "final", "notify", "push", "count", "complete", "summary", "ack",
        "current", "create", "overwrite", "delete"}

TypeOK ==
    /\ registry \in Rooms \cup {None}
    /\ room \in [Rooms -> {"none", "pending", "final_room", "completed"}]
    /\ notified \in [Rooms -> BOOLEAN]
    /\ track \in [Tracks -> Rows]
    /\ queued \subseteq {"stt", "derive"} \X Tracks
    /\ recording \in [Tracks -> {"no", "yes", "completed", "failed"}]
    /\ transcript \in [Tracks -> {"no", "completed", "failed"}]
    /\ derivative \in [Tracks -> {"no", "completed", "failed"}]
    /\ pc \in [Calls -> Pcs]
    /\ current \in [Calls -> Rooms \cup {None}]
    /\ read \in [Calls -> Rows]
    /\ outcome \in [Calls -> {"completed", "failed"}]
    /\ pushed \in [Rooms -> Nat] /\ summaries \in [Rooms -> Nat]
    /\ crashes \in Nat

Init ==
    /\ registry = None
    /\ room = [r \in Rooms |-> "none"]
    /\ notified = [r \in Rooms |-> FALSE]
    /\ track = [t \in Tracks |-> NoRow]
    /\ queued = {}
    /\ recording = [t \in Tracks |-> "no"]
    /\ transcript = [t \in Tracks |-> "no"]
    /\ derivative = [t \in Tracks |-> "no"]
    /\ pc = [c \in Calls |-> "idle"]
    /\ current = [c \in Calls |-> None]
    /\ read = [c \in Calls |-> NoRow]
    /\ outcome = [c \in Calls |-> "completed"]
    /\ pushed = [r \in Rooms |-> 0] /\ summaries = [r \in Rooms |-> 0]
    /\ crashes = 0

--------------------------------------------------------------------------------
(* The senders *)

Sent(op, x, n) == <<op, x, n>> \in Calls /\ pc[<<op, x, n>>] # "idle"
Handled(op, x) == \E n \in 1..Copies[op] : pc[<<op, x, n>>] = "done"
\* a further copy is sent when the one before it has not been answered
MaySend(c) == pc[c] = "idle" /\ (c[3] > 1 => Sent(Op(c), On(c), c[3] - 1))

\* An agent records while its session is the live one: it has registered it and
\* has not asked to unregister it.
BeginTrack(t) ==
    LET r == RoomOf[t] IN
    /\ recording[t] = "no" /\ room[r] = "pending"
    /\ Handled("register", r) /\ ~Sent("unregister", r, 1)
    /\ recording' = [recording EXCEPT ![t] = "yes"]
    /\ UNCHANGED <<roomVars, track, queued, transcript, derivative, pc, current, read,
                   outcome, tallies, crashes>>

EndTrack(t) ==
    /\ recording[t] = "yes"
    /\ \/ recording' = [recording EXCEPT ![t] = "completed"]
       \/ "recording" \in Faults /\ recording' = [recording EXCEPT ![t] = "failed"]
    /\ UNCHANGED <<roomVars, track, queued, transcript, derivative, pc, current, read,
                   outcome, tallies, crashes>>

\* an attempt of a Whisper worker; after a failed one the task is tried again
Transcribe(t) ==
    /\ <<"stt", t>> \in queued /\ transcript[t] # "completed"
    /\ \/ transcript' = [transcript EXCEPT ![t] = "completed"]
       \/ "stt" \in Faults /\ transcript' = [transcript EXCEPT ![t] = "failed"]
    /\ UNCHANGED <<roomVars, track, queued, recording, derivative, pc, current, read,
                   outcome, tallies, crashes>>

\* an agent's own track: the player was closed
EndSpeech(t) ==
    /\ t \in TtsTracks /\ recording[t] # "no" /\ transcript[t] = "no"
    /\ transcript' = [transcript EXCEPT ![t] = "completed"]
    /\ UNCHANGED <<roomVars, track, queued, recording, derivative, pc, current, read,
                   outcome, tallies, crashes>>

\* failed is only reported by the last attempt
Transcode(t) ==
    /\ <<"derive", t>> \in queued /\ derivative[t] = "no"
    /\ \/ derivative' = [derivative EXCEPT ![t] = "completed"]
       \/ "transcode" \in Faults /\ derivative' = [derivative EXCEPT ![t] = "failed"]
    /\ UNCHANGED <<roomVars, track, queued, recording, transcript, pc, current, read,
                   outcome, tallies, crashes>>

\* what each kind of call is sent for
Due(c) ==
    LET x == On(c) IN
    \/ Op(c) = "started" /\ recording[x] # "no"
    \/ Op(c) = "completed" /\ recording[x] = "completed"
    \/ Op(c) = "failed" /\ recording[x] = "failed"
    \/ Op(c) = "derived" /\ derivative[x] # "no"
    \/ Op(c) = "saved" /\ x \notin TtsTracks /\ transcript[x] # "no"
    \/ Op(c) = "tts" /\ x \in TtsTracks /\ transcript[x] # "no"
    \/ Op(c) = "register"
    \/ Op(c) = "unregister" /\ Handled("register", x)

Carried(c) ==
    CASE Op(c) = "derived" -> derivative[On(c)]
      [] Op(c) = "saved" -> transcript[On(c)]
      [] OTHER -> outcome[c]

Entry(c) ==
    CASE Op(c) \in {"started", "completed", "failed"} -> "resolve"
      [] Op(c) = "derived" -> "load"
      [] Op(c) \in {"saved", "tts"} -> "mark"
      [] OTHER -> "current"

Deliver(c) ==
    /\ MaySend(c) /\ Due(c)
    /\ outcome' = [outcome EXCEPT ![c] = Carried(c)]
    /\ pc' = [pc EXCEPT ![c] = Entry(c)]
    /\ UNCHANGED <<roomVars, track, queued, envVars, current, read, tallies, crashes>>

--------------------------------------------------------------------------------
(* Steps shared by the handlers *)

Then(c, l) == pc' = [pc EXCEPT ![c] = l]

\* the room whose gates the call evaluates
Room(c) ==
    CASE Op(c) = "register" -> current[c]
      [] Op(c) \in {"final", "unregister"} -> On(c)
      [] OTHER -> RoomOf[On(c)]
RowsOf(r) == {t \in Tracks : RoomOf[t] = r /\ track[t] # NoRow}

\* _resolve_room_ref_id: an event of a room without a row is dropped
Resolve(c) ==
    /\ pc[c] = "resolve"
    /\ \/ room[Room(c)] = "none" /\ Then(c, "done")
       \/ room[Room(c)] # "none" /\ Then(c, IF Op(c) = "started" THEN "insert" ELSE "load")
    /\ UNCHANGED <<roomVars, track, queued, envVars, current, read, outcome, tallies, crashes>>

PlaceholderUpserts(row) == [stt |-> "pending", der |-> "pending"]     \* mutant: clobbers
Placeholder(row) == IF row = NoRow THEN [stt |-> "pending", der |-> "pending"] ELSE row

CreateTrackPlaceholder(c) ==
    /\ pc[c] = "insert"
    /\ track' = [track EXCEPT ![On(c)] = Placeholder(@)]
    /\ Then(c, "done")
    /\ UNCHANGED <<roomVars, queued, envVars, current, read, outcome, tallies, crashes>>

\* save_track_metadata and update_track_derivative load the row in one round trip
\* and write it in another
LoadTrack(c) ==
    /\ pc[c] = "load"
    /\ \/ Op(c) = "derived" /\ track[On(c)] = NoRow /\ Then(c, "done") /\ UNCHANGED read
       \/ /\ Op(c) = "derived" => track[On(c)] # NoRow
          /\ read' = [read EXCEPT ![c] = track[On(c)]] /\ Then(c, "write")
    /\ UNCHANGED <<roomVars, track, queued, envVars, current, outcome, tallies, crashes>>

\* the ORM writes the columns whose value differs from the one it has loaded
Written(loaded, now, new) == IF new # loaded THEN new ELSE now

AfterWrite(c) ==
    IF Op(c) # "completed" THEN "notify"
    ELSE IF On(c) \in TtsTracks THEN "derive" ELSE "stt"

WriteTrack(c) ==
    LET t == On(c)
        new == CASE Op(c) = "completed" -> [stt |-> "wait_process", der |-> "pending"]
                 [] Op(c) = "failed" -> [stt |-> "failed", der |-> "failed"]
                 [] OTHER -> [stt |-> read[c].stt, der |-> outcome[c]]
    IN
    /\ pc[c] = "write"
    /\ \/ read[c] = NoRow /\ track[t] = NoRow /\ track' = [track EXCEPT ![t] = new]
       \/ read[c] = NoRow /\ track[t] # NoRow /\ track' = track       \* IntegrityError
       \/ "save" \in Faults /\ track' = track
       \/ /\ read[c] # NoRow
          /\ track' = [track EXCEPT ![t] =
                [stt |-> Written(read[c].stt, @.stt, new.stt),
                 der |-> Written(read[c].der, @.der, new.der)]]
    /\ read' = [read EXCEPT ![c] = NoRow]
    /\ Then(c, AfterWrite(c))
    /\ UNCHANGED <<roomVars, queued, envVars, current, outcome, tallies, crashes>>

\* XADD; a failed one is logged
Enqueue(c, stream, next) ==
    /\ pc[c] = stream
    /\ \/ queued' = queued \cup {<<stream, On(c)>>}
       \/ "queue" \in Faults /\ queued' = queued
    /\ Then(c, next)
    /\ UNCHANGED <<roomVars, track, envVars, current, read, outcome, tallies, crashes>>

EnqueueTranscription(c) == Enqueue(c, "stt", "derive")
EnqueueDerivative(c) == Enqueue(c, "derive", "done")

--------------------------------------------------------------------------------
(* check_and_notify_room_recordings_ready and room_record_done *)

AfterNotify(c) == IF Op(c) \in {"final", "register"} THEN "count" ELSE "done"

NotYetNotifiedAlways(r) == TRUE                      \* mutant: no fire-once guard
NotYetNotified(r) == ~notified[r]

TranscodedNone(r) == TRUE                            \* mutant: derivatives not awaited
\* SQL: NOT EXISTS (... derivative_status NOT IN ('completed', 'failed')); a NULL
\* derivative_status satisfies neither IN nor NOT IN
RecordingsReady(r) == \A t \in RowsOf(r) : track[t].der # "pending"

CheckAndNotify(c) ==
    LET r == Room(c)
        ready == room[r] = "final_room" /\ NotYetNotified(r) /\ RecordingsReady(r)
    IN
    /\ pc[c] = "notify"
    /\ \/ /\ ready
          /\ notified' = [notified EXCEPT ![r] = TRUE] /\ Then(c, "push")
       \/ /\ ~ready \/ "check" \in Faults
          /\ Then(c, AfterNotify(c)) /\ UNCHANGED notified
    /\ UNCHANGED <<registry, room, track, queued, envVars, current, read, outcome,
                   tallies, crashes>>

PushRoomRecordDone(c) ==
    /\ pc[c] = "push"
    /\ pushed' = [pushed EXCEPT ![Room(c)] = @ + 1]
    /\ Then(c, AfterNotify(c))
    /\ UNCHANGED <<roomVars, track, queued, envVars, current, read, outcome, summaries,
                   crashes>>

--------------------------------------------------------------------------------
(* check_and_complete_room, two statements, and generate_summary *)

AfterComplete(c) ==
    CASE Op(c) = "register" -> "create"
      [] Op(c) = "saved" -> "ack"
      [] OTHER -> "done"

CountedPendingOnly == {"pending"}                    \* mutant: wait_process not counted
Counted == Unfinished

CountUnfinished(c) ==
    LET waiting == \E t \in RowsOf(Room(c)) : track[t].stt \in Counted IN
    /\ pc[c] = "count"
    /\ \/ ~waiting /\ Then(c, "complete")
       \/ (waiting \/ "check" \in Faults) /\ Then(c, AfterComplete(c))
    /\ UNCHANGED <<roomVars, track, queued, envVars, current, read, outcome, tallies, crashes>>

Completable(r) == room[r] = "final_room"

CompleteRoom(c) ==
    LET r == Room(c) IN
    /\ pc[c] = "complete"
    /\ \/ /\ Completable(r)
          /\ room' = [room EXCEPT ![r] = "completed"] /\ Then(c, "summary")
       \/ /\ ~Completable(r) \/ "check" \in Faults
          /\ Then(c, AfterComplete(c)) /\ UNCHANGED room
    /\ UNCHANGED <<registry, notified, track, queued, envVars, current, read, outcome,
                   tallies, crashes>>

GenerateSummary(c) ==
    /\ pc[c] = "summary"
    /\ summaries' = [summaries EXCEPT ![Room(c)] = @ + 1]
    /\ Then(c, AfterComplete(c))
    /\ UNCHANGED <<roomVars, track, queued, envVars, current, read, outcome, pushed, crashes>>

--------------------------------------------------------------------------------
(* The markers of a finished transcript: _process_save_task, tts.completed *)

\* where a transcript marker goes once the row is marked
AfterMarkDone(c) == AfterComplete(c)                 \* mutant: room not checked
AfterMark(c) == IF outcome[c] = "completed" THEN "count" ELSE "ack"

MarkTrack(c) ==
    LET t == On(c) IN
    /\ pc[c] = "mark"
    /\ \/ /\ track[t] # NoRow
          /\ track' = [track EXCEPT ![t].stt = outcome[c]]
          /\ Then(c, AfterMark(c))
       \/ /\ track[t] = NoRow \/ "check" \in Faults
          /\ Then(c, IF Op(c) = "tts" THEN "done"
                     ELSE IF outcome[c] = "failed" THEN "ack"
                     ELSE "idle")                    \* rejected, read again
          /\ UNCHANGED track
    /\ UNCHANGED <<roomVars, queued, envVars, current, read, outcome, tallies, crashes>>

Acknowledge(c) ==
    /\ pc[c] = "ack" /\ Then(c, "done")
    /\ UNCHANGED <<roomVars, track, queued, envVars, current, read, outcome, tallies, crashes>>

--------------------------------------------------------------------------------
(* register_room, unregister_room and final_room *)

\* environment: the placeholder of a track begun in the room has been written
StartedIsHandled(r) ==
    LateStarted \/ \A t \in Tracks :
        RoomOf[t] = r /\ recording[t] # "no" => Handled("started", t)

FinalRoomStatus(c) ==
    LET r == Room(c) IN
    /\ pc[c] = "final" /\ StartedIsHandled(r)
    /\ \/ room[r] = "pending" /\ room' = [room EXCEPT ![r] = "final_room"] /\ Then(c, "notify")
       \/ /\ room[r] # "pending" \/ "check" \in Faults
          /\ Then(c, AfterComplete(c)) /\ UNCHANGED room
    /\ UNCHANGED <<registry, notified, track, queued, envVars, current, read, outcome,
                   tallies, crashes>>

SupersedesNothing(c) == FALSE                        \* mutant: not force-finalized
Supersedes(c) == registry # None /\ registry # On(c)

RegisterLooksUp(c) ==
    /\ Op(c) = "register" /\ pc[c] = "current"
    /\ current' = [current EXCEPT ![c] = registry]
    /\ Then(c, IF Supersedes(c) THEN "final" ELSE "create")
    /\ UNCHANGED <<roomVars, track, queued, envVars, read, outcome, tallies, crashes>>

CreateRoom(c) ==
    /\ pc[c] = "create"
    /\ \/ /\ room' = [room EXCEPT ![On(c)] = IF @ = "none" THEN "pending" ELSE @]
          /\ Then(c, "overwrite")
       \/ "check" \in Faults /\ Then(c, "error") /\ UNCHANGED room    \* HTTP 500
    /\ UNCHANGED <<registry, notified, track, queued, envVars, current, read, outcome,
                   tallies, crashes>>

OverwriteRegistry(c) ==
    /\ pc[c] = "overwrite"
    /\ registry' = On(c) /\ Then(c, "done")
    /\ UNCHANGED <<room, notified, track, queued, envVars, current, read, outcome, tallies,
                   crashes>>

\* the finalization is a background task of the request
Background(c) == <<"final", On(c), c[3]>>
SpawnFinalRoom(c) == pc' = [pc EXCEPT ![c] = "done", ![Background(c)] = "final"]

OwnsNothing(c) == FALSE                              \* mutant: the entry is never cleared
OwnsEntry(c) == registry = On(c)

UnregisterLooksUp(c) ==
    /\ Op(c) = "unregister" /\ pc[c] = "current"
    /\ current' = [current EXCEPT ![c] = registry]
    /\ IF OwnsEntry(c) THEN Then(c, "delete") ELSE SpawnFinalRoom(c)
    /\ UNCHANGED <<roomVars, track, queued, envVars, read, outcome, tallies, crashes>>

DeleteEntry(c) ==
    /\ pc[c] = "delete"
    /\ \/ registry # None /\ registry' = None /\ SpawnFinalRoom(c)
       \/ registry = None /\ registry' = None /\ Then(c, "error")     \* HTTP 404
    /\ UNCHANGED <<room, notified, track, queued, envVars, current, read, outcome, tallies,
                   crashes>>

--------------------------------------------------------------------------------
\* record-service, audio-processing-service and the save stream deliver again what
\* was not answered; agents do not, and a background task is gone
Redelivered(c) == Op(c) \in TrackOps \ {"tts"}

Crash ==
    /\ crashes < MaxCrashes /\ crashes' = crashes + 1
    /\ pc' = [c \in Calls |->
                 IF pc[c] \in {"idle", "done", "error"} THEN pc[c]
                 ELSE IF Redelivered(c) THEN "idle" ELSE "error"]
    /\ read' = [c \in Calls |-> NoRow]
    /\ UNCHANGED <<roomVars, track, queued, envVars, current, outcome, tallies>>

EnvStep(t) == BeginTrack(t) \/ EndTrack(t) \/ Transcribe(t) \/ EndSpeech(t) \/ Transcode(t)

EventStep(c) ==
    \/ Resolve(c) \/ CreateTrackPlaceholder(c) \/ LoadTrack(c) \/ WriteTrack(c)
    \/ EnqueueTranscription(c) \/ EnqueueDerivative(c) \/ MarkTrack(c) \/ Acknowledge(c)

GateStep(c) ==
    \/ CheckAndNotify(c) \/ PushRoomRecordDone(c) \/ CountUnfinished(c) \/ CompleteRoom(c)
    \/ GenerateSummary(c)

RoomStep(c) ==
    \/ FinalRoomStatus(c) \/ RegisterLooksUp(c) \/ CreateRoom(c) \/ OverwriteRegistry(c)
    \/ UnregisterLooksUp(c) \/ DeleteEntry(c)

Next ==
    \/ \E t \in Tracks : EnvStep(t)
    \/ \E c \in Calls : Deliver(c) \/ EventStep(c) \/ GateStep(c) \/ RoomStep(c)
    \/ Crash

Spec == Init /\ [][Next]_vars

(***************************************************************************)
(* Fairness.  A handler that has been called runs on (asyncio, PostgreSQL  *)
(* and Redis answer some day); recordings end, workers finish what is      *)
(* queued, and what record-service, audio-processing-service, the workers  *)
(* and a closing player report is delivered once.  Nothing is assumed of   *)
(* agents that register or unregister, of repeated deliveries or crashes.  *)
(***************************************************************************)
Step(c) == EventStep(c) \/ GateStep(c) \/ RoomStep(c)

Fairness ==
    /\ \A t \in Tracks :
        WF_vars(EndTrack(t)) /\ WF_vars(Transcribe(t)) /\ WF_vars(EndSpeech(t))
        /\ WF_vars(Transcode(t))
    /\ \A c \in Calls : WF_vars(Step(c))
    /\ \A c \in Calls : Op(c) \in TrackOps /\ c[3] = 1 => WF_vars(Deliver(c))

FairSpec == Spec /\ Fairness

--------------------------------------------------------------------------------
(* What may go wrong *)

Begun(r) == {t \in Tracks : RoomOf[t] = r /\ recording[t] # "no"}

\* "the SSE room_record_done notice and SummaryService.generate_summary each fire
\* exactly once" (README.md:55 of the orchestrator): never more than once, however
\* the handlers interleave and whatever is redelivered.
FireOnce == \A r \in Rooms : pushed[r] <= 1 /\ summaries[r] <= 1

\* A room is notified only when every recording begun in it has failed or has a
\* derivative outcome (pg_transcript_repository.py:561-571).
NotifiedWhenReady ==
    \A r \in Rooms : notified[r] =>
        \A t \in Begun(r) : recording[t] = "failed" \/ derivative[t] # "no"

\* A room is completed, and summarised, only when every recording begun in it has
\* failed or has a transcript outcome.
CompletedWhenDone ==
    \A r \in Rooms : room[r] = "completed" =>
        \A t \in Begun(r) : recording[t] = "failed" \/ transcript[t] # "no"

\* The room the name points to is live, but for a registration that supersedes it:
\* one that is under way, or that a crash has cut off before it wrote its own id.
RegisteredIsLive ==
    \A r \in Rooms : registry = r =>
        \/ room[r] = "pending"
        \/ \E c \in Calls : Op(c) = "register" /\ current[c] = r /\ pc[c] \notin {"idle", "done"}

\* "A new registration always supersedes whatever this room_name currently points
\* to" (room_registry_api.py:53): the session that a registration found under the
\* name is finalized when the registration takes the name from it.
SupersededIsFinal ==
    [][\A c \in Calls : OverwriteRegistry(c) /\ registry \in {current[c]} \ {None, On(c)}
            => room[registry] # "pending"]_vars

\* "do NOT touch the registry, it belongs to that new call now"
\* (room_registry_api.py:204): ending one session leaves another's entry alone.
NewerEntryKept ==
    [][\A c \in Calls : DeleteEntry(c) /\ registry # On(c) => registry' = registry]_vars

\* A track whose transcript is saved never waits for it again, whatever arrives
\* late (pg_track_repository.py:75-84: "must never clobber").
DoneStaysDone ==
    [][\A t \in Tracks : track[t].stt = "completed" => track'[t].stt \notin Unfinished]_vars

\* A finalized room is completed and summarised, whoever comes last.
RoomCompletes ==
    \A r \in Rooms : (room[r] = "final_room") ~> (summaries[r] = 1)

\* ... and its clients are told that its recordings are ready.
RoomNotifies ==
    \A r \in Rooms : (room[r] = "final_room") ~> (pushed[r] = 1)

================================================================================
