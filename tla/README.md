# A verification project for mezon-call-translation

TLA+ models of the parts of this repository whose correctness depends on the
order in which things happen, the TLC runs that check them on small instances,
and the theorems TLAPS proves about them for every instance. `PROJECT.json`
names the source lines every definition stands for, the runs, the findings and
the hazards; this file explains them.

Path abbreviations used below:

| short | path under `src/` |
|---|---|
| REC | `audio-ingestion/record-service/src/record_service/` |
| APS | `audio-ingestion/audio-processing-service/src/audio_processing_service/` |
| ORCH | `Architect_MultiClient_Server/orchestrator_service/` |
| STT | `Architect_MultiClient_Server/stt_service/` |
| AG | `agents/` |

## 1. The system

An *agent* joins a voice room over the SFU, one process per room, spawned by a
*worker-manager*. It decodes every participant's track, streams the PCM to
*record-service* over gRPC (one `StreamAudio` call per track) and, for live
captions, to *stt_service*; it plays synthesized speech back into the room.
record-service stores each track as a multipart upload in S3 and reports
`recording.started`, `recording.completed` or `recording.failed` to the
*orchestrator*, which keeps rooms and tracks in PostgreSQL. A completed track is
put on two Redis streams: one for *stt_service*'s Whisper workers, one for
*audio-processing-service*, which transcodes the raw recording into a
derivative. The results come back on another stream (transcripts) and over HTTP
(derivatives). When a room has ended and all its tracks are done the
orchestrator notifies the clients (`room_record_done`) and writes the room's
summary.

```
 agent --gRPC--> record-service --multipart--> S3
   |                  | recording.started/completed/failed (HTTP)
   | /register        v
   +-----------> orchestrator --XADD--> stt_service (Whisper)      --XADD--+
                    ^   |  ^                                               |
                    |   |  +---- results stream (save consumer) <----------+
                    |   +--XADD--> audio-processing-service
                    +----- derivative.completed/failed (HTTP) -----+
```

## 2. Inventory

| component | state | operations | what is hard | what makes it correct | here |
|---|---|---|---|---|---|
| record-service (REC) | session registry, per-session lock, buffer and grace timer, state file per session, open S3 uploads | start/resume, append, stop (graceful, abrupt), grace timeout, finalize, report, reconcile | asyncio interleavings at every await, cancellation inside a handler, crash and restart, S3 and HTTP failures, file writes in threads | nothing closed while fed, nothing accepted lost from a completed object, one truthful outcome told per recording, no upload left open unknown | **RecordSession** |
| room and track lifecycle (ORCH `recording_event_service.py`, `transcription_service.py`, `pg_track_repository.py`, `pg_transcript_repository.py`, `redis_save_transcription_service.py`, `room_registry_api.py`) | rooms, tracks, `record_notified_at`, registry of live rooms | register/unregister, recording events, derivative events, transcript results, final_room | redelivered and reordered events, handlers that commit in several transactions, notification and completion computed by whoever comes last | a room is notified once and exactly when its recordings are ready; it is completed only when nothing is pending, and then summarised | **RoomLifecycle** |
| Redis stream queue (ORCH, STT and APS `redis_stream_service.py`, `redis_transcription_queue_service.py`, `queue_service.py`) | stream, consumer group's pending list, retry counts, dead-letter stream | read, acknowledge, reject and retry, release on shutdown, claim of orphans, redrive | crash between XADD and XACK, claim from a slow live worker, redelivery, two loops in one worker | no task lost, one task at a time per worker, at least once | **StreamQueue** implements **TaskQueue** |
| derivatives of recordings (APS `derivative_processor.py`, `event_reporter.py`, its copy of the stream service) | the stream's entries, what the orchestrator was told | transcode, report a success, report a failure on the final attempt, reject | the report and `reject` decide separately which attempt is the last; other workers run between a report and its answer | no track is buried untold, and none is called failed while attempts are left | **DerivativeWorker** implements **StreamQueue** |
| transcription of a track (STT `whisper_transcription_processor.py`; ORCH `redis_save_transcription_service.py`) | decoding thread, coroutine, one-slot queue, acknowledgement future; rows and counters | decode, publish, acknowledge, cancel; append a chunk, save a marker | a thread and a coroutine that wait for each other, retries, two loops that write one track | batches in order and once, nobody waits for ever, a completed track has its chunks | **TranscriptPipeline** |
| segments of a recording (STT `whisper_marker_transcriber.py`) | spans of speech, packed chunks, tokens of a chunk | pack spans with a spoken marker between them, decode a chunk, find the markers, divide the text, fall back | markers heard approximately, twice or not at all; overlapping matches; a search with negative costs | no speaker is given a marker's words, no marker takes a speaker's, the division is a cheapest one | **MarkerSegments** |
| live transcription (STT `ws_nemotron_control.py`, `client_pipeline.py`, `pipeline_manager.py`, `result_dispatcher.py`, `circuit_breaker.py`) | pipeline and thread per client, dispatcher per client, global breaker | connect, submit, recognise, emit, shut down, clean up | threads and coroutines, a join on the event loop, a lock taken twice, dropping queues | results in the order of the audio, the tail is recognised, the limit rejects | **LivePipelines** |
| room summaries, correction, outbox (ORCH `summary_service.py`, `light_summary_service.py`, `transcript_correction_service.py`, `pg_summary_repository.py`, `pg_outbox_repository.py`) | `rooms_summary` row, sections, outbox rows | generate, correct, sections, merge, retry | failures and crashes between transactions, overlapping calls, timestamps without a date | the summary covers the room, progress is true, failures are queued | **RoomSummary** |
| SSE channels (ORCH `api/sse`; AG `orchestratorclient/sse.go`) | connections, bounded queues, applications | connect, replace, push, stream, disconnect, shut down | replacement against the old generator's clean-up, full queues, broken connections | the newest connection of an app misses nothing, an older one ends | **EventChannels** |
| worker-manager, agent process, agents-bot (AG `internal/workermanager`, `cmd/agent`, `agentcontrol`; `agents-bot`) | agents by room, registry.json, control sockets, processes, registered rooms | start, stop, reap, kill, persist, adopt; listen, register, join, reconnect, leave | reap against restart of the room, crash between spawn and persist, an old agent's exit beside the new one | one followed agent per room, a current registry, chat stays forwarded | **AgentFleet** |
| media of an agent (AG `rtcagent/peer.go`, `audiopipeline/participants.go`) | the SFU's slots, MID table, sessions with sinks | assign, release, packet, end, toggle, close | signaling and packets on different paths, slots reused by another peer | a departed peer is closed, an ended binding silent, transcription off is off | **MediaSlots** |
| the agent's voice (AG `ttsplayer/player.go`, `recordclient/forwarder.go`) | requests, timeline of the recorded track, forwarder queue | speak, play, fill silence, report, close | a ticker, a worker, a closer and a request handler | speech lies where its transcript says and is reported | **TtsPlayer** |
| authentication, queue listing, LLM and TTS clients, dashboard, scripts, generated code | — | one call in, one call out | — | — | not modelled, section 15 |

## 3. Plan

Done, with theorems: RecordSession (section 4), RoomLifecycle (5), StreamQueue as a
refinement of TaskQueue and DerivativeWorker as one of StreamQueue (6), TranscriptPipeline (7),
LivePipelines (8), RoomSummary (9), EventChannels (10), AgentFleet (11), MediaSlots (12),
TtsPlayer (13). Done, checked by TLC alone: MarkerSegments (7.1).

The modules meet at their contracts. A task that `StreamQueue` hands out twice is
the second attempt of `TranscriptPipeline`; a marker that `TranscriptPipeline`
publishes is the `saved` call of `RoomLifecycle`; what its thread decodes is what `MarkerSegments` yields; the outcome `RecordSession` tells is
its `completed` or `failed` call; a summary there is one call of `RoomSummary`; the
push of a finished room is an event of `EventChannels`; an agent that `AgentFleet`
keeps alive is what runs `MediaSlots` and `TtsPlayer`. Each contract is stated in the
module that relies on it as the actions of its environment.

Left: a composition recording -> orchestrator, in which the events RecordSession may
send are the environment of RoomLifecycle.

### Proofs

A component's theorems are in the module named after it with `Proofs`, which extends
it. Three proof modules hold two components of one service each: `AgentSessionProofs`
(MediaSlots and TtsPlayer), `OrchestratorProofs` (RoomSummary and EventChannels) and
`SttProofs` (TranscriptPipeline and LivePipelines); each extends the first of the two and
names the second by an instance (`Voice!Spec`, `Events!Spec`, `Live!Spec`). What they say holds for every value of the constants that satisfies the named
assumptions of the component; the bounds of a run (`MaxTrouble`, `MaxEvents`, ...) are
constants too, so a theorem is about every bound. Each section below names the inductive
invariant and why the property alone is not one; TLC checked every invariant on the
instance of its run before it was proved. What stays with TLC everywhere: liveness, and
what is said with `ENABLED` (`NeverStuck`), which this prover cannot reason about.

What the components of `Agents` and `Services` keep and promise is in a module of its own:
`FleetState` of AgentFleet, `MediaState` of MediaSlots, `VoiceState` of TtsPlayer,
`SummaryState` of RoomSummary, `EventState` of EventChannels, `LiveState` of LivePipelines.
It holds the constants with their assumption, the state and the properties; the model
extends it and the MC module extends it as well. So a
run evaluates the assumption the proofs rest on, and checks the very definition the
theorem is about.

The project keeps a dozen runs, so that all of them can be repeated in half an hour.
Models that share no state are therefore checked side by side in one run (`Agents`,
`Services`): `part`, chosen in the initial state, says which model takes steps, and
the others rest (modules `MCAgents` and `MCServices`; in `Services` the two speakers and
the two corrections are symmetric, no action tells one from the other, and no liveness
property is checked there). Two runs that show a disagreement are kept; what earlier or other
instances show is in sections 4.4, 5.4 and 14 with the constants that show it.

## 4. RecordSession

### 4.1 What it models

One `session_id` (`room_id:track_id`) in one record-service process, and
everything that outlives the process: the state file, S3, what the orchestrator
was told. `Streams` are the `StreamAudio` calls made for this id; each that finds
nothing to resume opens its own upload, so an upload and the `RecordingSession`
object made for it carry the name of the stream that created them.

record-service is one asyncio loop. A *task* (`Conn(s)`, a stream's handler;
`Grace(s)`, the grace timer its abrupt end arms; `Started(s)`, the
fire-and-forget `recording.started` report; `Reconciler`) is at an await named by
`pc`. A step runs one task from one await to the next; where the code goes on
without an await — taking a free `asyncio.Lock` is not one — `loop` keeps
everyone else out until the task reaches the next await. `asyncio.Lock` is first
in, first out: `lock[u]` and `creation` are queues whose head is the holder.
An S3 call or HTTP post takes effect in the step that ends its await; a file
write is a document in `write[t]`, serialized when `save` is called, that lands
later and may outlive its task.

| code | model |
|---|---|
| `StartRecording.execute`, `_try_resume_or_reuse` | `LookUp`, `ResumeCancelsTimer`, `Resume`, `Resumed`, `Reuse`, `DropStale`, `CreateUpload`, `CreateFails`, `Created` |
| `AppendAudio.execute`, `_upload_part` | `RecvAudio`, `AppendFrame`, `UploadPart`, `AppendSaved` |
| `StopRecording.execute`, `_grace_timeout` | `GracefulEnd`, `StopCancelsTimer`, `Drop`, `GraceWait`, `ArmTimer`, `TimerFires`, `Claim` |
| `StopRecording._finalize`, `complete_or_abort` | `BeginFinalize`, `SkipFinalize`, `TakeBuffer`, `FlushBuffer`, `CompleteOrAbort`, `PopAndReport` |
| `ReportEvent.execute` and the deletion of the file | `Report`, `Acked`, `Unacked`, `Deleted` |
| `RecoverOrphanedSessions.execute`, `_reconciler_loop` | `ListUnfinished`, `SkipLive`, `Recover`, `CompleteOrAbort(Reconciler)`, `RecoveredSaved`, `Report(Reconciler)`, ... |
| `StreamAudio` breaking at an await | `BreakReading`, `BreakMidCall` |
| cancelling a task, a call that outlives it | `Cancelled`, `CallOutlives` (external: asyncio and boto3) |
| process death and restart | `Crash` |

PCM is counted in chunks (`buffer`, `received`, `stored`, `PartSize`); a part
list is the number of chunks it holds. Requests that are rejected before any
state changes, retry delays and log lines are left out; `with_retry` is one call
that succeeds or gives up.

The knobs are the environment, not the code: `Overlap` (a client opens a second
stream before the first one ended), `Periodic` (the reconciler loop runs after
startup), `ScanLag` (other tasks run between the reconciler's read of the files
and its look at the registry), `LateStarted` (the session goes on while
`recording.started` is being posted), `BreakAnywhere` (a connection breaks while
its handler is inside a call, not only while it reads), `Faults` (which external
calls may fail).

### 4.2 Runs that pass

| run | instance | shows |
|---|---|---|
| `RecordSequential` | two streams one after the other, part of 2 chunks, 3 chunks each, create/upload/complete/abort may fail, periodic reconciler; 1.9 M states | `NeverClosedWhileFed`, `CompletedHoldsAll`: every race of resume, graceful end and grace timer |
| `RecordCrash` | one stream, two crashes, create/upload/report may fail, fairness; 24 k states | `EventsAgree`, `FileIsCurrent`, `UnreportedIsKept`, and the liveness properties `EverySessionTold`, `EveryUploadCloses` |
| `RecordOverlap` | two overlapping streams, breaks inside handlers, every fault but abort, one crash; 1.4 M states | `PutNeverClobbers`, `CompletedIsTrue` (types are proved, section 4.3) |

Bounds. Three chunks and parts of two make every buffer shape occur: empty,
partial, full and flushed with a remainder. Two streams are what the creation
lock, a resume, a reuse and a stale entry need; a third adds no new pair of
tasks on one session. Two crashes let recovery itself crash.
`RecordSequential` is not run with `BreakAnywhere`, `ScanLag`, `LateStarted`,
`Overlap`, a disk that fails or a crash: each of them breaks `CompletedHoldsAll`, see
sections 4.3 and 4.4.

Fairness. asyncio serves ready tasks in order, so each task that is ready again
and again gets the loop (SF per task); threads finish; a client eventually ends
its stream; the orchestrator is not down forever (SF on an acknowledged report
of the reconciler). Nothing is assumed of `OpenStream`, `RecvAudio`, of faults
or of crashes.

Deadlock is not checked: the system rests when every stream has ended.

### 4.3 Theorems (`RecordSessionProofs`)

| theorem | statement |
|---|---|
| `TypeCorrect` | `Spec => []TypeOK` |
| `PutNeverClobbersAlways` | `Spec => []PutNeverClobbers` |
| `CompletedIsTrueAlways` | `Spec => []CompletedIsTrue` |
| `NeverClosedWhileFedAlways` | `~Overlap /\ ~BreakAnywhere` implies `Spec => []NeverClosedWhileFed` |
| `EventsAgreeAlways` | `Calm` implies `Spec => []EventsAgree` |
| `CompletedHoldsAllAlways` | `Calm` implies `Spec => [](crashes = 0 => CompletedHoldsAll)` |
| `FileIsCurrentAlways` | `Calm` and one stream imply `Spec => []FileIsCurrent` |
| `UnreportedIsKeptAlways` | `Calm` and one stream imply `Spec => []UnreportedIsKept` |

Here `Calm` stands for `~Overlap /\ ~BreakAnywhere /\ ~ScanLag /\ ~LateStarted /\
"disk" \notin Faults`, which the theorems write out. The first three hold for every finite
set of streams, every part size, bound and
fault set and every setting of the knobs — so also with overlapping streams, breaks
anywhere, crashes and writes that outlive their tasks — under the named
assumptions of `RecordSession`. `NeverClosedWhileFedAlways` needs the two hypotheses it
names: with either of them dropped TLC finds a stream whose upload is closed under it
(section 4.4). Everything else stays free in it: crashes, the periodic reconciler,
`ScanLag`, `LateStarted` and every kind of fault.

`EventsAgreeAlways` leaves the number of streams, of chunks and of crashes free, the
periodic reconciler and every fault but a disk that fails: lost answers of S3, failed
parts, reports that are lost or repeated. `CompletedHoldsAllAlways` adds the absence of a
crash so far, because a crash loses the buffer and `received` is a count of what was
accepted. Each of the five parts of `Calm` is needed by both: with any one of them
dropped, the others kept, TLC finds a violation on one stream (on two for `Overlap` and
`BreakAnywhere`; for the disk under `CompletedHoldsAll`, on two as well). The last two
theorems are about a session id with one stream; two streams one after the other violate
both properties, and so does a disk that fails. `LateStarted` violates `FileIsCurrent`; the
other parts of `Calm` are there because the proof starts from the owner of a session, TLC
finds no violation without them.

`TypeOK` is not inductive: that a released lock is not empty, that a cancelled
timer exists, needs the inductive invariant
`Inv == TypeOK /\ LockInv /\ CreationInv /\ CancelInv`: each task is at most once
in each queue and only where its `pc` says, whoever is inside the creation
section heads its queue, and a grace timer named by `graceTask` is one that was
armed. From it, `PutNeverClobbers`: whoever is at `create` heads the creation
queue, and only the head can change `registry` from `None`.

`CompletedIsTrue` is about the past (what was told) and needs to know where every
document that says "completed" came from: `TruthInv` adds that a session object,
a file, a pending write or a report that says "completed" is backed by an upload
S3 completed (`SessionsBacked`, `FilesBacked`, `ReportsBacked`), that a session
object names its own upload (`OwnUpload`) and that a fresh stream's upload is
untouched (`FreshUpload`).

`NeverClosedWhileFed` says that whoever is fed has an open upload; a feeder alone does
not carry that, because the end of one stream, its timer and the resume of the next
hand the same session on. `SeqInv` follows the session through all of them. `Owners`:
a registered session has exactly one task that answers for it, and `OwnerState` says what
that task has made of it so far (recording, in grace, claimed, closed). Its other parts
are what keeps the owner unique: at most one stream attached (`OneConn`), nobody at a
cancel of a timer that is not there (`NoCancel`), a resume that finds its session live or
finally closed (`Resumes`), who may queue for a session's lock (`Queues`, `Waits`), a
timer that has fired finds that lock free and runs to its first await without anybody in
between (`Timers`), a recovery never works on the registered session (`Recoveries`), a new
stream has no timer yet (`FreshTimer`), and every document names an upload that was opened
(`KnownSessions`, `KnownFiles`). The conjunction `AllInv == Inv /\ TruthInv /\
PutNeverClobbers /\ SeqInv` is what is inductive. Its proof splits each step by who takes
it: the owner, whose move is given by `OwnerGoesOn`, or somebody else, who leaves the
owner and its session alone (`OthersStay`).

One lemma per action carries each invariant; the temporal step is PTL.

`EventsAgree` is about reports that may be repeated after a crash, from a document that
was on disk, in memory or half written. `FileInv` says what is being written and by whom:
a task waits for its write (`Quiet`) and writes the session object it works on or the
removal of the file (`Written`); whoever reports an outcome reports that of a session that
is final and no longer registered (`Reporters`); before the server opens only the
reconciler is at work (`Restarting`), and only then, after a crash, does it find a session
to finish (`Scanned`, `Repaired`); once nobody is registered the file is final (`Ended`,
`Saving`). On top of it `VerdictInv` relates all documents somebody may still act on
(`Live`): those of an unregistered session are final and agree (`Verdict`), and they agree
with what the orchestrator has been told (`ToldAgrees`). A task can then only repeat what
was said before. `Verdict` is suspended while the first reconciler pass of a restart has
not decided yet (`Recovering`).

`CompletedHoldsAll` needs an account of every chunk while the session is open: `CountInv`
says that what the session has received is stored, carried by the one task that is
uploading, buffered or given up (`Counted`, `Balance`), that a task which carries nothing
has an empty payload (`NoPayload`), and that a stream without a session has fed none
(`FreshCounts`). `ClosedInFull` is the step where it pays off.

`FileIsCurrent` and `UnreportedIsKept` compare memory with the state file. `DiskInv` says
that until a stream has its session the file is empty (`Beginning`), that the reconciler
leaves a session alone while it is fed and a saved document is the one in the file
(`Current`), that a registered session is in the file but for its first save (`OnDisk`),
that a closed upload stays there until the orchestrator has been told (`ClosedOnDisk`) and
that only what has been told is erased (`ErasedTold`).

Not proved, only model-checked: both liveness properties.
`UnreportedIsKept` and
`FileIsCurrent` are claimed of one stream only: with a second start of the same id, the
file of a session whose outcome could not be reported is overwritten, and after a crash
the reconciler may delete the file of the new session.

### 4.4 Where the code and its comments disagree

Setting one of the other knobs shows five disagreements; no run is kept of them.

- `ScanLag` (one stream, no faults, `Periodic`) breaks `EventsAgree`: the reconciler
  reads every file first (`recover_orphaned_sessions.py:48`) and asks the registry
  about each when its turn comes; a session finalized in between is completed a
  second time from the stale copy, and `recording.failed` follows
  `recording.completed`.
- `Overlap` breaks `NeverClosedWhileFed`: a duplicate start gets the live session
  (`start_recording.py:129-134`); when the older connection breaks, its stop puts
  the shared session into GRACE_WAIT and the timer closes the upload under the
  newer stream.
- `LateStarted` breaks `FileIsCurrent`, and through the stale file `EventsAgree` and
  `CompletedHoldsAll`: the `recording.started` report saves the state file without the
  session's lock, beside `AppendAudio`'s save, which `file_session_state_repo.py:18-24`
  rules out.
- `BreakAnywhere` breaks `RegisteredIsOwned`: a connection that breaks inside the
  last save of a start leaves a registered session that no task will finalize and
  the reconciler skips.
- two sequential streams and failing reports break `UnreportedIsKept`: a new start
  of the same id overwrites the file of a session whose outcome could not be
  reported.

The agents of this repository name a recording by a fresh `RecordTrackID`
(`agents/internal/tracksink/tracksink.go:43-55`), so those that need the same
id twice concern clients that reconnect under their id, which is what
`start_recording.py:3-6` is written for.

Noticed and not modelled: record-service's README (line 132 ff) says a 4xx answer
to a report is not retried, `report_event.py:42-48` retries every failure; and a
crash between `create_multipart_upload` and the first save leaves an upload that
no state file names.

## 5. RoomLifecycle

### 5.1 What it models

The orchestrator's handlers for rooms and tracks, over PostgreSQL, Redis and the
SSE push. `Rooms` are the session ids (`room_id`) that agents register under one
`room_name`; `Tracks` are recordings, each made in the session `RoomOf` names.

A *call* `<<op, x, n>>` is the n-th delivery of one request or stream message
about the track or room `x`. `pc[c]` is the step the call is at. One step is one
committed SQL transaction, one Redis command or one push: the orchestrator runs
several handlers at once, in several processes, so any other call may run between
two steps. Where the ORM loads a row in one round trip and writes it in another
(`save_track_metadata`, `update_track_derivative`), `read[c]` is the loaded row
and `Written` writes the columns that changed. `check_and_complete_room` is two
statements and two steps (`CountUnfinished`, `CompleteRoom`); `final_room_status`
and `check_and_notify_room_recordings_ready` are one guarded UPDATE each.

| code | model |
|---|---|
| `register_room` | `RegisterLooksUp`, then for a superseded session `FinalRoomStatus` ... `GenerateSummary`, then `CreateRoom`, `OverwriteRegistry` |
| `unregister_room` and its background `final_room` | `UnregisterLooksUp`, `DeleteEntry`, `SpawnFinalRoom`; the call `<<"final", r, n>>` |
| `final_room` | `FinalRoomStatus`, `CheckAndNotify`, `PushRoomRecordDone`, `CountUnfinished`, `CompleteRoom`, `GenerateSummary` |
| `recording.started` | `Resolve`, `CreateTrackPlaceholder` |
| `recording.completed` | `Resolve`, `LoadTrack`, `WriteTrack`, `EnqueueTranscription`, `EnqueueDerivative` |
| `recording.failed` | `Resolve`, `LoadTrack`, `WriteTrack`, `CheckAndNotify`, `PushRoomRecordDone` |
| `derivative.completed/failed` | `LoadTrack`, `WriteTrack`, `CheckAndNotify`, `PushRoomRecordDone` |
| the `completed` and `failed` markers of `transcription:save` (op `saved`) | `MarkTrack`, `CountUnfinished`, `CompleteRoom`, `GenerateSummary`, `Acknowledge` |
| `tts.completed` (op `tts`) | the same without `Acknowledge`; a track without a row is only logged |
| process death | `Crash` |

Outside the orchestrator, modelled by what it may send: an agent records while its
session is live (`BeginTrack`), record-service ends the recording (`EndTrack`), a
Whisper worker tries until it has a transcript (`Transcribe`), the agent's own
track ends with its text (`EndSpeech`), audio-processing-service transcodes
(`Transcode`). `Deliver` sends a call when what it reports has happened (`Due`).

Knobs: `Copies` bounds the deliveries of each kind of call (a second copy may be
sent before the first is answered), `MaxCrashes` the crashes (after one,
record-service, audio-processing-service and the save stream deliver again; agents
do not retry and a background task is lost), `Faults` says what may fail: a
recording, a transcription attempt, a transcode, a database write whose error the
handler swallows (`save`), an XADD (`queue`), a gate or status update whose error
is swallowed (`check`). `LateStarted` lets a room be finalized before
`recording.started` of one of its tracks is handled.

### 5.2 Runs that pass

| run | instance | shows |
|---|---|---|
| `RoomRecordings` | one room, a participant's track and a TTS track, each call once, recordings and transcriptions may fail; 1.3 M states | `FireOnce`, `NotifiedWhenReady` (types are proved, section 5.3) |
| `RoomRetries` | one track, `recording.completed` and the derivative event twice and overlapping, one crash, failing writes (a failed transcription is `RoomRecordings`'); 1.2 M states | `CompletedWhenDone` |
| `RoomNames` | two sessions of one name with one track each, recordings may fail, one crash; 1.0 M states | `RegisteredIsLive`, `SupersededIsFinal` |
| `RoomSettles` | one room, two participants' tracks, no faults, fairness; 0.3 M states | `RoomCompletes`, `DoneStaysDone` |

Bounds. The gates of a room quantify over its tracks, and two tracks are what it
takes for one to be the last while the other's handler is half way. One track is
enough for a redelivery to race its own first handler. A name relates a session to
the one it supersedes: two.

`CompletedWhenDone` is only claimed of rooms with one track: with two, the
two-statement count of section 5.4 breaks it. `RoomSettles` has no `tts` calls:
`tts.completed` that arrives before its track has a row is only logged and the room
waits for ever, which `recording_event_service.py:233-247` documents. All runs set
`LateStarted = FALSE`: `recording.started` is sent fire-and-forget, and a room that
is finalized before it arrives is notified and completed without its track (with
`LateStarted = TRUE`, `NotifiedWhenReady` breaks after 12 steps). The code relies on
the placeholder being there (`pg_transcript_repository.py:574-579`), and so do the
runs.

Fairness (`FairSpec`): a handler that has been called runs on; recordings end and
workers finish what is queued; what they report is delivered at least once.
Nothing is assumed of agents that register or unregister, of second deliveries or
of crashes: a room that is never finalized owes nobody anything.

Deadlock is not checked: the system rests when every call has been handled.

### 5.3 Theorems (`RoomLifecycleProofs`)

| theorem | statement |
|---|---|
| `TypeCorrect` | `Spec => []TypeOK` |
| `FireOnceAlways` | `Spec => []FireOnce` |
| `NotifiedWhenReadyAlways` | `ASSUME LateStarted = FALSE PROVE Spec => []NotifiedWhenReady` |
| `CompletedWhenDoneAlways` | `ASSUME LateStarted = FALSE, SingleTracks PROVE Spec => []CompletedWhenDone` |
| `RegisteredIsLiveAlways` | `ASSUME RegistersOnce PROVE Spec => []RegisteredIsLive` |
| `SupersededIsFinalAlways` | `ASSUME "check" \notin Faults PROVE Spec => SupersededIsFinal` |
| `DoneStaysDoneAlways` | `ASSUME TtsTracks = {}, ReportedOnce PROVE Spec => DoneStaysDone` |

They hold for every set of rooms and tracks, any number of redeliveries and
crashes and every choice of faults, under the named assumptions of `RoomLifecycle`.

- `TypeInv == TypeOK /\ WhereInv /\ ReadInv` is inductive: a call is only at steps
  of its own handler, a registration that evaluates the gates of a superseded room
  has found one, and a row that was loaded still exists (without `ReadInv`,
  `WriteTrack` could write half a row).
- `FireOnce` counts pushes; what is inductive is `NotifyInv`: a call that is about
  to push has set `record_notified_at`, nobody else is about to push for the same
  room, and nothing was pushed yet. `SummaryInv` is the same for
  `status = 'completed'` and the summary.
- `NotifiedWhenReady` needs `ReadyInv`: a terminal `derivative_status` tells the
  truth (`DerInv`), a delivered event has happened (`EventInv`), a handled
  `recording.started` has left a row (`StartedInv`), and in a finalized room every
  begun track has one (`RowInv`), so that the gate sees it. The assumption
  `LateStarted = FALSE` is used in `FinalRoomStatus` only.
- `CompletedWhenDone` needs `DoneInv`: a saved transcript is a worker's (`SttInv`), only
  markers ask for completion among the events (`MarkerInv`), the gates of a room are
  evaluated once it is finalized (`FinalInv`), and what was counted stays done until
  `CompleteRoom` (`CountedInv`). `SingleTracks` (one track per room) is the case in which
  the two-statement count is sound, see section 5.4.
- `RegisteredIsLive` needs `LiveInv`: what a registration finds under the name registered
  before it, nothing but a registered room is finalized, and the name is given up before
  the finalization starts. `RegistersOnce` says that a session id is minted for one
  registration; a second one of the same id would revive a finalized room.
- `SupersededIsFinal` is an action property: at `OverwriteRegistry` the room the name
  still points to is no longer pending. `SupInv` says that a registration which is past
  the finalization of the room it found has finalized it. The fault `"check"` is excluded
  because the code swallows the error of that very UPDATE.
- `DoneStaysDone` needs `StaysInv`: a transcript comes from a queued task, a task from the
  one report of its recording, and that report is then past its write of the row. Without
  the hypotheses it is false: a redelivered report resets the row, and the text of a TTS
  track needs no task.

Proving `TypeOK` of the calls found three `CASE` expressions of the model with overlapping
guards (`AfterWrite`, the step after `MarkTrack`, the state a `Crash` leaves): the arms of
a `CASE` have no order, so the model said less than the code. They are `IF`s now.

Liveness (`RoomCompletes`) stays with TLC.

### 5.4 Where the code and its comments disagree

Each is a property of RoomLifecycle that TLC breaks in the instance named; no run is
kept of them. README.md:55 of the orchestrator says the notification and the summary
"each fire exactly once regardless of which path gets there last".

| instance (all with `Copies` 1, no crash, `LateStarted = FALSE`) | property | what happens |
|---|---|---|
| `FairSpec`, one room, one track, no faults | `RoomNotifies` | no fault: the last transcript is saved before the last derivative is reported; the room becomes `completed`, the notification is guarded by `status = 'final_room'` and is never sent |
| `FairSpec`, one room, one track, `Faults = {"recording"}` | `RoomCompletes` | the last track of a finalized room ends with `recording.failed`, whose handler checks the notification and not the completion |
| one room, two tracks, no faults | `CompletedWhenDone` | between the count and the update of `check_and_complete_room` another track's placeholder is written and the room finalized: it is completed without that track |
| two rooms, one track, no faults | `NewerEntryKept` | `unregister_room` checks the owner on a value it read earlier and deletes by name: a session registered in between loses its entry |

### 5.5 Not modelled

Participants and transcript segments, room queries, the path of `unregister` that
resolves a room by its name alone, the summary's own text and retries (a summary is
the call to `generate_summary`), the retry limit of a
rejected marker (part of StreamQueue: here it is simply read again or not), and a push
that fails: pushes go to the SSE connections of one process and are not acknowledged.

## 6. StreamQueue, TaskQueue and DerivativeWorker

`TaskQueue` is the contract: a submitted task stays available until one of its runs
succeeded or it was dead-lettered, and is settled in the end; it may run again after
that. `StreamQueue` is the code: `RedisStreamService` with the two loops of
`RedisTranscriptionQueueService`, the producer and the redrive of dead letters in
`queue_service.py`. The stream service exists in three near-identical copies (STT,
ORCH, APS); the map names STT's.

`log` is the stream with every entry ever added: deleted ones have `kept = FALSE`, an
entry pending for a consumer has an `owner`, and `ripe` says that its idle time has
passed `claim_min_idle_time` (time itself is abstracted to `Ripen`, which may come
while the task still runs: nothing renews the idle time of a running task).

| code | model |
|---|---|
| `enqueue`, `read_tasks` | `Enqueue`, `ReadTask` |
| `_orphan_recovery_loop`, `claim_orphaned_tasks` | `OrphanWakes`, `ClaimOrphans`, `NextClaimed` |
| `_process_task` with its lock and handlers | `EnterProcess`, `RunProcessor`, `CommandFails` |
| `acknowledge` | `Acknowledge`, `DeleteEntry` |
| `reject` | `RejectTask`, `DropOriginal` |
| `stop`, `disconnect`, `release_my_pending_tasks` | `Stop`, `ReleasePending`, `Disconnected` |
| process death, service manager | `Kill`, `Restart` |
| `retry_dlq_task` | `RedriveAdds`, `RedriveDeletes` |

`StreamTasks` checks one task, two workers, retry limits 0 and 1 and any two troubles
(`MaxTrouble`: a run or command that fails, a stop, a kill, a redrive): `NeverLost`,
`OneAtATime`, `FailureIsTold` (below), and as a temporal property
`AtLeastOnce == Queue!Spec`, the refinement,
where `held` is the set of tasks with an entry still to be handed out and `dead` those
with a dead letter. One task is enough for every race on it, since an entry meets
another only in a worker's busy flag, which the task's own copies exercise. Two
troubles make a claim race the slow owner, a crash cut a reject in half, a stop
release an entry that is already someone else's; with one trouble no dead letter can
be redriven into a crash.

Fairness: both loops of a running worker are scheduled, time passes, a stopped worker
is started again. Nothing is assumed of failures; `MaxTrouble` bounds them.

Theorems (`StreamQueueProofs`), for every number of tasks and workers, every retry limit
and any number of troubles: `TypeCorrect`, `NeverLostAlways`, `OneAtATimeAlways`, and
`QueueImplements == Spec => Queue!Safety`, the safety part of the refinement, step by step.
`NeverLost` is not inductive. A rejected task is on the stream twice before its original is
dropped, and two loops may reject the same task at once, each with a copy: `SafeInv` says
that a loop about to drop its entry leaves behind a success, a dead letter that no redrive
is about to delete, or an entry *later* than its own. The order makes it inductive: the
two loops cannot both rely on the entry the other one drops. `RedriveInv` is the same for
the dead letter of a redriven task. `BusyInv` (busy is set exactly while one loop
processes) gives `OneAtATime`. The fairness part of `AtLeastOnce` stays with TLC.

`DerivativeWorker` is StreamQueue with the processor of audio-processing-service in the
place of any: `RunProcessor` is split into the report of a success (`PostCompleted`), the
arrival of its answer (`Succeeds`) and a failure (`Fails`), which is reported as
`derivative.failed` if `FinalAttempt` says so and may raise in turn. `heard` is what the
orchestrator has received, `unheard` the tracks whose failure could not be reported, which
is only logged; a worker that dies or stops forgets what its runs have `posted`. The other
actions are StreamQueue's. `MCStreamTasks` checks both in the run `StreamTasks`: `part`
is `"any"` for StreamQueue alone and `"derivative"` for DerivativeWorker.

`FailureIsTold`: whatever is claimed, rejected or cut off in between, a dead letter is one
the orchestrator has heard of or the log admits that it has not, and `derivative.failed` is
sent of a track only when its task has been tried more often than the retry limit. The
first half is what keeps a room from waiting for a derivative nobody makes; the second is
the module comment of `derivative_processor.py`. Dead letters of this queue are not
redriven (`queue_service.py` does not know it).

Theorems (`DerivativeWorkerProofs`), for all constants: `WorkerImplements == WorkerSpec =>
Spec`, so that every safety theorem about StreamQueue is one about audio-processing-service,
and `FailureToldAlways == WorkerSpec => []FailureIsTold`. The invariant is `WorkerInv`,
StreamQueue's `Inv` with four more parts: the retry count of an entry, which a claim raises
in memory and a reject in the stream, is never ahead of the tries of its task
(`EntriesInv`, `TodoInv`), also not in the hands of a loop (`TurnsInv`), and a loop that is
about to acknowledge, or to reject on its last attempt, has told. That last part is where
the processor's count and that of `reject` have to agree.

Not excluded: a failure told by one worker may be followed by a success of another that
still runs the same task; `RoomLifecycle` takes the reports in any order.

Noticed: `redis_transcription_queue_service.py:155` says stop lets the current task
finish and the code cancels it; `queue_service.py:133` reads the stream's length as
the number of pending tasks, but a rejected original stays in the stream.

## 7. TranscriptPipeline

One track, up to two attempts at its transcription task. An attempt is a thread
(`Decode`, `Put`, `Polls`: `transcribe_in_thread`) and a coroutine (`Get`, `Enqueue`,
`Answer`, `Join`: `_transcribe_and_stream_batches`); they meet in `slot`, a queue of one
batch, and in `future`, the acknowledgement of that batch. `Cancel` is the
cancellation of the task (a stopping worker) at any await. The orchestrator's save
service reads the stream with a consumer and an orphan loop that share no lock
(`ReadTask`, `ClaimOrphans`, `NextClaimed`, `LookUpIndex`, `AppendChunk`, `SaveMarker`,
`Acknowledge`, `Reject`), and `SaverCrash` kills it. Acknowledge and reject are single
steps here: their halves are StreamQueue's subject.

`Services` checks two batches, two attempts, one retry on the stream, and two troubles
while there is one attempt, one where there are two (`Affordable` in `MCServices`: the
handshake concerns a single attempt, and the other properties are proved without bounds):

- `BatchesInOrder`: each batch is on the stream before the next is decoded, once; a
  marker is the attempt's last entry, `completed` only after all batches, `failed`
  never after a batch that may have been stored.
- `NeverStuck`: neither the thread nor the coroutine waits for ever, whatever is
  cancelled or fails (`ENABLED`, checked in every state).
- `CompletedIsWhole`: a completed track has every chunk stored or still to come,
  unless it was given up.
- `CountIsRows`: `chunk_count` is the number of rows although both loops append.

Theorems (`SttProofs`), for every number of batches, attempts, retries and
troubles: `TypeCorrect`, `BatchesInOrderAlways`, `CompletedIsWholeAlways`,
`CountIsRowsAlways`. `Handshake(a)` is what the thread and the coroutine of an attempt know
of each other at each place of the thread: how many batches are on the stream against how
many the thread counts, what lies in the slot, whether a marker was written; every way a
cancellation can cut the exchange is one of its disjuncts. `Copied` (a retried entry is a
copy of one the attempt wrote) makes a statement about first entries one about all;
`Delivery` says that every batch is stored, on its way or given up, and that an entry
about to be acknowledged is; `Completion` that a completed track had its marker.
`NeverStuck` stays with TLC: it is stated with `ENABLED`.

What the model also shows and no line of the repository excludes: a retried attempt
starts at batch 0 and the rows of the first one stay; two concurrent appends may take
the same `chunk_index` (there is no unique constraint), which is why no property
speaks of its order; a `failed` marker redelivered late overwrites a completed status.

### 7.1 MarkerSegments

What one attempt decodes: `prepare_audio` and `iter_segments` of
`MarkerWhisperTranscriber`, a sequential program whose difficulty is in its algorithms.

| code | model |
|---|---|
| `pack_speech_with_marker` | `PackSpeech`, `Length`; a chunk is the list of its spans' numbers |
| `token_edit_distance`, `aligned_marker_indexes` | `Costs`, `Aligned`: the table and the way back through it, as recursive functions |
| `marker_matches`, `select_marker_matches` | `Matches`, `BestMatch`, `SelectedMatches` |
| `filter_whisper_hallucinations` | `WithoutHallucinations` |
| `estimate_boundaries`, `mode_cost` | `EstimateBoundaries` with `CutCost`, `ShareCost`: the cheapest way to every position, span by span; the first of equally cheap ones, as the loops keep it |
| `partition_tokens`, `resolved_slots` | `Reading`, `PartitionTokens`, `Usable` |
| `prepare_audio`, `iter_segments` | `PrepareAudio`; `TranscribeWithWhisper`, `TranscribeWithGipformer`, `TranscribeChildrenWithGipformer`, `YieldSegments` |

A token is a word, normalized; lengths are in seconds and costs in thousandths, rounded
down (the code adds floats). Voice activity detection and the two decoders are external:
any spans of `Recordings`, any text of `Texts`, any of its words a boundary between
Whisper's own segments, at most `MaxSegments` of them.

`Services` runs it for recordings of two spans, of three in one chunk and of three in
two, a marker of three words where the code's has four, every text of up to four words
of the marker or one other, of up to three with a word that ends a sentence and doubled is
spam, and four longer ones (two markers, one that begins twice, spam in front of one, an
echoed one), and two segments of Whisper's own:

- `MarkersAreRemoved`: every exact marker in the text is taken out; whatever is taken
  out is the marker but for one word and takes no neighbour's word with it; the other
  words are given to the spans whole and in order. The code scans windows of three
  widths, so several matches overlap around each spoken marker, and the choice among
  them decides this.
- `CutsAreCheapest`: the division costs no more than any other (reference: all of them),
  although the search keeps one way per position and cuts at markers have negative cost.

The instance covers the boundaries of both: texts shorter than the marker, empty spans,
no marker, more and fewer markers than bridges, a match at either end. What breaks is
`MarkersDivide` (section 14). All of this stays with TLC: what a recursive
definition computes for every input is an induction over data.

## 8. LivePipelines

`socket` is a websocket handler, `pipeline[k]` the inference pipeline of a client with
its thread, `box` a dispatcher's queue. Audio is numbered chunks; a pipeline collects
`Batch` of them, recognises `Block` at a time, and a result carries the number of the
last chunk heard. `joining` is the event loop inside `shutdown`, which joins the
thread without an await: while it is set no coroutine and no handler takes a step
(`LoopFree`). `stuck` collects the tasks waiting for `pipelines_lock` when
`create_pipeline` has taken it twice.

| code | model |
|---|---|
| `websocket_stt_transcription` | `Register`, `Submit`, `SubmitAtLimit`, `Leave`, `Cleanup` |
| `create_pipeline`, `_cleanup_idle_pipelines` | `NewPipeline`, `AtLimit`, `WaitForLock`, `CleanupIdle` |
| `_processing_loop`, `_process_accumulated_chunks` | `Get`, `Recognise`, `RecogniseFails`, `Stop` |
| `shutdown` | `BeginShutdown`, `Joined`, `FinishShutdown`, `BreakerShutdown` |
| `_emit_result`, `emit_result`, `_dispatcher_loop` | `EmitResult`, `Send` |

`Services` checks two connections of two clients with one pipeline slot and four
chunks: `ResultsInOrder` (the last result a connection was sent and those that wait for it
are in the order of the audio, none of them twice, whether they come from the thread, the
flush of a shutdown or the next pipeline of the client) and
`TailIsHeard` (what was taken from the queue was recognised, the padded last block
included). Four chunks with blocks of three leave a tail, and one queue slot makes
results drop. `LiveLimit` is kept as a violation of `LimitRejects`: at the limit
`create_pipeline` waits for a lock it holds.

Theorems (`SttProofs`), for every set of clients and connections, every size of queue,
batch and block and any number of chunks and failures: `ResultsInOrderAlways`,
`TailIsHeardAlways`. They need of the constants that a block is not empty and that no
connection is `Nobody` (`LiveAssumption`). The invariant is `LiveInv`:

- `Placed` accounts for the chunks a client's pipelines accepted: each is recognised, lost
  to a failed model, in the buffer, accumulated or queued, the newest in the queue, in this
  order and in one place. A pipeline that is over has an empty buffer; that is
  `TailIsHeard`.
- `Top` is the last result a pipeline may have emitted, given how far it has heard and
  whether it has text to flush. `Spoken`: what is scheduled on the loop rises up to it;
  every step of a pipeline emits only above it (`Grows`), a new pipeline goes on where the
  chunks are.
- `Chain`: what a connection was sent is below what its box holds, that below what is
  scheduled for its client, all up to `Top`. The box alone would not carry it: a client's
  new connection gets what the old pipeline emitted, so `Routed` says that a dispatcher
  sends its own client's results and a connection never changes its client.

TLC checked `LiveInv` on the instance of `Services` with five chunks, two clients at a
time and boxes of two. `LimitRejects` is refuted, so it has no theorem.

Noticed: the text flushed at a disconnect is emitted to a dispatcher that is already
stopped; a client that connects again before its old handler ended loses its new
dispatcher and pipeline to that handler's `finally`; the breaker is one for the
process and nothing resets it (`circuit_breaker.py:201`); a block slower than the join's
timeout (excluded, see the module's head) goes on after its pipeline was removed.

## 9. RoomSummary

One room whose messages have timestamps `Stamp` (HH:MM:SS without a date). `fix` is a
correction, `call` a summariser's position in `generate_summary` or one of the retries.
Every database call is a step; the model's answers are any that its caller
distinguishes. `TopicOpen` chooses whether the model finds a topic's end in a window.

| code | model |
|---|---|
| `generate_summary` | `Generate`, `GenerateFix`, `Choose` |
| `correct_transcript_for_room` (also as an endpoint) | `BeginFix`, `FixChunk`, `EndFix`, `FixFails`, `CorrectTranscript` |
| `process_room` | `BeginSections`, `SaveSection`, `SectionFails`, `TopicNotFound`, `SectionsDone` |
| `generate_overall_summary`, `merge_section_summaries` | `ReadSections`, `NoSections`, `Overall`, `SaveOverall`, `OverallFails`, `SaveOverallFails` |
| `_execute_normal_summary_flow` | `SaveNormal`, `NormalFails`, `SaveNormalFails` |
| `retry_summary_from_full_text`, `retry_overall_summary_only` | `Retry`, `ResumesAt` |
| outbox INSERT | `Queue`, `Loses` |

`Services` checks six messages, two of them in one second and the last past midnight,
three calls, two failures or crashes, one summariser beside two corrections:
`SummaryIsWhole` (the sections of a summary cover the room without a hole, and overlap
only where a timestamp repeats), `ProgressIsTrue` (`correction_progress` never counts
a message that is not corrected in the row), `MissingIsQueued` (a room without a
summary is in the outbox or in the log).

`Summarisers` has one member: two summarising calls of one room that overlap break
`SummaryIsWhole` (one deletes the sections the other counts on), and nothing in the
code prevents a retry beside a running call except that nobody issues one. A `DELETE`
or read of the sections that fails is treated as "no sections" and old ones are
merged again; `stale` exempts it. Noticed: a failed UPDATE in the normal flow leaves
no outbox row; a retry answers `summary_done` although its UPDATE failed; retry type
`overall_context` merges whatever sections there are.

Theorems (`OrchestratorProofs`), for every list of timestamps, every choice of windows and
faults and any number of failures and crashes: `TypeCorrect`, `ProgressIsTrueAlways` and
`MissingIsQueuedAlways` for any number of calls that overlap, `SummaryIsWholeAlways` for
one summarising call at a time (`Summarisers = {w}`) beside any number of corrections.

- `ProgressIsTrue` needs that a running correction holds the correction of all it left
  behind (`Corrected`): its chunk is written as one array with one progress, so a call
  that overwrites another's row overwrites both.
- `MissingIsQueued` needs `Minded`: a room of whose summary nothing says that it is
  missing has its first call still at work.
- `SummaryIsWhole` needs `Joined`: the sections there are join, from the first to some
  n-th, and a call among them stands where the n-th ends (`OnCourse`), also after a resume
  behind the first message with the last one's time; what a call has read and carries to
  the overall context covers the room. `Positioned` says that a call which has not begun
  the sections is at the first message.
- `CandidateEnd` and the sections' last index are a minimum and a maximum; that these
  exist is proved from the well-foundedness of the naturals (`Smallest`, `Largest`).

## 10. EventChannels

`SSEManager` with its four channels, the generator of each connection and the clients
that connect again. Connections are numbered in the order they are made; `pos` counts
the events a connection has behind it. `NewestMissesNothing` (`Services`: two tabs of
one user, the agent of the room, two bots, two connections each queue two, two events,
one broken connection): what the newest connection of an app has not read is in its
queue, unless that was full, although old connections are told, break, are noticed and
unregister around it. Two connections are the one replaced and its successor.

`FairSpec` has the event loop run every generator; it is used in section 14.

Theorem (`OrchestratorProofs`), for every set of clients and connections, every size of
queue and any number of events and broken connections: `NewestMissesNothingAlways`, under
`EventAssumption` (connections are numbered, and none of them is `NoOne`). `EventInv` needs
more than the property says of the connection a client reads: `Attached` is about the
newest live connection of an app whether or not its client still reads it, and says that
it is in the table, where every push finds it, whichever older generators unregister
meanwhile; `InOrder` (connections open in their order) makes the
connection that has just opened the newest, and `Owned` says that one which was never
opened is nowhere.

Noticed: a metadata event is broadcast before it is saved; a response cancelled before
its generator starts never unregisters; the agent's backoff never resets.

## 11. AgentFleet

worker-manager's shard goroutine per room (`Dispatch`, `Start`, `Persisted`, `Stop`,
`Signal`), its reaper and killer goroutines (`Reap`, `KillAfterTimeout`), the registry
file written under `persistMu` (`Snapshot`, `Write`), its death and successor (`Crash`,
`Restart`, `TryAdopt`); the agent process (`Listen`, `RegisterRoom`, `RegisterBot`,
`Dial`, `SessionEnds`, `Unregisters`, `AfterSession`, `Exit`); the gateway's
`activeRooms` (`Registers`, `Unregisters`, `ForwardsAs`, `GatewayRestarts`).

`Agents` checks one room, three processes, four add or delete events, one failure, one
crash of the manager: `OneAgent`, `RegistryIsCurrent`, `ChatForwarded`. Rooms share
only `persistMu` and the file, whose entries are per room: what can go wrong between
two writers goes wrong between the shard and the reaper of one. Three processes are
the old one, its successor and one more after a restart. `OneAgent` exempts agents a
crash cut off between spawn and registry (`lost`): nothing in the code can find them.

Theorems (`AgentFleetProofs`), for every set of rooms and agents and any number of events,
faults and crashes: `TypeCorrect`, `OneAgentAlways`, `RegistryIsCurrentAlways`,
`ChatForwardedAlways`. The invariant keeps the manager's books and the processes together:
no book of a room names an agent of another (`Roomed`), an agent that serves and was not
dismissed or lost is in the table of a manager that is up, in the table or still to be
adopted while it reconciles, and in the file while it is down (`Followed`); there is one
writer at a time, with the current table unless somebody else has still to write
(`Registry`); nobody waits yet for an agent that was just spawned or is still to be adopted
(`Fresh`); an agent is at the gateway only while it is in a session (`Chat`).
`NamesAssumption` says that no room is called like an agent's UUID.

Noticed: `manager.go:41-48` says the manager keeps no state on disk; `registry.json` is.

## 12. MediaSlots

mezon-sfu gives a fixed set of slots to peers and says so by signaling only
(`ApplySlotAssigned`, `ApplySlotReleased`, `OnPeerLeft`), while packets of a slot go on
arriving on one track (`ReadPacket`, `Reserve`, `Enter`, `Write`). Ending a binding is a
goroutine (`Retire`, `Unbind`), switching transcription visits the sessions one by one
(`SetSTTEnabled`, `ToggleSession`), a departed peer's session is closed outside the
bridge's lock (`CloseSession`). `Agents` checks two slots, two peers and two signaling
events: `DepartedIsClosed`, `EndedIsSilent`, `SttFollows`. Two events are an assignment
and what ends or overtakes it (three were checked too, with symmetry, to the same
result). The SFU is an external party: it numbers generations upwards.

Theorems (`AgentSessionProofs`), for every pool, every set of peers and any number of
events: `TypeCorrect`, `DepartedIsClosedAlways`, `EndedIsSilentAlways`,
`SttFollowsAlways`.

- `DepartedIsClosed` needs `Booked` (a session in use is in the table or about to be
  closed, and only a peer that is there has one in the table) and `Handling` (the lock of
  a session keeps it from being closed under a packet).
- `EndedIsSilent` needs `Unique` (a revision is of one slot and one peer among all the
  bindings anybody still knows of, a read loop's packet included) and `Retired` (what has
  ended is retired in its slot, and a packet already inside holds the end up).
- `SttFollows` needs `Off`: a sink that transcription off should end, and the session a
  packet is about to open one for, is still to be visited or closed.

## 13. TtsPlayer

One player with its worker, silence ticker, forwarder and request handler, and the
session that connects, rejoins and leaves. Time is counted in frames of 20 ms (`Tick`);
a frame that is due is sent before time goes on. `Agents` checks one player, two
requests, an utterance of two frames, a forwarder queue of two, time 3 and every
fault. Players share `refs` only, and one player passes through it in every way a
successor could; `Players` has more than one member in no run; the theorems are about any number of them.

- `SpeechIsPlaced`: an utterance's position in the recording is the clock's position
  where its transcript says it starts, up to one frame per earlier utterance. That
  frame is real: playback ends one frame before the clock does.
- `PlayedIsReported`: a finished utterance is reported before the track is.

Theorems (`AgentSessionProofs`), for every set of players, every length of an utterance,
any number of requests and frames and every set of faults: `SpeechIsPlacedAlways`,
`PlayedIsReportedAlways`, under `VoiceAssumption` (an utterance is a number of frames, and
a player is not nil). `VoiceInv`:

- `Timeline` says how far the recording is ahead of the clock at any moment (`Ahead`: at
  most a frame per utterance said so far). While an utterance is played the two move at
  different times, so `Playing` says where the recording is by the utterance's position and
  the frames played since; `OnTheClock` ties the frame that is due to the present.
- `DialsOnce`: the dial that fixes the start of the recorded track comes before the first
  utterance, so no earlier one is measured against a track that starts after it.
- `Reports`, `Referred` and `Closes` follow `Close` from the goroutine that calls it: once
  it no longer waits for the worker, that worker has nothing left that ends in playback
  (`Settled`), or is still in the dial that `Close` gave up waiting for (`Unwinding`).

`SpeakPanics` is kept as a violation of `SpeakIsSafe`: `Close` closes the channel that
`Speak` is about to send on. Noticed: the last count of dropped frames is discarded
when the queue is full at `Close` (`forwarder.go:158`; line 82 says it is folded in), and
a session that connects again reuses the track id `agent-tts`, already reported
complete. `NothingUncounted` states what the forwarder counts while it is open.

## 14. Other disagreements the models show

Properties that are stated in their modules and that TLC breaks; no run is kept.

| property | instance | what happens |
|---|---|---|
| `AgentFleet!Reconnectable` | the instance of `Agents`, `MaxTrouble` 0 | a delete and an add of one room: the old agent closes its listener after the new one bound the same path, and `net.UnixListener.Close` unlinks the new socket, so the next manager cannot adopt the agent (`socket.go:16-18` calls it "always reconnectable") |
| `RoomSummary!OutboxIsTaken` | `FairSpec`, one failure, one call | a queued retry is never read: `fetch_pending_outbox_tasks` has no caller, ORCH `README.md:59` says a worker polls it |
| `EventChannels!ReplacedEnds` | `FairSpec`, two tabs, `QueueSize` 1, one event | a replaced connection whose queue is full gets no disconnect message and its generator waits on the queue for ever; the comment at `sse_manager.py:166` says it "will be disconnected anyway" |
| `MarkerSegments!MarkersDivide` | the instance of `Services` | three spans of 1, 1 and 3 seconds, heard as `x M x M x`, both markers exactly: the spans are given `x`, nothing and `x x`. `mode_cost` (`whisper_marker_transcriber.py:341-342`) rewards every cut at a marker, also a second one at the same marker, so both cuts fall on the first and the second span's words go to the third, although each transcript's time range is "owned by a source VAD span" (line 53) |

## 15. Not modelled

Authentication (credentials and their checks, no protocol with another component),
queue listings and statistics, LLM and TTS clients (one call each), voice activity
detection and the decoders, transcoding, codecs and WebRTC negotiation, the SFU path without a
media pool, the dashboard, scripts and generated code. Of modelled components, the
`note` in PROJECT.json names what is left out.

Stated in their modules, held in the instances above when checked alone, and in no run
at present: `FailedIsTrue`, `RegisteredIsOwned`, `OpenIsKnown`, `FinalStaysFinal`
(RecordSession), `BuriedIsTried` (StreamQueue), `NothingUncounted` (TtsPlayer).
