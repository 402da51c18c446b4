----------------------------- MODULE RecordSession -----------------------------
(***************************************************************************)
(* The life of ONE recording session (one room_id:track_id) in             *)
(* record-service: the gRPC handlers that start, feed and stop it, the     *)
(* grace timers, the fire-and-forget recording.started report, the         *)
(* reconciler, the per-session state file, the S3 multipart uploads and    *)
(* what the orchestrator has been told.                                    *)
(*                                                                         *)
(* record-service is a single asyncio event loop.  A step of this module   *)
(* runs one task from one await to the next; `loop' names the task that    *)
(* has the loop and has not reached an await yet, so nothing is            *)
(* interleaved where the code has no await (taking an uncontended          *)
(* asyncio.Lock is not one).  The work a task awaits (an S3 call, an HTTP  *)
(* post, a file write) takes effect in the step that ends the await,       *)
(* except file writes, which run in threads and may outlive their task.    *)
(*                                                                         *)
(* Every start that finds nothing to resume opens its own multipart upload *)
(* and its own RecordingSession object: both are named by the stream that  *)
(* opened them.                                                            *)
(***************************************************************************)
EXTENDS Naturals, Sequences, FiniteSets

CONSTANTS
    Streams,        \* the StreamAudio calls made for this session_id
    None,           \* no stream, no upload
    PartSize,       \* part_size_bytes, in PCM chunks
    MaxFrames,      \* bound: PCM chunks fed to one session object
    MaxCrashes,     \* bound: process crashes
    Faults,         \* which external calls may fail, see FaultKinds
    Overlap,        \* a stream may open while an earlier one is attached
    Periodic,       \* the reconciler loop runs, not only the startup pass
    ScanLag,        \* tasks may run between the reconciler's read and check
    LateStarted,    \* the session goes on while recording.started is posted
    BreakAnywhere   \* a connection may break while its handler is not reading

FaultKinds == {"create", "upload", "complete", "answer", "abort", "report", "disk"}

ASSUME StreamsAssumption == IsFiniteSet(Streams) /\ None \notin Streams
ASSUME BoundsAssumption ==
    PartSize \in Nat \ {0} /\ MaxFrames \in Nat /\ MaxCrashes \in Nat
ASSUME FaultsAssumption == Faults \subseteq FaultKinds
ASSUME KnobsAssumption ==
    {Overlap, Periodic, ScanLag, LateStarted, BreakAnywhere} \subseteq BOOLEAN

--------------------------------------------------------------------------------
(* Tasks of the event loop *)

Conn(s)    == <<s, "stream">>     \* StreamAudio
Grace(s)   == <<s, "grace">>      \* the _grace_timeout its abrupt end created
Started(s) == <<s, "started">>    \* the recording.started report it created
Reconciler == <<None, "reconciler">>
Idle       == <<None, "idle">>

Finalizers == {Conn(s) : s \in Streams} \cup {Grace(s) : s \in Streams}
Tasks      == Finalizers \cup {Started(s) : s \in Streams} \cup {Reconciler}

Statuses == {"recording", "graceWait", "finalizing", "completed", "failed"}
Events   == {"started", "completed", "failed"}

Session   == [upload : Streams \cup {None}, status : Statuses, stored : Nat]
NoSession == [upload |-> None, status |-> "failed", stored |-> 0]
NewSession(u) == [upload |-> u, status |-> "recording", stored |-> 0]

VARIABLES
    up,         \* "starting": reconciling before the server opens; "serving"
    loop,       \* the task that has the event loop, or Idle
    pc,         \* where each task is: the await it sits at
    me,         \* its local variable `active'/`session' (None: the reconciler's copy)
    payload,    \* its local variable `payload': chunks taken out of the buffer
    event,      \* the event it reports
    write,      \* its disk operation still running in a thread
    creation,   \* creation_lock(session_id): holder first, then the waiters
    registry,   \* SessionRegistry._sessions[session_id]
    lock,       \* ActiveSession.lock: holder first, then the waiters
    sess,       \* the RecordingSession objects in memory
    buffer,     \* ActiveSession.buffer, in chunks
    received,   \* RecordingSession.raw_bytes_received, in chunks
    graceTask,  \* ActiveSession.grace_task: the stream whose timer it is
    file,       \* the session's state file
    upload,     \* S3: the multipart uploads
    object,     \* S3: chunks in the object a completed upload left
    told,       \* the events the orchestrator has received for each upload
    lost,       \* history: chunks whose upload was given up
    crashes     \* history: crashes so far

localVars  == <<pc, me, payload, event>>
memoryVars == <<sess, buffer, received, graceTask>>
s3Vars     == <<upload, object>>
vars == <<up, loop, localVars, write, creation, registry, lock, memoryVars,
          file, s3Vars, told, lost, crashes>>

StartPcs    == {"enter", "resume", "resaving", "create", "newsaving"}
AppendPcs   == {"append", "upload", "appsaving"}
DropPcs     == {"broken", "drop", "dropsaving"}
FinalizePcs == {"cancel", "begin", "finalize", "flush", "complete", "saving"}
ReportPcs   == {"report", "acked", "unacked", "deleting"}
TimerPcs    == {"sleep", "claim"}
Pcs == {"idle", "open", "check", "end"} \cup StartPcs \cup AppendPcs \cup DropPcs
       \cup FinalizePcs \cup ReportPcs \cup TimerPcs

TaskTypes ==
    /\ loop \in Tasks \cup {Idle}
    /\ pc \in [Tasks -> Pcs]
    /\ me \in [Tasks -> Streams \cup {None}]
    /\ payload \in [Tasks -> Nat]
    /\ event \in [Tasks -> Events]
    /\ write \in [Tasks -> SUBSET Session]

LockTypes ==
    /\ creation \in Seq(Tasks)
    /\ registry \in Streams \cup {None}
    /\ lock \in [Streams -> Seq(Tasks)]

MemoryTypes ==
    /\ sess \in [Streams \cup {None} -> Session]
    /\ buffer \in [Streams -> Nat]
    /\ received \in [Streams -> Nat]
    /\ graceTask \in [Streams -> Streams \cup {None}]

WorldTypes ==
    /\ up \in {"starting", "serving"}
    /\ file \in Session
    /\ upload \in [Streams -> {"none", "open", "completed", "aborted"}]
    /\ object \in [Streams -> Nat]
    /\ told \in [Streams -> SUBSET Events]
    /\ lost \in [Streams -> Nat]
    /\ crashes \in Nat

TypeOK == TaskTypes /\ LockTypes /\ MemoryTypes /\ WorldTypes

Init ==
    /\ up = "starting" /\ loop = Idle
    /\ pc = [t \in Tasks |-> "idle"]
    /\ me = [t \in Tasks |-> None]
    /\ payload = [t \in Tasks |-> 0]
    /\ event = [t \in Tasks |-> "started"]
    /\ write = [t \in Tasks |-> {}]
    /\ creation = <<>> /\ registry = None
    /\ lock = [u \in Streams |-> <<>>]
    /\ sess = [u \in Streams \cup {None} |-> NoSession]
    /\ buffer = [u \in Streams |-> 0]
    /\ received = [u \in Streams |-> 0]
    /\ graceTask = [u \in Streams |-> None]
    /\ file = NoSession
    /\ upload = [u \in Streams |-> "none"]
    /\ object = [u \in Streams |-> 0]
    /\ told = [u \in Streams |-> {}]
    /\ lost = [u \in Streams |-> 0]
    /\ crashes = 0

--------------------------------------------------------------------------------
(* The event loop, the locks and the file writes *)

At(t, l)    == pc[t] = l /\ loop \in {Idle, t}
Yield(t, l) == pc' = [pc EXCEPT ![t] = l] /\ loop' = Idle   \* reaches an await
Go(t, l)    == pc' = [pc EXCEPT ![t] = l] /\ loop' = t      \* runs on

First(q, t) == q # <<>> /\ Head(q) = t
Without(q, t) ==
    IF \E i \in DOMAIN q : q[i] = t
    THEN LET k == CHOOSE i \in DOMAIN q : q[i] = t
         IN  SubSeq(q, 1, k - 1) \o SubSeq(q, k + 1, Len(q))
    ELSE q

Holds(t)   == me[t] \in Streams /\ First(lock[me[t]], t)
Acquire(t, u, l) ==
    /\ pc' = [pc EXCEPT ![t] = l]
    /\ me' = [me EXCEPT ![t] = u]
    /\ lock' = [lock EXCEPT ![u] = Append(@, t)]
    /\ loop' = IF lock[u] = <<>> THEN t ELSE Idle
Release(t) == lock' = [lock EXCEPT ![me[t]] = Tail(@)]

\* save(): the document is serialized now and written by a thread later
Save(t, doc) == write' = [write EXCEPT ![t] = {doc}]
Saved(t)     == write[t] = {}

WriteLands(t) ==
    /\ \E doc \in write[t] :
        \/ file' = doc
        \/ "disk" \in Faults /\ doc # NoSession /\ file' = file
    /\ write' = [write EXCEPT ![t] = {}]
    /\ UNCHANGED <<up, loop, localVars, creation, registry, lock, memoryVars,
                   s3Vars, told, lost, crashes>>

--------------------------------------------------------------------------------
(* Cancelling a task at its await: its locks are released or its place in   *)
(* their queues given up, the bytes it was uploading are in no part list,   *)
(* and the call it was waiting for may still have reached the other side.   *)

Closes(x) ==      \* S3 closes the upload of session object x
    LET u == x.upload IN
    /\ u \in Streams /\ upload[u] = "open"
    /\ upload' = [upload EXCEPT ![u] = IF x.stored = 0 THEN "aborted" ELSE "completed"]
    /\ object' = [object EXCEPT ![u] = x.stored]

Tell(t) ==
    told' = [told EXCEPT ![sess[me[t]].upload] = @ \cup {event[t]}]

CallOutlives(t) ==
    \/ UNCHANGED <<s3Vars, told>>
    \/ /\ pc[t] = "create"
       /\ \E s \in Streams : t = Conn(s) /\ upload' = [upload EXCEPT ![s] = "open"]
       /\ UNCHANGED <<object, told>>
    \/ pc[t] = "complete" /\ Closes(sess[me[t]]) /\ UNCHANGED told
    \/ pc[t] = "report" /\ Tell(t) /\ UNCHANGED s3Vars

Cancelled(t) ==
    /\ creation' = Without(creation, t)
    /\ lock' = [u \in Streams |-> Without(lock[u], t)]
    /\ lost' = [u \in Streams |-> IF u = me[t] THEN lost[u] + payload[t] ELSE lost[u]]
    /\ payload' = [payload EXCEPT ![t] = 0]
    /\ CallOutlives(t)

--------------------------------------------------------------------------------
(* StartRecording *)

Detached(s)    == pc[Conn(s)] \in {"idle", "end"}
StartedSettled == LateStarted \/ \A s \in Streams : pc[Started(s)] \in {"idle", "end"}

OpenStream(s) ==
    /\ up = "serving" /\ loop = Idle /\ pc[Conn(s)] = "idle"
    /\ Overlap \/ \A r \in Streams : Detached(r)
    /\ creation' = Append(creation, Conn(s))
    /\ pc' = [pc EXCEPT ![Conn(s)] = "enter"]
    /\ loop' = IF creation = <<>> THEN Conn(s) ELSE Idle
    /\ UNCHANGED <<up, me, payload, event, write, registry, lock, memoryVars, file,
                   s3Vars, told, lost, crashes>>

CreationUnlocked(t) == TRUE                          \* mutant: no creation lock
CreationHeld(t) == First(creation, t)

LookUp(s) ==
    LET t == Conn(s) IN
    /\ At(t, "enter") /\ CreationHeld(t)
    /\ \/ registry = None /\ Yield(t, "create") /\ UNCHANGED <<me, lock>>
       \/ registry # None /\ Acquire(t, registry, "resume")
    /\ UNCHANGED <<up, payload, event, write, creation, registry, memoryVars, file,
                   s3Vars, told, lost, crashes>>

Resumable(status) == status = "graceWait"
ReusableAlways(status) == status # "failed"          \* mutant: status not looked at
Reusable(status)  == status = "recording"

\* _try_resume_or_reuse on a GRACE_WAIT session cancels the timer first
ResumeCancelsTimer(s) ==
    LET t == Conn(s)  u == me[t]  g == Grace(graceTask[u]) IN
    /\ At(t, "resume") /\ Holds(t)
    /\ Resumable(sess[u].status) /\ graceTask[u] # None
    /\ Cancelled(g)
    /\ graceTask' = [graceTask EXCEPT ![u] = None]
    /\ pc' = [pc EXCEPT ![g] = "end"] /\ loop' = t
    /\ UNCHANGED <<up, me, event, write, registry, sess, buffer, received, file, crashes>>

Resume(s) ==
    LET t == Conn(s)  u == me[t] IN
    /\ At(t, "resume") /\ Holds(t)
    /\ Resumable(sess[u].status) /\ graceTask[u] = None
    /\ sess' = [sess EXCEPT ![u].status = "recording"]
    /\ Save(t, sess'[u]) /\ Yield(t, "resaving")
    /\ UNCHANGED <<up, me, payload, event, creation, registry, lock, buffer, received,
                   graceTask, file, s3Vars, told, lost, crashes>>

Resumed(s) ==
    LET t == Conn(s) IN
    /\ At(t, "resaving") /\ Saved(t)
    /\ Release(t) /\ creation' = Tail(creation) /\ Yield(t, "open")
    /\ UNCHANGED <<up, me, payload, event, write, registry, memoryVars, file, s3Vars,
                   told, lost, crashes>>

\* a duplicate start gets the live session back
Reuse(s) ==
    LET t == Conn(s) IN
    /\ At(t, "resume") /\ Holds(t)
    /\ Reusable(sess[me[t]].status) /\ ~Resumable(sess[me[t]].status)
    /\ Release(t) /\ creation' = Tail(creation) /\ Yield(t, "open")
    /\ UNCHANGED <<up, me, payload, event, write, registry, memoryVars, file, s3Vars,
                   told, lost, crashes>>

\* a stale entry is popped and a fresh upload opened
DropStale(s) ==
    LET t == Conn(s) IN
    /\ At(t, "resume") /\ Holds(t)
    /\ ~Resumable(sess[me[t]].status) /\ ~Reusable(sess[me[t]].status)
    /\ Release(t) /\ registry' = None /\ Yield(t, "create")
    /\ UNCHANGED <<up, me, payload, event, write, creation, memoryVars, file, s3Vars,
                   told, lost, crashes>>

CreateUpload(s) ==
    LET t == Conn(s) IN
    /\ At(t, "create")
    /\ upload' = [upload EXCEPT ![s] = "open"]
    /\ sess' = [sess EXCEPT ![s] = NewSession(s)]
    /\ registry' = s
    /\ me' = [me EXCEPT ![t] = s]
    /\ Save(t, NewSession(s)) /\ Yield(t, "newsaving")
    /\ UNCHANGED <<up, payload, event, creation, lock, buffer, received, graceTask, file,
                   object, told, lost, crashes>>

CreateFails(s) ==
    LET t == Conn(s) IN
    /\ At(t, "create") /\ "create" \in Faults
    /\ creation' = Tail(creation) /\ Yield(t, "end")
    /\ UNCHANGED <<up, me, payload, event, write, registry, lock, memoryVars, file,
                   s3Vars, told, lost, crashes>>

Created(s) ==
    LET t == Conn(s) IN
    /\ At(t, "newsaving") /\ Saved(t)
    /\ creation' = Tail(creation)
    /\ pc' = [pc EXCEPT ![t] = "open", ![Started(s)] = "report"] /\ loop' = Idle
    /\ me' = [me EXCEPT ![Started(s)] = s]
    /\ UNCHANGED <<up, payload, event, write, registry, lock, memoryVars, file, s3Vars,
                   told, lost, crashes>>

--------------------------------------------------------------------------------
(* AppendAudio *)

RecvAudio(s) ==
    LET t == Conn(s) IN
    /\ At(t, "open") /\ StartedSettled
    /\ \/ registry = None /\ Yield(t, "end") /\ UNCHANGED <<me, lock>>
       \/ registry # None /\ received[registry] < MaxFrames /\ Acquire(t, registry, "append")
    /\ UNCHANGED <<up, payload, event, write, creation, registry, memoryVars, file,
                   s3Vars, told, lost, crashes>>

PartFull(n) == n >= PartSize

AppendFrame(s) ==
    LET t == Conn(s)  u == me[t]  n == buffer[u] + 1 IN
    /\ At(t, "append") /\ Holds(t)
    /\ received' = [received EXCEPT ![u] = @ + 1]
    /\ \/ /\ PartFull(n)
          /\ buffer' = [buffer EXCEPT ![u] = n - PartSize]
          /\ payload' = [payload EXCEPT ![t] = PartSize]
          /\ Yield(t, "upload") /\ UNCHANGED write
       \/ /\ ~PartFull(n)
          /\ buffer' = [buffer EXCEPT ![u] = n]
          /\ Save(t, sess[u]) /\ Yield(t, "appsaving") /\ UNCHANGED payload
    /\ UNCHANGED <<up, me, event, creation, registry, lock, sess, graceTask, file, s3Vars,
                   told, lost, crashes>>

\* the part's etag joins session.parts
Stores(t) ==
    /\ upload[me[t]] = "open"
    /\ sess' = [sess EXCEPT ![me[t]].stored = @ + payload[t]]
    /\ payload' = [payload EXCEPT ![t] = 0]
    /\ UNCHANGED lost

\* with_retry gave up: nothing puts the bytes back into the buffer
GivesUp(t) ==
    /\ "upload" \in Faults \/ upload[me[t]] # "open"
    /\ lost' = [lost EXCEPT ![me[t]] = @ + payload[t]]
    /\ payload' = [payload EXCEPT ![t] = 0]
    /\ UNCHANGED sess

UploadPart(s) ==
    LET t == Conn(s) IN
    /\ At(t, "upload")
    /\ \/ Stores(t) /\ Save(t, sess'[me[t]]) /\ Yield(t, "appsaving") /\ UNCHANGED lock
       \/ GivesUp(t) /\ Release(t) /\ Go(t, "broken") /\ UNCHANGED write
    /\ UNCHANGED <<up, me, event, creation, registry, buffer, received, graceTask, file,
                   s3Vars, told, crashes>>

AppendSaved(s) ==
    LET t == Conn(s) IN
    /\ At(t, "appsaving") /\ Saved(t)
    /\ Release(t) /\ Yield(t, "open")
    /\ UNCHANGED <<up, me, payload, event, write, creation, registry, memoryVars, file,
                   s3Vars, told, lost, crashes>>

--------------------------------------------------------------------------------
(* StopRecording.execute and the grace timer *)

GracefulEnd(s) ==
    LET t == Conn(s) IN
    /\ At(t, "open") /\ StartedSettled
    /\ \/ registry = None /\ Yield(t, "end") /\ UNCHANGED me
       \/ /\ registry # None
          /\ me' = [me EXCEPT ![t] = registry]
          /\ Go(t, IF graceTask[registry] = None THEN "begin" ELSE "cancel")
    /\ UNCHANGED <<up, payload, event, write, creation, registry, lock, memoryVars, file,
                   s3Vars, told, lost, crashes>>

StopCancelsTimer(s) ==
    LET t == Conn(s)  g == Grace(graceTask[me[t]]) IN
    /\ At(t, "cancel")
    /\ Cancelled(g)
    /\ pc' = [pc EXCEPT ![g] = "end", ![t] = "begin"] /\ loop' = t
    /\ UNCHANGED <<up, me, event, write, registry, memoryVars, file, crashes>>

\* the connection breaks: CancelledError in StreamAudio, at the await it sits at
BreakReading(s) ==
    LET t == Conn(s) IN
    /\ At(t, "open") /\ StartedSettled /\ Go(t, "broken")
    /\ UNCHANGED <<up, me, payload, event, write, creation, registry, lock, memoryVars,
                   file, s3Vars, told, lost, crashes>>

BreakMidCall(s) ==
    LET t == Conn(s) IN
    /\ BreakAnywhere /\ loop = Idle
    /\ \/ /\ pc[t] \in AppendPcs          \* session_id is set: stop_recording runs
          /\ pc' = [pc EXCEPT ![t] = "broken"] /\ loop' = t
       \/ /\ pc[t] \in StartPcs \cup FinalizePcs \cup ReportPcs
          /\ pc' = [pc EXCEPT ![t] = "end"] /\ loop' = Idle
    /\ Cancelled(t)
    /\ UNCHANGED <<up, me, event, write, registry, memoryVars, file, crashes>>

Drop(s) ==
    LET t == Conn(s) IN
    /\ At(t, "broken")
    /\ \/ registry = None /\ Yield(t, "end") /\ UNCHANGED <<me, lock>>
       \/ registry # None /\ Acquire(t, registry, "drop")
    /\ UNCHANGED <<up, payload, event, write, creation, registry, memoryVars, file,
                   s3Vars, told, lost, crashes>>

GraceWait(s) ==
    LET t == Conn(s)  u == me[t] IN
    /\ At(t, "drop") /\ Holds(t)
    /\ sess' = [sess EXCEPT ![u].status = "graceWait"]
    /\ Save(t, sess'[u]) /\ Yield(t, "dropsaving")
    /\ UNCHANGED <<up, me, payload, event, creation, registry, lock, buffer, received,
                   graceTask, file, s3Vars, told, lost, crashes>>

ArmTimer(s) ==
    LET t == Conn(s) IN
    /\ At(t, "dropsaving") /\ Saved(t)
    /\ Release(t)
    /\ graceTask' = [graceTask EXCEPT ![me[t]] = s]
    /\ pc' = [pc EXCEPT ![t] = "end", ![Grace(s)] = "sleep"] /\ loop' = Idle
    /\ UNCHANGED <<up, me, payload, event, write, creation, registry, sess, buffer,
                   received, file, s3Vars, told, lost, crashes>>

TimerFires(s) ==
    LET t == Grace(s) IN
    /\ At(t, "sleep")
    /\ \/ registry = None /\ Yield(t, "end") /\ UNCHANGED <<me, lock>>
       \/ registry # None /\ Acquire(t, registry, "claim")
    /\ UNCHANGED <<up, payload, event, write, creation, registry, memoryVars, file,
                   s3Vars, told, lost, crashes>>

StillWaiting(status) == status = "graceWait"

Claim(s) ==
    LET t == Grace(s)  u == me[t] IN
    /\ At(t, "claim") /\ Holds(t)
    /\ \/ /\ StillWaiting(sess[u].status)
          /\ sess' = [sess EXCEPT ![u].status = "finalizing"] /\ Go(t, "begin")
       \/ ~StillWaiting(sess[u].status) /\ Yield(t, "end") /\ UNCHANGED sess
    /\ Release(t)
    /\ UNCHANGED <<up, me, payload, event, write, creation, registry, buffer, received,
                   graceTask, file, s3Vars, told, lost, crashes>>

--------------------------------------------------------------------------------
(* _finalize, run by a graceful end or by a grace timer *)

BeginFinalize(t) ==
    /\ At(t, "begin")
    /\ \/ registry = None /\ Yield(t, "end") /\ UNCHANGED <<me, lock>>
       \/ registry # None /\ Acquire(t, registry, "finalize")
    /\ UNCHANGED <<up, payload, event, write, creation, registry, memoryVars, file,
                   s3Vars, told, lost, crashes>>

AlreadyFailed(status) == status = "failed"           \* mutant: completed forgotten
AlreadyCompleted(status) == status = "completed"     \* mutant: failed forgotten
AlreadyClaimed(status) == status # "recording"       \* mutant: too many
AlreadyFinal(status) == status \in {"completed", "failed"}

FullPartsOnly(n) == n >= PartSize                    \* mutant: drops the tail
FlushNeeded(n) == n > 0

SkipFinalize(t) ==
    /\ At(t, "finalize") /\ Holds(t) /\ AlreadyFinal(sess[me[t]].status)
    /\ Release(t) /\ Yield(t, "end")
    /\ UNCHANGED <<up, me, payload, event, write, creation, registry, memoryVars, file,
                   s3Vars, told, lost, crashes>>

TakeBuffer(t) ==
    LET u == me[t] IN
    /\ At(t, "finalize") /\ Holds(t) /\ ~AlreadyFinal(sess[u].status)
    /\ payload' = [payload EXCEPT ![t] = IF FlushNeeded(buffer[u]) THEN buffer[u] ELSE 0]
    /\ buffer' = [buffer EXCEPT ![u] = IF FlushNeeded(buffer[u]) THEN 0 ELSE @]
    /\ Yield(t, IF FlushNeeded(buffer[u]) THEN "flush" ELSE "complete")
    /\ UNCHANGED <<up, me, event, write, creation, registry, lock, sess, received,
                   graceTask, file, s3Vars, told, lost, crashes>>

FlushBuffer(t) ==
    /\ At(t, "flush")
    /\ Stores(t) \/ GivesUp(t)
    /\ Yield(t, "complete")
    /\ UNCHANGED <<up, me, event, write, creation, registry, lock, buffer, received,
                   graceTask, file, s3Vars, told, crashes>>

AfterErrorIgnored == "completed"                     \* mutant: error swallowed
AfterError == "failed"

\* complete_or_abort, shared with the reconciler, and the save after it
CompleteOrAbort(t) ==
    LET x == sess[me[t]]
        Finish(status) == sess' = [sess EXCEPT ![me[t]].status = status]
    IN
    /\ At(t, "complete")
    /\ \/ Closes(x) /\ Finish(IF x.stored = 0 THEN "failed" ELSE "completed")
       \/ Closes(x) /\ "answer" \in Faults /\ Finish(AfterError)
       \/ /\ \/ upload[x.upload] # "open"
             \/ (IF x.stored = 0 THEN "abort" ELSE "complete") \in Faults
          /\ Finish(AfterError) /\ UNCHANGED s3Vars
    /\ Save(t, sess'[me[t]]) /\ Yield(t, "saving")
    /\ UNCHANGED <<up, me, payload, event, creation, registry, lock, buffer, received,
                   graceTask, file, told, lost, crashes>>

Outcome(status) == IF status = "completed" THEN "completed" ELSE "failed"

PopAndReport(t) ==
    /\ At(t, "saving") /\ Saved(t)
    /\ Release(t) /\ registry' = None
    /\ event' = [event EXCEPT ![t] = Outcome(sess[me[t]].status)]
    /\ Yield(t, "report")
    /\ UNCHANGED <<up, me, payload, write, creation, memoryVars, file, s3Vars, told, lost,
                   crashes>>

--------------------------------------------------------------------------------
(* ReportEvent.execute; after a terminal event the caller deletes the file *)

Report(t) ==
    /\ At(t, "report")
    /\ \/ Tell(t) /\ Yield(t, "acked")
       \/ "report" \in Faults /\ (Tell(t) \/ UNCHANGED told) /\ Yield(t, "unacked")
    /\ Save(t, sess[me[t]])
    /\ UNCHANGED <<up, me, payload, event, creation, registry, lock, memoryVars, file,
                   s3Vars, lost, crashes>>

\* the task ends; a finished startup pass lets the server open
Finished(t) ==
    /\ Yield(t, IF t = Reconciler THEN "idle" ELSE "end")
    /\ up' = IF t = Reconciler THEN "serving" ELSE up

Acked(t) ==
    /\ At(t, "acked") /\ Saved(t)
    /\ \/ event[t] = "started" /\ Finished(t) /\ UNCHANGED write
       \/ event[t] # "started" /\ Save(t, NoSession) /\ Yield(t, "deleting") /\ UNCHANGED up
    /\ UNCHANGED <<me, payload, event, creation, registry, lock, memoryVars, file, s3Vars,
                   told, lost, crashes>>

UnackedForgets(t) ==                                 \* mutant: file deleted anyway
    /\ At(t, "unacked") /\ Saved(t)
    /\ Save(t, NoSession) /\ Yield(t, "deleting")
    /\ UNCHANGED <<up, me, payload, event, creation, registry, lock, memoryVars, file,
                   s3Vars, told, lost, crashes>>
Unacked(t) ==
    /\ At(t, "unacked") /\ Saved(t) /\ Finished(t)
    /\ UNCHANGED <<me, payload, event, write, creation, registry, lock, memoryVars, file,
                   s3Vars, told, lost, crashes>>

Deleted(t) ==
    /\ At(t, "deleting") /\ Saved(t) /\ Finished(t)
    /\ UNCHANGED <<me, payload, event, write, creation, registry, lock, memoryVars, file,
                   s3Vars, told, lost, crashes>>

--------------------------------------------------------------------------------
(* RecoverOrphanedSessions: one pass at startup, then (Periodic) again and again *)

ListUnfinished ==
    LET t == Reconciler IN
    /\ At(t, "idle") /\ (up = "starting" \/ Periodic)
    /\ sess' = [sess EXCEPT ![None] = file]
    /\ \/ file = NoSession /\ Finished(t)
       \/ /\ file # NoSession /\ UNCHANGED up
          /\ pc' = [pc EXCEPT ![t] = "check"]
          /\ loop' = IF ScanLag THEN Idle ELSE t
    /\ UNCHANGED <<me, payload, event, write, creation, registry, lock, buffer, received,
                   graceTask, file, s3Vars, told, lost, crashes>>

OwnedNever  == FALSE                                 \* mutant: registry not asked
OwnedAlways == TRUE                                  \* mutant: never recovers
OwnedHere == registry # None

SkipLive ==
    LET t == Reconciler IN
    /\ At(t, "check") /\ OwnedHere /\ Finished(t)
    /\ UNCHANGED <<me, payload, event, write, creation, registry, lock, memoryVars, file,
                   s3Vars, told, lost, crashes>>

Recover ==
    LET t == Reconciler  status == sess[None].status IN
    /\ At(t, "check") /\ ~OwnedHere
    /\ \/ ~AlreadyFinal(status) /\ Yield(t, "complete") /\ UNCHANGED event
       \/ /\ AlreadyFinal(status) /\ Yield(t, "report")
          /\ event' = [event EXCEPT ![t] = Outcome(status)]
    /\ UNCHANGED <<up, me, payload, write, creation, registry, lock, memoryVars, file,
                   s3Vars, told, lost, crashes>>

RecoveredSaved ==
    LET t == Reconciler IN
    /\ At(t, "saving") /\ Saved(t)
    /\ event' = [event EXCEPT ![t] = Outcome(sess[None].status)]
    /\ Yield(t, "report")
    /\ UNCHANGED <<up, me, payload, write, creation, registry, lock, memoryVars, file,
                   s3Vars, told, lost, crashes>>

--------------------------------------------------------------------------------
(* The process dies and a new one starts: only the state file, S3 and what  *)
(* the orchestrator was told survive.                                       *)

Crash ==
    /\ crashes < MaxCrashes
    /\ crashes' = crashes + 1
    /\ up' = "starting" /\ loop' = Idle
    /\ pc' = [t \in Tasks |-> IF t = Reconciler \/ pc[t] = "idle" THEN "idle" ELSE "end"]
    /\ write' = [t \in Tasks |-> {}]
    /\ payload' = [t \in Tasks |-> 0]
    /\ creation' = <<>> /\ registry' = None
    /\ lock' = [u \in Streams |-> <<>>]
    /\ buffer' = [u \in Streams |-> 0]
    /\ graceTask' = [u \in Streams |-> None]
    /\ sess' = [u \in Streams \cup {None} |-> NoSession]
    /\ UNCHANGED <<me, event, received, file, s3Vars, told, lost>>

--------------------------------------------------------------------------------
StartStep(s) ==
    \/ OpenStream(s) \/ LookUp(s) \/ ResumeCancelsTimer(s) \/ Resume(s) \/ Resumed(s)
    \/ Reuse(s) \/ DropStale(s) \/ CreateUpload(s) \/ CreateFails(s) \/ Created(s)

AppendStep(s) == RecvAudio(s) \/ AppendFrame(s) \/ UploadPart(s) \/ AppendSaved(s)

StopStep(s) ==
    \/ GracefulEnd(s) \/ StopCancelsTimer(s) \/ BreakReading(s) \/ BreakMidCall(s)
    \/ Drop(s) \/ GraceWait(s) \/ ArmTimer(s) \/ TimerFires(s) \/ Claim(s)

FinalizeStep(t) ==
    \/ BeginFinalize(t) \/ SkipFinalize(t) \/ TakeBuffer(t) \/ FlushBuffer(t)
    \/ PopAndReport(t)

ReportStep(t) == WriteLands(t) \/ Report(t) \/ Acked(t) \/ Unacked(t) \/ Deleted(t)

ReconcilerStep == ListUnfinished \/ SkipLive \/ Recover \/ RecoveredSaved

Next ==
    \/ \E s \in Streams : StartStep(s) \/ AppendStep(s) \/ StopStep(s)
    \/ \E t \in Finalizers : FinalizeStep(t)
    \/ \E t \in Finalizers \cup {Reconciler} : CompleteOrAbort(t)
    \/ \E t \in Tasks : ReportStep(t)
    \/ ReconcilerStep
    \/ Crash

Spec == Init /\ [][Next]_vars

(***************************************************************************)
(* Fairness.  asyncio's ready queue is first in, first out, so a task that *)
(* is ready again and again gets the loop (SF: the loop is taken by other  *)
(* tasks in between); threads finish their writes; a call ends some day;   *)
(* the orchestrator is not down forever (SF on an acknowledged report).    *)
(***************************************************************************)
ConnStep(s) ==
    \/ LookUp(s) \/ ResumeCancelsTimer(s) \/ Resume(s) \/ Resumed(s) \/ Reuse(s)
    \/ DropStale(s) \/ CreateUpload(s) \/ Created(s) \/ AppendFrame(s) \/ UploadPart(s)
    \/ AppendSaved(s) \/ GracefulEnd(s) \/ BreakReading(s) \/ StopCancelsTimer(s)
    \/ Drop(s) \/ GraceWait(s) \/ ArmTimer(s)

TaskStep(t) ==
    \/ \E s \in Streams : t = Conn(s) /\ ConnStep(s)
    \/ \E s \in Streams : t = Grace(s) /\ (TimerFires(s) \/ Claim(s))
    \/ t \in Finalizers /\ FinalizeStep(t)
    \/ t = Reconciler /\ ReconcilerStep
    \/ t \in Finalizers \cup {Reconciler} /\ CompleteOrAbort(t)
    \/ ReportStep(t)

ReportAcked(t) == Report(t) /\ pc'[t] = "acked"

Fairness ==
    /\ \A t \in Tasks : SF_vars(TaskStep(t))
    /\ SF_vars(ReportAcked(Reconciler))

FairSpec == Spec /\ Fairness

--------------------------------------------------------------------------------
(* What may go wrong *)

Feeds(s, u) == pc[Conn(s)] \in {"open"} \cup AppendPcs /\ me[Conn(s)] = u

\* A start opens an upload only while no session is registered: no put ever
\* replaces a session somebody may still be feeding (start_recording.py:48-57).
PutNeverClobbers == \A s \in Streams : pc[Conn(s)] = "create" => registry = None

\* An upload is never closed under a stream that is still being read into it.
NeverClosedWhileFed ==
    \A s, u \in Streams : Feeds(s, u) => upload[u] = "open"

\* A completed object holds every chunk accepted for it, but for those whose
\* part upload was given up.
CompletedHoldsAll ==
    \A u \in Streams : upload[u] = "completed" => object[u] + lost[u] = received[u]

\* recording.completed is only ever told of an upload S3 completed.
CompletedIsTrue ==
    \A u \in Streams : "completed" \in told[u] => upload[u] = "completed"

\* The orchestrator is never told both outcomes of one recording.
EventsAgree ==
    \A u \in Streams : ~({"completed", "failed"} \subseteq told[u])

\* recording.failed is never told of a recording whose object is in the bucket.
FailedIsTrue ==
    \A u \in Streams : "failed" \in told[u] => upload[u] # "completed"

Acting(t) == pc[t] \notin {"idle", "end", "sleep", "enter", "create"}

\* "Live in this process instance -- a real task owns it": a registered session
\* always has a task that is going to finalize it (recover_orphaned_sessions.py:58).
RegisteredIsOwned ==
    registry # None =>
        \/ \E t \in Finalizers : Acting(t) /\ me[t] = registry
        \/ \E s \in Streams : graceTask[registry] = s /\ pc[Grace(s)] = "sleep"

\* An upload left open is always known to someone: the registry, a task working
\* on it, the state file, or the orchestrator, which was told it failed.
OpenIsKnown ==
    \A u \in Streams : upload[u] = "open" =>
        \/ registry = u \/ file.upload = u \/ "failed" \in told[u]
        \/ \E t \in Tasks : Acting(t) /\ sess[me[t]].upload = u

\* While a stream waits for its next chunk, the state file is what a restarted
\* process needs: the right upload, and every part already in S3.
FileIsCurrent ==
    \A s \in Streams : pc[Conn(s)] = "open" => file = sess[me[Conn(s)]]

\* A recording whose outcome nobody is reporting has been told, or is on disk for
\* the reconciler to tell (report_event.py:3-6).
UnreportedIsKept ==
    \A u \in Streams :
        \/ upload[u] \in {"none", "open"} \/ file.upload = u
        \/ told[u] \cap {"completed", "failed"} # {}
        \/ \E t \in Tasks : Acting(t) /\ sess[me[t]].upload = u

\* A finalized session never goes back: later ends, timers and resumes find it final.
FinalStaysFinal ==
    [][\A u \in Streams : AlreadyFinal(sess[u].status) /\ sess[u].upload = u /\ sess'[u].upload = u
          => AlreadyFinal(sess'[u].status)]_vars

\* A session that has reached the state file is told to the orchestrator some day,
\* across crashes, reports that fail and streams that break (README tiers 1 to 3).
EverySessionTold ==
    \A u \in Streams :
        (file.upload = u) ~> (told[u] \cap {"completed", "failed"} # {})

\* ... and its multipart upload does not stay open.
EveryUploadCloses ==
    \A u \in Streams :
        (upload[u] = "open" /\ file.upload = u) ~> (upload[u] # "open")

================================================================================
