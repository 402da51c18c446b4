--------------------------- MODULE TranscriptPipeline ---------------------------
(***************************************************************************)
(* How a recorded track becomes transcript rows.  An attempt at the track's*)
(* transcription task (the queue may start several, see StreamQueue) is a  *)
(* thread that decodes and transcribes and a coroutine that adds each batch*)
(* to save_transcription:stream; the two meet in a single-slot queue and an*)
(* acknowledgement future.  The orchestrator's save service reads that     *)
(* stream with two loops that, unlike the other queues', share no lock.    *)
(*                                                                         *)
(* The stream is kept at a coarser grain than in StreamQueue: acknowledge  *)
(* and reject are one step each.                                           *)
(***************************************************************************)
EXTENDS Naturals, Sequences, FiniteSets

CONSTANTS
    MaxAttempts,    \* bound: attempts at the transcription task
    Batches,        \* batches the track has
    MaxRetries,     \* config: max_retries of the save stream
    MaxTrouble      \* bound: failures, cancellations, crashes and tasks slow enough to be claimed

ASSUME LimitsAssumption ==
    MaxAttempts \in Nat /\ Batches \in Nat /\ MaxRetries \in Nat /\ MaxTrouble \in Nat

Attempts == 1..MaxAttempts
Loops == {"consumer", "orphan"}

VARIABLES
    thread,     \* attempt -> transcribe_in_thread: where it is, batches delivered, what it publishes
    slot,       \* attempt -> batch_queue
    future,     \* attempt -> the acknowledgement future
    coro,       \* attempt -> _transcribe_and_stream_batches: where it is, chunk_index, what it got
    stopped,    \* attempt -> consumer_stopped is set
    outcome,    \* attempt -> how process() ended
    save,       \* save_transcription:stream
    last,       \* the group's last delivered entry
    saver,      \* loop of the save service -> where it is and the entry it holds
    todo,       \* claimed entries the orphan loop has yet to process
    rows,       \* transcript_chunks of the track, in commit order
    count,      \* tracks.chunk_count
    status,     \* tracks.status
    completed,  \* history: attempts whose completed marker was processed
    given_up,   \* history: entries dead-lettered, or acknowledged after a failed insert
    trouble     \* what has gone wrong so far

producer == <<thread, slot, future, coro, stopped, outcome>>
consumer == <<last, saver, todo, rows, count, status, completed, given_up>>
vars == <<thread, slot, future, coro, stopped, outcome, save, last, saver, todo, rows, count,
          status, completed, given_up, trouble>>

Trouble == trouble < MaxTrouble /\ trouble' = trouble + 1

--------------------------------------------------------------------------------
(* The save stream *)

Ids == 1..Len(save)
Entry(a, kind, n) ==
    [attempt |-> a, kind |-> kind, chunk |-> n, retry |-> 0, kept |-> TRUE, pending |-> FALSE, ripe |-> FALSE]
Enqueued(a, kind, n) == save' = Append(save, Entry(a, kind, n))
Held(m) == save[m].kept /\ (m > last \/ save[m].pending)

Init ==
    /\ thread = [a \in Attempts |-> [pc |-> "none", sent |-> 0, msg |-> "none"]]
    /\ slot = [a \in Attempts |-> "empty"]
    /\ future = [a \in Attempts |-> "none"]
    /\ coro = [a \in Attempts |-> [pc |-> "none", chunk |-> 0, got |-> "none"]]
    /\ stopped = [a \in Attempts |-> FALSE]
    /\ outcome = [a \in Attempts |-> "none"]
    /\ save = <<>> /\ last = 0
    /\ saver = [l \in Loops |-> [pc |-> "idle", msg |-> 0, retry |-> 0, index |-> 0]]
    /\ todo = {}
    /\ rows = <<>> /\ count = 0 /\ status = "wait_process"
    /\ completed = {} /\ given_up = {} /\ trouble = 0

--------------------------------------------------------------------------------
(* The thread *)

\* process: the task is given to a worker, again when the attempt before failed, or
\* was cancelled, or has taken so long that its entry was claimed
StartAttempt(a) ==
    /\ thread[a].pc = "none"
    /\ \A b \in Attempts : b < a => thread[b].pc # "none" /\ outcome[b] # "succeeded"
    /\ IF \E b \in Attempts : b < a /\ outcome[b] = "none" THEN Trouble ELSE UNCHANGED trouble
    /\ thread' = [thread EXCEPT ![a].pc = "decode"]
    /\ coro' = [coro EXCEPT ![a].pc = "get"]
    /\ UNCHANGED <<slot, future, stopped, outcome, save, consumer>>

\* _download_from_minio raises before the thread is started
DownloadFails(a) ==
    /\ thread[a].pc = "none" /\ Trouble
    /\ \A b \in Attempts : b < a => outcome[b] \in {"failed", "cancelled"}
    /\ thread' = [thread EXCEPT ![a].pc = "ended"]
    /\ coro' = [coro EXCEPT ![a].pc = "over"]
    /\ outcome' = [outcome EXCEPT ![a] = "failed"]
    /\ UNCHANGED <<slot, future, stopped, save, consumer>>

Ends(a) == thread' = [thread EXCEPT ![a].pc = "ended", ![a].msg = "none"]
Publishes(a, kind) == thread' = [thread EXCEPT ![a].pc = "put", ![a].msg = kind]
AwaitedNot == FALSE                                     \* mutant: decodes on without an answer
Awaited == TRUE

\* the next batch, or the end of the recording; either may raise
Decode(a) ==
    /\ thread[a].pc = "decode"
    /\ \/ stopped[a] /\ thread[a].sent < Batches /\ Ends(a) /\ UNCHANGED trouble
       \/ /\ ~stopped[a] \/ thread[a].sent = Batches
          /\ Publishes(a, IF thread[a].sent < Batches THEN "batch" ELSE "done")
          /\ UNCHANGED trouble
       \/ Trouble /\ Publishes(a, "error")
    /\ UNCHANGED <<slot, future, coro, stopped, outcome, save, consumer>>

\* publish: put into the single slot; an error is not acknowledged
Put(a) ==
    /\ thread[a].pc = "put" /\ slot[a] = "empty"
    /\ slot' = [slot EXCEPT ![a] = thread[a].msg]
    /\ IF thread[a].msg = "error" THEN Ends(a) /\ UNCHANGED future
       ELSE IF Awaited
       THEN /\ thread' = [thread EXCEPT ![a].pc = "wait"]
            /\ future' = [future EXCEPT ![a] = "waiting"]
       ELSE /\ thread' = [thread EXCEPT ![a].pc = "decode", ![a].sent = @ + 1]
            /\ UNCHANGED future
    /\ UNCHANGED <<coro, stopped, outcome, save, consumer, trouble>>

\* an answer, or DeliveryFailed: the thread ends without a word, the coroutine has the error
Delivered(a) ==
    /\ thread[a].pc = "wait"
    /\ \/ /\ future[a] = "set"
          /\ IF thread[a].msg = "done" THEN Ends(a)
             ELSE thread' = [thread EXCEPT ![a].pc = "decode", ![a].sent = @ + 1, ![a].msg = "none"]
       \/ future[a] = "failed" /\ Ends(a)
    /\ future' = [future EXCEPT ![a] = "none"]
    /\ UNCHANGED <<slot, coro, stopped, outcome, save, consumer, trouble>>

PollsNever(a) == FALSE                                  \* mutant: waits without a timeout
Polls(a) == stopped[a]

\* wait_unless_stopped: ConsumerStopped
SeesStopped(a) ==
    /\ thread[a].pc = "put" \/ (thread[a].pc = "wait" /\ future[a] = "waiting")
    /\ Polls(a)
    /\ Ends(a)
    /\ UNCHANGED <<slot, future, coro, stopped, outcome, save, consumer, trouble>>

--------------------------------------------------------------------------------
(* The coroutine *)

Get(a) ==
    /\ coro[a].pc = "get" /\ slot[a] # "empty"
    /\ coro' = [coro EXCEPT ![a].pc = "enqueue", ![a].got = slot[a]]
    /\ slot' = [slot EXCEPT ![a] = "empty"]
    /\ UNCHANGED <<thread, future, stopped, outcome, save, consumer, trouble>>

Kind(got) == CASE got = "batch" -> "pending" [] got = "done" -> "completed" [] got = "error" -> "failed"
Answer(a, how) == future' = IF coro[a].got = "error" THEN future ELSE [future EXCEPT ![a] = how]

\* enqueue and acknowledge; a batch continues the loop, a marker ends it
Enqueue(a) ==
    /\ coro[a].pc = "enqueue"
    /\ Enqueued(a, Kind(coro[a].got), coro[a].chunk)
    /\ Answer(a, "set")
    /\ coro' = [coro EXCEPT ![a].pc = CASE coro[a].got = "batch" -> "get"
                                        [] coro[a].got = "done"  -> "join"
                                        [] coro[a].got = "error" -> "fail",
                            ![a].chunk = IF coro[a].got = "batch" THEN @ + 1 ELSE @]
    \* the error raised after the failed marker is caught below
    /\ stopped' = IF coro[a].got = "error" THEN [stopped EXCEPT ![a] = TRUE] ELSE stopped
    /\ UNCHANGED <<thread, slot, outcome, consumer, trouble>>

\* a command of enqueue raises: the XADD itself, or one after it
EnqueueFails(a) ==
    /\ coro[a].pc = "enqueue" /\ Trouble
    /\ Enqueued(a, Kind(coro[a].got), coro[a].chunk) \/ UNCHANGED save
    /\ Answer(a, "failed")
    /\ stopped' = [stopped EXCEPT ![a] = TRUE]
    /\ coro' = [coro EXCEPT ![a].pc = "fail"]
    /\ UNCHANGED <<thread, slot, outcome, consumer>>

\* await transcription_task, then return or raise
Join(a) ==
    /\ coro[a].pc \in {"join", "fail"} /\ thread[a].pc = "ended"
    /\ outcome' = [outcome EXCEPT ![a] = IF coro[a].pc = "join" THEN "succeeded" ELSE "failed"]
    /\ coro' = [coro EXCEPT ![a].pc = "over"]
    /\ UNCHANGED <<thread, slot, future, stopped, save, consumer, trouble>>

\* CancelledError: the worker stops; the thread is told but not waited for
Cancel(a) ==
    /\ coro[a].pc \in {"get", "enqueue", "join", "fail"} /\ Trouble
    /\ stopped' = [stopped EXCEPT ![a] = TRUE]
    /\ outcome' = [outcome EXCEPT ![a] = "cancelled"]
    /\ coro' = [coro EXCEPT ![a].pc = "over"]
    /\ UNCHANGED <<thread, slot, future, save, consumer>>

--------------------------------------------------------------------------------
(* The save service *)

Takes(l, m, n) == saver' = [saver EXCEPT ![l] = [pc |-> "process", msg |-> m, retry |-> n, index |-> 0]]
At(l, s) == saver[l].pc = s
Msg(l) == saver[l].msg
Goes(l, s) == saver' = [saver EXCEPT ![l].pc = s]

\* XREADGROUP: the entry is pending until it is acknowledged
GivenNoAck(m) == save[m]                                \* mutant: delivered with NOACK
Given(m) == [save[m] EXCEPT !.pending = TRUE]

\* read_tasks
ReadTask ==
    /\ At("consumer", "idle") /\ last < Len(save)
    /\ last' = last + 1
    /\ save' = [save EXCEPT ![last + 1] = Given(last + 1)]
    /\ Takes("consumer", last + 1, save[last + 1].retry)
    /\ UNCHANGED <<producer, todo, rows, count, status, completed, given_up, trouble>>

\* claim_orphaned_tasks: whatever has been pending for a minute, this worker's own included
Ripe == {m \in Ids : save[m].pending /\ save[m].ripe}
ClaimOrphans ==
    /\ At("orphan", "idle") /\ todo = {} /\ Ripe # {}
    /\ todo' = Ripe
    /\ save' = [m \in Ids |-> [save[m] EXCEPT !.ripe = FALSE]]
    /\ UNCHANGED <<producer, last, saver, rows, count, status, completed, given_up, trouble>>

NextClaimed ==
    \E m \in todo :
        /\ At("orphan", "idle") /\ \A k \in todo : m <= k
        /\ todo' = todo \ {m}
        /\ Takes("orphan", m, save[m].retry + 1)
        /\ UNCHANGED <<producer, save, last, rows, count, status, completed, given_up, trouble>>

\* append_transcript_chunk reads the highest chunk_index ...
Indexes == {rows[i].index : i \in DOMAIN rows}
NextIndex == IF rows = <<>> THEN 0 ELSE 1 + CHOOSE i \in Indexes : \A j \in Indexes : j <= i

LookUpIndex(l) ==
    /\ At(l, "process") /\ save[Msg(l)].kind = "pending"
    /\ saver' = [saver EXCEPT ![l].pc = "append", ![l].index = NextIndex]
    /\ UNCHANGED <<producer, save, last, todo, rows, count, status, completed, given_up, trouble>>

CountAfterRead(l) == saver[l].index + 1                 \* mutant: counts from the index it read
CountAfter(l) == count + 1

\* ... and commits the row with the count; an error is swallowed and its result ignored
AppendChunk(l) ==
    /\ At(l, "append")
    /\ \/ /\ rows' = Append(rows, [attempt |-> save[Msg(l)].attempt, chunk |-> save[Msg(l)].chunk,
                                   index |-> saver[l].index])
          /\ count' = CountAfter(l)
          /\ UNCHANGED <<given_up, trouble>>
       \/ Trouble /\ given_up' = given_up \cup {Msg(l)} /\ UNCHANGED <<rows, count>>
    /\ Goes(l, "ack")
    /\ UNCHANGED <<producer, save, last, todo, status, completed>>

\* the markers; complete_track_with_vad_duration raises when its update failed, the
\* failure of update_track_status only logs
SaveMarker(l) ==
    LET e == save[Msg(l)] IN
    /\ At(l, "process") /\ e.kind \in {"completed", "failed"}
    /\ \/ /\ status' = e.kind
          /\ completed' = IF e.kind = "completed" THEN completed \cup {e.attempt} ELSE completed
          /\ Goes(l, "ack") /\ UNCHANGED <<given_up, trouble>>
       \/ /\ Trouble /\ UNCHANGED <<status, completed>>
          /\ IF e.kind = "completed" THEN Goes(l, "reject") /\ UNCHANGED given_up
             ELSE Goes(l, "ack") /\ given_up' = given_up \cup {Msg(l)}
    /\ UNCHANGED <<producer, save, last, todo, rows, count>>

Frees(l) == saver' = [saver EXCEPT ![l] = [pc |-> "idle", msg |-> 0, retry |-> 0, index |-> 0]]
Gone(e) == [e EXCEPT !.pending = FALSE, !.ripe = FALSE]

\* acknowledge; a Redis failure is caught and rejects the task
Acknowledge(l) ==
    /\ At(l, "ack")
    /\ \/ /\ save' = IF save[Msg(l)].pending THEN [save EXCEPT ![Msg(l)] = [Gone(@) EXCEPT !.kept = FALSE]] ELSE save
          /\ Frees(l) /\ UNCHANGED trouble
       \/ Trouble /\ Goes(l, "reject") /\ UNCHANGED save
    /\ UNCHANGED <<producer, last, todo, rows, count, status, completed, given_up>>

Reject(l) ==
    /\ At(l, "reject")
    /\ LET m == Msg(l)
           n == saver[l].retry + 1
           out == [save EXCEPT ![m] = Gone(@)] IN
       IF n <= MaxRetries
       THEN save' = Append(out, [Entry(save[m].attempt, save[m].kind, save[m].chunk) EXCEPT !.retry = n])
            /\ UNCHANGED given_up
       ELSE save' = out /\ given_up' = given_up \cup {m}
    /\ Frees(l)
    /\ UNCHANGED <<producer, last, todo, rows, count, status, completed, trouble>>

\* a pending entry has been idle for claim_min_idle_time: a minute of processing is
\* counted as trouble, an entry nobody works at gets there in any case
InHand(m) == m \in todo \/ \E l \in Loops : Msg(l) = m
Ripen(m) ==
    /\ m \in Ids /\ save[m].pending /\ ~save[m].ripe
    /\ IF InHand(m) THEN Trouble ELSE UNCHANGED trouble
    /\ save' = [save EXCEPT ![m].ripe = TRUE]
    /\ UNCHANGED <<producer, consumer>>

\* the orchestrator dies and is started again
SaverCrash ==
    /\ Trouble
    /\ saver' = [l \in Loops |-> [pc |-> "idle", msg |-> 0, retry |-> 0, index |-> 0]]
    /\ todo' = {}
    /\ UNCHANGED <<producer, save, last, rows, count, status, completed, given_up>>

--------------------------------------------------------------------------------
ThreadStep(a) == Decode(a) \/ Put(a) \/ Delivered(a) \/ SeesStopped(a)
CoroStep(a) == Get(a) \/ Enqueue(a) \/ Join(a)
SaveStep(l) == LookUpIndex(l) \/ AppendChunk(l) \/ SaveMarker(l) \/ Acknowledge(l) \/ Reject(l)

Next ==
    \/ \E a \in Attempts : StartAttempt(a) \/ DownloadFails(a) \/ ThreadStep(a) \/ CoroStep(a)
                             \/ EnqueueFails(a) \/ Cancel(a)
    \/ ReadTask \/ ClaimOrphans \/ NextClaimed \/ SaverCrash
    \/ \E l \in Loops : SaveStep(l)
    \/ \E m \in Ids : Ripen(m)

Spec == Init /\ [][Next]_vars

--------------------------------------------------------------------------------
(* Properties *)

\* What an attempt wrote itself, retries aside.
Wrote(a) == {m \in Ids : save[m].attempt = a /\ save[m].retry = 0}

\* The handshake between thread and coroutine: a batch is on the stream before the next
\* one is decoded, each once and in order; an attempt writes one marker at most, as its
\* last entry, a completed one only after all batches and a failed one never after a
\* batch that could not be delivered.
BatchesInOrder ==
    \A a \in Attempts :
        LET batches == {m \in Wrote(a) : save[m].kind = "pending"}
            markers == Wrote(a) \ batches IN
        /\ Cardinality(batches) - thread[a].sent \in 0..1
        /\ \A m \in batches : save[m].chunk = Cardinality({k \in batches : k < m})
        /\ Cardinality(markers) <= 1
        /\ \A m \in markers :
              /\ \A k \in batches : k < m
              /\ save[m].kind = "completed" => Cardinality(batches) = Batches
              /\ save[m].kind = "failed" => Cardinality(batches) = thread[a].sent

\* Entries that carry batch n of attempt a, copies included.
Carriers(a, n) == {m \in Ids : save[m].attempt = a /\ save[m].kind = "pending" /\ save[m].chunk = n}

\* A track is completed with all of the attempt's batches stored or still on their way,
\* unless one was given up: dead-lettered, or its insert failed and was acknowledged.
CompletedIsWhole ==
    \A a \in completed, n \in 0..(Batches - 1) :
        \/ \E i \in DOMAIN rows : rows[i].attempt = a /\ rows[i].chunk = n
        \/ \E m \in Carriers(a, n) : Held(m) \/ m \in given_up

\* The two loops append concurrently, and chunk_count is still the number of rows.
CountIsRows == count = Len(rows)

\* Neither side waits for the other for ever: as long as the thread or the coroutine of
\* an attempt has not ended, one of them can go on, whatever failed or was cancelled.
NeverStuck ==
    \A a \in Attempts :
        thread[a].pc \notin {"none", "ended"} \/ coro[a].pc \notin {"none", "over"}
            => ENABLED (ThreadStep(a) \/ CoroStep(a))

================================================================================
