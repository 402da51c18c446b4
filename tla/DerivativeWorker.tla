---------------------------- MODULE DerivativeWorker ----------------------------
(* audio-processing-service: the stream queue of StreamQueue, whose control it copies,
   with DerivativeProcessor.process as its processor. The processor transcodes a
   recording and tells the orchestrator so (derivative.completed); when it fails it says
   so (derivative.failed) on the attempt after which reject buries the task, and on no
   earlier one: the orchestrator takes a failed track for a finished one.

   The processor and reject decide on their own which attempt is the last. Between the
   report of a success and its answer other workers run, and the answer may be lost.
   Dead letters of this queue are not redriven: QueueService does not know it.       *)
EXTENDS StreamQueue

VARIABLES
    posted,     \* worker -> loops whose run has told the orchestrator of its success
    heard,      \* track -> what the orchestrator has received: "completed", "failed"
    unheard     \* tracks whose derivative.failed raised, which is only logged

reports == <<posted, heard, unheard>>

WorkerInit ==
    /\ Init
    /\ posted = [w \in Workers |-> {}] /\ heard = [t \in Tasks |-> {}] /\ unheard = {}

Hears(t, e) == heard' = [heard EXCEPT ![t] = @ \cup {e}]
--------------------------------------------------------------------------------
(* DerivativeProcessor.process *)

FinalLate(w, l) == loop[w][l].retry > maxRetries         \* mutant: one attempt too late
FinalAttempt(w, l) == loop[w][l].retry >= maxRetries

\* the derivative is uploaded and the orchestrator gets to know
PostCompleted(w, l) ==
    /\ At(w, l, "run") /\ l \notin posted[w]
    /\ posted' = [posted EXCEPT ![w] = @ \cup {l}]
    /\ Hears(Task(w, l), "completed")
    /\ UNCHANGED <<vars, unheard>>

\* its answer arrives, process returns and the run has succeeded
Succeeds(w, l) ==
    /\ l \in posted[w] /\ RunProcessor(w, l) /\ loop'[w][l].pc = "ack"
    /\ posted' = [posted EXCEPT ![w] = @ \ {l}]
    /\ UNCHANGED <<heard, unheard>>

\* Download, transcoding or upload fails, or the report raises, which it may though it
\* was received. On the final attempt the failure is reported, and that may raise too.
Fails(w, l) ==
    /\ RunProcessor(w, l) /\ loop'[w][l].pc # "ack"
    /\ posted' = [posted EXCEPT ![w] = @ \ {l}]
    /\ \/ ~FinalAttempt(w, l) /\ UNCHANGED <<heard, unheard>>
       \/ FinalAttempt(w, l) /\ Hears(Task(w, l), "failed") /\ UNCHANGED unheard
       \/ /\ FinalAttempt(w, l) /\ unheard' = unheard \cup {Task(w, l)}
          /\ \/ Hears(Task(w, l), "failed")
             \/ UNCHANGED heard
--------------------------------------------------------------------------------
(* The rest of the service touches no report. A worker that stops or dies forgets
   what its runs have posted.                                                      *)

EnqueueTask(t) == Enqueue(t) /\ UNCHANGED reports
IdleLongEnough(m) == Ripen(m) /\ UNCHANGED reports
ReadNext(w) == ReadTask(w) /\ UNCHANGED reports
Recover(w) == (OrphanWakes(w) \/ NextClaimed(w)) /\ UNCHANGED reports
Claim(w) == ClaimOrphans(w) /\ UNCHANGED reports
Process(w, l) == EnterProcess(w, l) /\ UNCHANGED reports
Acks(w, l) == (Acknowledge(w, l) \/ DeleteEntry(w, l)) /\ UNCHANGED reports
Rejects(w, l) == (RejectTask(w, l) \/ DropOriginal(w, l)) /\ UNCHANGED reports
RedisFails(w, l) == CommandFails(w, l) /\ UNCHANGED reports
Halt(w) ==
    /\ Kill(w) \/ Stop(w)
    /\ posted' = [posted EXCEPT ![w] = {}] /\ UNCHANGED <<heard, unheard>>
Leave(w) == (ReleasePending(w) \/ Disconnected(w)) /\ UNCHANGED reports
StartAgain(w) == Restart(w) /\ UNCHANGED reports

TaskStep(w, l) ==
    Process(w, l) \/ PostCompleted(w, l) \/ Succeeds(w, l) \/ Fails(w, l) \/ Acks(w, l)
    \/ Rejects(w, l)

WorkerNext ==
    \/ \E t \in Tasks : EnqueueTask(t)
    \/ \E m \in Ids : IdleLongEnough(m)
    \/ \E w \in Workers :
          ReadNext(w) \/ Recover(w) \/ Claim(w) \/ Halt(w) \/ Leave(w) \/ StartAgain(w)
    \/ \E w \in Workers, l \in Loops : TaskStep(w, l) \/ RedisFails(w, l)

WorkerSpec == WorkerInit /\ [][WorkerNext]_<<vars, reports>>
--------------------------------------------------------------------------------
(* Properties *)

\* A dead letter is known to the orchestrator, or the log says that it could not be told:
\* otherwise its track stays pending and its room is never notified. And a failure is
\* only reported of a task that has used up its retries (the module comment of
\* derivative_processor.py), whoever else claimed it meanwhile.
FailureIsTold ==
    \A t \in Tasks :
        /\ dlq[t] > 0 => heard[t] # {} \/ t \in unheard
        /\ "failed" \in heard[t] => tries[t] > maxRetries

================================================================================
