------------------------------ MODULE StreamQueue ------------------------------
(***************************************************************************)
(* The task queue on a Redis stream that the transcription, derivative and *)
(* result-saving workers share: RedisStreamService with the consumer and   *)
(* orphan-recovery loops of RedisTranscriptionQueueService around it, the  *)
(* producer, and an operator's redrive of dead letters (QueueService).     *)
(*                                                                         *)
(* A step is one Redis command or one stretch of a loop between two        *)
(* awaits.  The two loops of a worker interleave at their awaits; workers  *)
(* are processes.  A command may fail, also after Redis has executed it; a *)
(* worker may be killed, or stopped, at any step, and comes back under a   *)
(* new consumer name.  The metadata and statistics hashes only report and  *)
(* are left out, but not the failures of the commands that write them.     *)
(***************************************************************************)
EXTENDS Naturals, Sequences, FiniteSets

CONSTANTS
    Tasks, Workers,
    None,           \* no task; the owner of an entry that is not pending
    Released,       \* the owner of an entry whose consumer has gone
    RetryLimits,    \* the values config.max_retries may have
    ClaimCount,     \* entries one XAUTOCLAIM returns
    MaxTrouble      \* bound: runs and commands that fail, stops, kills and redrives

ASSUME NamesAssumption == None \notin Tasks \cup Workers /\ Released \notin Workers \cup {None}
ASSUME LimitsAssumption ==
    RetryLimits \subseteq Nat /\ ClaimCount \in Nat \ {0} /\ MaxTrouble \in Nat

Loops == {"consumer", "orphan"}

VARIABLES
    log,        \* the stream: every entry ever added, see Entries
    last,       \* the group's last delivered entry
    dlq,        \* the dead-letter stream: entries per task
    up,         \* worker: running, stopping or down
    loop,       \* worker -> loop -> where it is and the entry it holds
    todo,       \* worker -> claimed entries the orphan loop has yet to process
    busy,       \* worker -> _processing_task_ids (at most one)
    leaving,    \* worker -> pending entries listed by a stopping worker
    redrive,    \* the task an operator's retry_dlq_task has added again
    trouble,    \* what has gone wrong so far
    done,       \* history: tasks one of whose runs succeeded
    tries,      \* history: runs and claims of each task, up to maxRetries + 1
    maxRetries  \* config.max_retries

vars == <<maxRetries, log, last, dlq, up, loop, todo, busy, leaving, redrive, trouble, done, tries>>

\* kept: not XDELed.  owner: the consumer it is pending for.  ripe: idle for longer
\* than claim_min_idle_time.
Entries == [task : Tasks, retry : Nat, kept : BOOLEAN,
            owner : Workers \cup {None, Released}, ripe : BOOLEAN]
Ids == 1..Len(log)
Pending(m) == log[m].owner # None
NewEntry(t, n) == [task |-> t, retry |-> n, kept |-> TRUE, owner |-> None, ripe |-> FALSE]
Xadd(t, n) == log' = Append(log, NewEntry(t, n))
\* to give an entry to a consumer resets its idle time
Given(e, c) == [e EXCEPT !.owner = c, !.ripe = FALSE]
Xack(m) == log' = [log EXCEPT ![m].owner = None, ![m].ripe = FALSE]

Pcs == {"idle", "claim", "check", "run", "ack", "del", "add", "drop"}
Idle == [pc |-> "idle", msg |-> 0, retry |-> 0]
InProcess == {"run", "ack", "del", "add", "drop"}
Task(w, l) == log[loop[w][l].msg].task
At(w, l, s) == up[w] = "running" /\ loop[w][l].pc = s

Goes(w, l, s) == loop' = [loop EXCEPT ![w][l].pc = s]
\* _process_task returns: its finally clause forgets the task
Returns(w, l) ==
    /\ loop' = [loop EXCEPT ![w][l] = Idle]
    /\ busy' = [busy EXCEPT ![w] = None]
Trouble == trouble < MaxTrouble /\ trouble' = trouble + 1
Tried(T) == [t \in Tasks |-> IF t \in T /\ tries[t] <= maxRetries THEN tries[t] + 1 ELSE tries[t]]

FreeAlways(w) == TRUE                                    \* mutant: no lock
Free(w) == busy[w] = None

Init ==
    /\ log = <<>> /\ last = 0
    /\ dlq = [t \in Tasks |-> 0]
    /\ up = [w \in Workers |-> "running"]
    /\ loop = [w \in Workers |-> [l \in Loops |-> Idle]]
    /\ todo = [w \in Workers |-> {}]
    /\ busy = [w \in Workers |-> None]
    /\ leaving = [w \in Workers |-> {}]
    /\ redrive = None
    /\ trouble = 0 /\ maxRetries \in RetryLimits
    /\ done = {} /\ tries = [t \in Tasks |-> 0]

--------------------------------------------------------------------------------
(* Producer *)

\* RedisProducerService.enqueue
Enqueue(t) ==
    /\ \A m \in Ids : log[m].task # t
    /\ Xadd(t, 0)
    /\ UNCHANGED <<maxRetries, last, dlq, up, loop, todo, busy, leaving, redrive, trouble, done, tries>>

--------------------------------------------------------------------------------
(* Consumer loop *)

\* XREADGROUP ">": the next entry nobody was given, deleted ones are passed over
NextEntry(m) == m \in Ids /\ m > last /\ log[m].kept /\ \A k \in Ids : k > last /\ k < m => ~log[k].kept

ReadTask(w) ==
    \E m \in Ids :
        /\ At(w, "consumer", "idle") /\ NextEntry(m)
        /\ last' = m
        /\ log' = [log EXCEPT ![m] = Given(@, w)]
        /\ \/ /\ loop' = [loop EXCEPT ![w]["consumer"] = [pc |-> "check", msg |-> m, retry |-> log[m].retry]]
              /\ UNCHANGED trouble
           \* the hset after it raised: the entry stays pending for this consumer
           \/ Trouble /\ UNCHANGED loop
        /\ UNCHANGED <<maxRetries, dlq, up, todo, busy, leaving, redrive, done, tries>>

--------------------------------------------------------------------------------
(* Orphan-recovery loop *)

\* XAUTOCLAIM looks at the oldest entries that have been idle for long enough
ClaimableNamed(m) == Pending(m) /\ log[m].ripe /\ log[m].owner # Released  \* mutant: live consumers only
Claimable(m) == Pending(m) /\ log[m].ripe
Ripe == {m \in Ids : Claimable(m)}
Claimed == {m \in Ripe : Cardinality({k \in Ripe : k < m}) < ClaimCount}

\* it wakes up, and goes on only when no task is being processed (one that is going to
\* find nothing changes nothing)
OrphanWakes(w) ==
    /\ At(w, "orphan", "idle") /\ todo[w] = {} /\ Free(w) /\ Ripe # {}
    /\ Goes(w, "orphan", "claim")
    /\ UNCHANGED <<maxRetries, log, last, dlq, up, todo, busy, leaving, redrive, trouble, done, tries>>

ClaimOrphans(w) ==
    /\ At(w, "orphan", "claim")
    \* an entry that was deleted leaves the pending list
    /\ log' = [m \in Ids |-> IF m \notin Claimed THEN log[m]
                             ELSE Given(log[m], IF log[m].kept THEN w ELSE None)]
    /\ Goes(w, "orphan", "idle")
    /\ LET alive == {m \in Claimed : log[m].kept} IN
       \/ /\ todo' = [todo EXCEPT ![w] = alive]
          /\ tries' = Tried({log[m].task : m \in alive})
          /\ UNCHANGED trouble
       \/ Trouble /\ UNCHANGED <<todo, tries>>
    /\ UNCHANGED <<maxRetries, last, dlq, up, busy, leaving, redrive, done>>

\* claimed tasks are taken up in order, each with its retry count raised in memory
NextClaimed(w) ==
    \E m \in todo[w] :
        /\ At(w, "orphan", "idle") /\ \A k \in todo[w] : m <= k
        /\ todo' = [todo EXCEPT ![w] = @ \ {m}]
        /\ loop' = [loop EXCEPT ![w]["orphan"] = [pc |-> "check", msg |-> m, retry |-> log[m].retry + 1]]
        /\ UNCHANGED <<maxRetries, log, last, dlq, up, busy, leaving, redrive, trouble, done, tries>>

--------------------------------------------------------------------------------
(* _process_task *)

\* one task at a time: the other one is left pending
EnterProcess(w, l) ==
    /\ At(w, l, "check")
    /\ \/ /\ Free(w)
          /\ busy' = [busy EXCEPT ![w] = Task(w, l)]
          /\ Goes(w, l, "run")
          /\ tries' = Tried({Task(w, l)})
       \/ /\ ~Free(w)
          /\ loop' = [loop EXCEPT ![w][l] = Idle]
          /\ UNCHANGED <<busy, tries>>
    /\ UNCHANGED <<maxRetries, log, last, dlq, up, todo, leaving, redrive, trouble, done>>

RejectsFromDrop == "drop"                                \* mutant: nothing is added
RejectsFrom == "add"

RunProcessor(w, l) ==
    /\ At(w, l, "run")
    /\ \/ done' = done \cup {Task(w, l)} /\ Goes(w, l, "ack") /\ UNCHANGED trouble
       \/ Trouble /\ Goes(w, l, RejectsFrom) /\ UNCHANGED done
    /\ UNCHANGED <<maxRetries, log, last, dlq, up, todo, busy, leaving, redrive, tries>>

\* acknowledge: XACK, and if the entry was pending XDEL
Acknowledge(w, l) ==
    /\ At(w, l, "ack")
    /\ LET m == loop[w][l].msg IN
       IF Pending(m) THEN Xack(m) /\ Goes(w, l, "del") /\ UNCHANGED busy
                     ELSE Returns(w, l) /\ UNCHANGED log
    /\ UNCHANGED <<maxRetries, last, dlq, up, todo, leaving, redrive, trouble, done, tries>>

DeleteEntry(w, l) ==
    /\ At(w, l, "del")
    /\ log' = [log EXCEPT ![loop[w][l].msg].kept = FALSE]
    /\ Returns(w, l)
    /\ UNCHANGED <<maxRetries, last, dlq, up, todo, leaving, redrive, trouble, done, tries>>

RetriesLeft(n) == n <= maxRetries

\* reject: a copy with a higher retry count, or a dead letter, is added first ...
RejectTask(w, l) ==
    /\ At(w, l, "add")
    /\ LET t == Task(w, l)
           n == loop[w][l].retry + 1 IN
       IF RetriesLeft(n) THEN Xadd(t, n) /\ UNCHANGED dlq
                            ELSE dlq' = [dlq EXCEPT ![t] = @ + 1] /\ UNCHANGED log
    /\ Goes(w, l, "drop")
    /\ UNCHANGED <<maxRetries, last, up, todo, busy, leaving, redrive, trouble, done, tries>>

\* ... and then the original is acknowledged; it is not deleted from the stream
DropOriginal(w, l) ==
    /\ At(w, l, "drop")
    /\ Xack(loop[w][l].msg)
    /\ Returns(w, l)
    /\ UNCHANGED <<maxRetries, last, dlq, up, todo, leaving, redrive, trouble, done, tries>>

\* A Redis command raises.  An acknowledgement that raises is caught as a failed run;
\* a reject that raises ends _process_task with the entry still pending.
CommandFails(w, l) ==
    /\ up[w] = "running" /\ loop[w][l].pc \in {"ack", "del", "add", "drop"}
    /\ Trouble
    /\ IF loop[w][l].pc \in {"ack", "del"} THEN Goes(w, l, RejectsFrom) /\ UNCHANGED <<busy, todo>>
       ELSE /\ Returns(w, l)
            \* the loop of the orphan recovery over the claimed tasks is left
            /\ todo' = IF l = "orphan" THEN [todo EXCEPT ![w] = {}] ELSE todo
    /\ UNCHANGED <<maxRetries, log, last, dlq, up, leaving, redrive, done, tries>>

--------------------------------------------------------------------------------
(* Time, stops and restarts *)

\* a pending entry has been idle for claim_min_idle_time
Ripen(m) ==
    /\ m \in Ids /\ Pending(m) /\ ~log[m].ripe
    /\ log' = [log EXCEPT ![m].ripe = TRUE]
    /\ UNCHANGED <<maxRetries, last, dlq, up, loop, todo, busy, leaving, redrive, trouble, done, tries>>

Forgotten(w) ==
    /\ loop' = [loop EXCEPT ![w] = [l \in Loops |-> Idle]]
    /\ todo' = [todo EXCEPT ![w] = {}]
    /\ busy' = [busy EXCEPT ![w] = None]

\* the process dies; its consumer name is never used again
Orphaned(w) == [m \in Ids |-> IF log[m].owner = w THEN [log[m] EXCEPT !.owner = Released] ELSE log[m]]

Kill(w) ==
    /\ up[w] # "down" /\ Trouble
    /\ up' = [up EXCEPT ![w] = "down"]
    /\ Forgotten(w)
    /\ log' = Orphaned(w)
    /\ leaving' = [leaving EXCEPT ![w] = {}]
    /\ UNCHANGED <<maxRetries, last, dlq, redrive, done, tries>>

\* stop cancels both loops wherever they are, then disconnect lists the own pending entries
Stop(w) ==
    /\ up[w] = "running" /\ Trouble
    /\ up' = [up EXCEPT ![w] = "stopping"]
    /\ Forgotten(w)
    /\ leaving' = [leaving EXCEPT ![w] = {m \in Ids : log[m].owner = w}]
    /\ UNCHANGED <<maxRetries, log, last, dlq, redrive, done, tries>>

\* XCLAIM ... FORCE to "__released__": also of an entry another worker has claimed or
\* acknowledged meanwhile, as long as it is in the stream
ReleasePending(w) ==
    \E m \in leaving[w] :
        /\ up[w] = "stopping"
        /\ leaving' = [leaving EXCEPT ![w] = @ \ {m}]
        /\ log' = IF log[m].kept THEN [log EXCEPT ![m] = Given(@, Released)] ELSE log
        /\ UNCHANGED <<maxRetries, last, dlq, up, loop, todo, busy, redrive, trouble, done, tries>>

Disconnected(w) ==
    /\ up[w] = "stopping" /\ leaving[w] = {}
    /\ up' = [up EXCEPT ![w] = "down"]
    /\ log' = Orphaned(w)
    /\ UNCHANGED <<maxRetries, last, dlq, loop, todo, busy, leaving, redrive, trouble, done, tries>>

Restart(w) ==
    /\ up[w] = "down"
    /\ up' = [up EXCEPT ![w] = "running"]
    /\ UNCHANGED <<maxRetries, log, last, dlq, loop, todo, busy, leaving, redrive, trouble, done, tries>>

--------------------------------------------------------------------------------
(* Operator *)

Exhumed(t) == dlq[t] - 1

\* retry_dlq_task: XADD with the retry count reset, then XDEL of the dead letter
RedriveAdds(t) ==
    /\ redrive = None /\ dlq[t] > 0 /\ Trouble
    /\ Xadd(t, 0)
    /\ redrive' = t
    /\ UNCHANGED <<maxRetries, last, dlq, up, loop, todo, busy, leaving, done, tries>>

RedriveDeletes ==
    /\ redrive # None
    /\ \/ dlq' = [dlq EXCEPT ![redrive] = Exhumed(redrive)] /\ UNCHANGED trouble
       \/ Trouble /\ UNCHANGED dlq
    /\ redrive' = None
    /\ UNCHANGED <<maxRetries, log, last, up, loop, todo, busy, leaving, done, tries>>

--------------------------------------------------------------------------------
ProcessStep(w, l) ==
    EnterProcess(w, l) \/ RunProcessor(w, l) \/ Acknowledge(w, l) \/ DeleteEntry(w, l)
    \/ RejectTask(w, l) \/ DropOriginal(w, l)
ConsumerStep(w) == ReadTask(w) \/ ProcessStep(w, "consumer")
OrphanStep(w) == OrphanWakes(w) \/ ClaimOrphans(w) \/ NextClaimed(w) \/ ProcessStep(w, "orphan")
StopStep(w) == ReleasePending(w) \/ Disconnected(w)

Next ==
    \/ \E t \in Tasks : Enqueue(t) \/ RedriveAdds(t)
    \/ RedriveDeletes
    \/ \E m \in Ids : Ripen(m)
    \/ \E w \in Workers :
          ConsumerStep(w) \/ OrphanStep(w) \/ StopStep(w) \/ Kill(w) \/ Stop(w) \/ Restart(w)
    \/ \E w \in Workers, l \in Loops : CommandFails(w, l)

\* both loops are scheduled by their event loops, time passes, and what stopped is
\* started again by its service manager
Fairness ==
    /\ WF_vars(\E m \in Ids : Ripen(m))
    /\ \A w \in Workers : /\ WF_vars(ConsumerStep(w)) /\ WF_vars(OrphanStep(w))
                          /\ WF_vars(StopStep(w)) /\ WF_vars(Restart(w))

Spec == Init /\ [][Next]_vars
FairSpec == Spec /\ Fairness

--------------------------------------------------------------------------------
(* Properties *)

\* The shape of the state.
TypeOK ==
    /\ log \in Seq(Entries) /\ last \in 0..Len(log)
    /\ dlq \in [Tasks -> Nat]
    /\ up \in [Workers -> {"running", "stopping", "down"}]
    /\ loop \in [Workers -> [Loops -> [pc : Pcs, msg : 0..Len(log), retry : Nat]]]
    /\ todo \in [Workers -> SUBSET Ids] /\ leaving \in [Workers -> SUBSET Ids]
    /\ busy \in [Workers -> Tasks \cup {None}]
    /\ redrive \in Tasks \cup {None}
    /\ trouble \in 0..MaxTrouble /\ maxRetries \in RetryLimits
    /\ done \in SUBSET Tasks /\ tries \in [Tasks -> Nat]

\* The set of tasks the group will still hand out: never delivered, or pending.
Held == {log[m].task : m \in {k \in Ids : log[k].kept /\ (k > last \/ Pending(k))}}

\* No order of claims, failures, stops and crashes loses a task: one that was enqueued
\* succeeded once, is a dead letter, or will be given to a worker.
NeverLost == \A m \in Ids : log[m].task \in done \cup Held \/ dlq[log[m].task] > 0

\* Two loops share a worker, but it never processes two tasks at once, and the flag
\* that says so is cleared on every way out.
OneAtATime ==
    \A w \in Workers : LET active == {l \in Loops : loop[w][l].pc \in InProcess} IN
        /\ Cardinality(active) <= 1
        /\ busy[w] # None <=> active # {}
        /\ \A l \in active : busy[w] = Task(w, l)

\* A dead letter has used up its retries: it was run or claimed more than maxRetries times.
BuriedIsTried == \A t \in Tasks : dlq[t] > 0 => tries[t] > maxRetries

\* The queue implements the at-least-once contract, liveness included.
Queue == INSTANCE TaskQueue WITH held <- Held, dead <- {t \in Tasks : dlq[t] > 0}
AtLeastOnce == Queue!Spec

================================================================================
