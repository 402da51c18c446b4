------------------------- MODULE DerivativeWorkerProofs -------------------------
(***************************************************************************)
(* What TLAPS proves of DerivativeWorker for every set of tasks and        *)
(* workers and every retry limit: its queue is the one of StreamQueue, so  *)
(* that all that is proved of that queue holds of it, and a dead letter is *)
(* never silent nor a failure reported early.                              *)
(***************************************************************************)
EXTENDS DerivativeWorker, StreamQueueProofs

--------------------------------------------------------------------------------
(* The queue underneath *)

\* The processor's reports do not touch the queue, and everything else is a step of it.
LEMMA StepIsQueueStep == [WorkerNext]_<<vars, reports>> => [Next]_vars
<1> SUFFICES ASSUME [WorkerNext]_<<vars, reports>> PROVE [Next]_vars
  OBVIOUS
<1>1. CASE UNCHANGED <<vars, reports>>
  BY <1>1
<1>2. ASSUME NEW t \in Tasks, EnqueueTask(t) PROVE Next
  BY <1>2 DEF EnqueueTask, Next
<1>3. ASSUME NEW m \in Ids, IdleLongEnough(m) PROVE Next
  BY <1>3 DEF IdleLongEnough, Next
<1>4. ASSUME NEW w \in Workers, ReadNext(w) \/ Recover(w) \/ Claim(w) \/ Halt(w) \/ Leave(w) \/ StartAgain(w)
      PROVE  Next
  BY <1>4 DEF ReadNext, Recover, Claim, Halt, Leave, StartAgain, Next, ConsumerStep, OrphanStep, StopStep
<1>5. ASSUME NEW w \in Workers, NEW l \in Loops, TaskStep(w, l) \/ RedisFails(w, l)
      PROVE  [Next]_vars
  <2>1. CASE PostCompleted(w, l)
    BY <2>1 DEF PostCompleted
  <2>2. CASE RedisFails(w, l)
    BY <2>2 DEF RedisFails, Next
  <2>3. CASE ProcessStep(w, l)
    <3>1. ConsumerStep(w) \/ OrphanStep(w)
      BY <2>3 DEF Loops, ConsumerStep, OrphanStep
    <3> QED
      BY <3>1 DEF Next
  <2>4. CASE ~PostCompleted(w, l) /\ ~RedisFails(w, l)
    BY <1>5, <2>3, <2>4 DEF TaskStep, Process, Succeeds, Fails, Acks, Rejects, ProcessStep
  <2> QED
    BY <2>1, <2>2, <2>4
<1> QED
  BY <1>1, <1>2, <1>3, <1>4, <1>5 DEF WorkerNext

\* The derivative worker is a user of the stream queue: it has all of its behaviours'
\* properties, NeverLost, OneAtATime and the contract of TaskQueue among them.
THEOREM WorkerImplements == WorkerSpec => Spec
<1>1. WorkerInit => Init
  BY DEF WorkerInit
<1> QED
  BY <1>1, StepIsQueueStep, PTL DEF WorkerSpec, Spec

--------------------------------------------------------------------------------
(* The inductive invariant *)

\* A task was tried n times, or as often as its tries are counted.
AtLeast(t, n) == n <= tries[t] \/ tries[t] > maxRetries

\* The orchestrator knows of the task's end, or the log says it could not be told.
Told(t) == heard[t] # {} \/ t \in unheard

ReportType ==
    /\ posted \in [Workers -> SUBSET Loops] /\ unheard \in SUBSET Tasks
    /\ heard \in [Tasks -> SUBSET {"completed", "failed"}]

\* A retry count is raised in memory by a claim and in the stream by reject, which
\* happens to an entry in process: the tries keep ahead of it.
EntriesInv == \A m \in Ids : AtLeast(log[m].task, log[m].retry)
TodoInv == \A w \in Workers : \A m \in todo[w] : AtLeast(log[m].task, log[m].retry + 1)

\* What a loop that holds an entry has tried and told: the run whose success was posted
\* or that has succeeded, and the one whose reject will bury the task, have told.
TurnInv(w, l) ==
    /\ loop[w][l].pc = "check" => AtLeast(Task(w, l), loop[w][l].retry)
    /\ loop[w][l].pc \in InProcess => AtLeast(Task(w, l), loop[w][l].retry + 1)
    /\ loop[w][l].pc \in {"ack", "del"} => Told(Task(w, l))
    /\ loop[w][l].pc = "add" /\ loop[w][l].retry >= maxRetries => Told(Task(w, l))
    /\ l \in posted[w] => loop[w][l].pc = "run" /\ Told(Task(w, l))

TurnsInv == \A w \in Workers, l \in Loops : TurnInv(w, l)

WorkerInv == Inv /\ ReportType /\ EntriesInv /\ TodoInv /\ TurnsInv /\ FailureIsTold

--------------------------------------------------------------------------------
(* What grows *)

\* Tries are never taken back, and what the orchestrator was told it keeps.
Grows ==
    /\ maxRetries' = maxRetries
    /\ \A t \in Tasks : tries[t] \in Nat /\ tries'[t] \in Nat /\ tries[t] <= tries'[t]
    /\ \A t \in Tasks : heard[t] \subseteq heard'[t]
    /\ unheard \subseteq unheard'

\* Runs and claims are only ever added.
LEMMA TriesGrow ==
    ASSUME TypeOK, NEW T
    PROVE  \A t \in Tasks : Tried(T)[t] \in Nat /\ tries[t] <= Tried(T)[t]
  BY LimitsAssumption DEF TypeOK, Tried

\* A task of T has been tried once more, unless its tries are no longer counted.
LEMMA TriedOnce ==
    ASSUME TypeOK, NEW T, NEW t \in Tasks, t \in T, NEW n \in Nat, tries' = Tried(T),
           maxRetries' = maxRetries, AtLeast(t, n)
    PROVE  n + 1 <= tries'[t] \/ tries'[t] > maxRetries'
<1>1. tries[t] \in Nat /\ maxRetries \in Nat
  BY LimitsAssumption DEF TypeOK
<1>2. tries'[t] = IF tries[t] <= maxRetries THEN tries[t] + 1 ELSE tries[t]
  BY DEF Tried
<1> QED
  BY <1>1, <1>2 DEF AtLeast

\* Every step adds to the tries.
LEMMA TriesStep ==
    ASSUME TypeOK, [Next]_vars
    PROVE  /\ maxRetries' = maxRetries
           /\ \A t \in Tasks : tries[t] \in Nat /\ tries'[t] \in Nat /\ tries[t] <= tries'[t]
<1>1. maxRetries' = maxRetries /\ (tries' = tries \/ \E T : tries' = Tried(T))
  <2>1. ASSUME NEW w \in Workers, ClaimOrphans(w) \/ (\E l \in Loops : EnterProcess(w, l))
        PROVE  maxRetries' = maxRetries /\ (tries' = tries \/ \E T : tries' = Tried(T))
    BY <2>1 DEF ClaimOrphans, EnterProcess
  <2>2. CASE \A w \in Workers : ~ClaimOrphans(w) /\ \A l \in Loops : ~EnterProcess(w, l)
    BY <2>2 DEF Next, vars, Enqueue, RedriveAdds, RedriveDeletes, Ripen, ConsumerStep, ReadTask,
         OrphanStep, OrphanWakes, NextClaimed, ProcessStep, RunProcessor, Acknowledge, DeleteEntry,
         RejectTask, DropOriginal, CommandFails, StopStep, ReleasePending, Disconnected, Kill, Stop,
         Restart, Loops
  <2> QED
    BY <2>1, <2>2
<1>2. \A t \in Tasks : tries[t] \in Nat
  BY DEF TypeOK
<1> QED
  BY <1>1, <1>2, TriesGrow

\* Every step adds to what was told.
LEMMA HeardStep ==
    ASSUME TypeOK, LoopInv, ReportType, [WorkerNext]_<<vars, reports>>
    PROVE  /\ ReportType'
           /\ \A t \in Tasks : heard[t] \subseteq heard'[t]
           /\ unheard \subseteq unheard'
<1> DEFINE Goal == /\ ReportType' /\ unheard \subseteq unheard'
                   /\ \A t \in Tasks : heard[t] \subseteq heard'[t]
<1>1. CASE UNCHANGED reports
  BY <1>1 DEF reports, ReportType
<1>2. ASSUME NEW w \in Workers, Halt(w) PROVE Goal
  BY <1>2 DEF Halt, ReportType
<1>3. ASSUME NEW w \in Workers, NEW l \in Loops, NEW t \in Tasks, NEW e \in {"completed", "failed"},
             UNCHANGED heard \/ Hears(t, e), unheard' \in {unheard, unheard \cup {t}},
             posted' \in {posted, [posted EXCEPT ![w] = @ \ {l}], [posted EXCEPT ![w] = @ \cup {l}]}
      PROVE  Goal
  <2>1. heard' \in [Tasks -> SUBSET {"completed", "failed"}] /\ \A k \in Tasks : heard[k] \subseteq heard'[k]
    BY <1>3 DEF ReportType, Hears
  <2>2. posted' \in [Workers -> SUBSET Loops]
    BY <1>3 DEF ReportType
  <2>3. unheard \subseteq unheard' /\ unheard' \in SUBSET Tasks
    BY <1>3 DEF ReportType
  <2> QED
    BY <2>1, <2>2, <2>3 DEF ReportType
<1>4. ASSUME NEW w \in Workers, NEW l \in Loops, PostCompleted(w, l) \/ Succeeds(w, l) \/ Fails(w, l)
      PROVE  Goal
  <2>1. loop[w][l].pc = "run"
    BY <1>4 DEF PostCompleted, Succeeds, Fails, RunProcessor, At
  <2>2. Task(w, l) \in Tasks
    BY <2>1, HeldEntry DEF Holding, InProcess
  <2>3. /\ unheard' \in {unheard, unheard \cup {Task(w, l)}}
        /\ posted' \in {[posted EXCEPT ![w] = @ \ {l}], [posted EXCEPT ![w] = @ \cup {l}]}
    BY <1>4 DEF PostCompleted, Succeeds, Fails
  <2>4. PICK e \in {"completed", "failed"} : UNCHANGED heard \/ Hears(Task(w, l), e)
    BY <1>4 DEF PostCompleted, Succeeds, Fails
  <2> HIDE DEF Goal
  <2> QED
    BY <1>3, <2>2, <2>3, <2>4
<1> QED
  BY <1>1, <1>2, <1>4
     DEF WorkerNext, EnqueueTask, IdleLongEnough, ReadNext, Recover, Claim, Leave, StartAgain, TaskStep,
         Process, Acks, Rejects, RedisFails, reports

LEMMA GrowStep ==
    ASSUME TypeOK, LoopInv, ReportType, [WorkerNext]_<<vars, reports>>
    PROVE  Grows /\ ReportType'
  BY StepIsQueueStep, TriesStep, HeardStep DEF Grows

\* What has been reached stays reached.
LEMMA Reached ==
    ASSUME Grows, TypeOK, NEW t \in Tasks
    PROVE  /\ \A n \in Nat : AtLeast(t, n) => n <= tries'[t] \/ tries'[t] > maxRetries'
           /\ Told(t) => heard'[t] # {} \/ t \in unheard'
<1>1. maxRetries \in Nat
  BY LimitsAssumption DEF TypeOK
<1>2. tries[t] \in Nat /\ tries'[t] \in Nat /\ tries[t] <= tries'[t] /\ maxRetries' = maxRetries
  BY DEF Grows
<1>3. \A n \in Nat : AtLeast(t, n) => n <= tries'[t] \/ tries'[t] > maxRetries'
  BY <1>1, <1>2 DEF AtLeast
<1>4. Told(t) => heard'[t] # {} \/ t \in unheard'
  BY DEF Told, Grows
<1> QED
  BY <1>3, <1>4

--------------------------------------------------------------------------------
(* Retry counts *)

\* To mark an entry, as pending for somebody, idle, let go or deleted, keeps its count.
LEMMA MarkKeepsRetry ==
    ASSUME TypeOK, NEW m \in Ids, NEW e \in Entries, e.retry = log[m].retry, e.task = log[m].task,
           log' = [log EXCEPT ![m] = e]
    PROVE  Ids' = Ids /\ \A k \in Ids : log'[k].retry = log[k].retry
<1>1. Ids' = Ids /\ log'[m] = e /\ \A k \in Ids \ {m} : log'[k] = log[k]
  BY MarkedOne
<1> QED
  BY <1>1

\* An entry that is added starts anew, or is the copy of one in process.
LEMMA NewRetry ==
    ASSUME TypeOK, NEW t \in Tasks, NEW n \in Nat, Xadd(t, n), AtLeast(t, n)
    PROVE  \A m \in Ids' : \/ m \in Ids /\ log'[m] = log[m]
                           \/ m \notin Ids /\ AtLeast(log'[m].task, log'[m].retry)
<1>1. /\ Ids' = Ids \cup {Len(log) + 1} /\ \A m \in Ids : log'[m] = log[m]
      /\ log'[Len(log) + 1] = NewEntry(t, n)
  BY Added
<1>2. Len(log) + 1 \notin Ids
  BY LogFacts DEF Ids
<1>3. NewEntry(t, n).task = t /\ NewEntry(t, n).retry = n
  BY DEF NewEntry
<1> QED
  BY <1>1, <1>2, <1>3

Counts == \A m \in Ids' : \/ m \in Ids /\ log'[m].retry = log[m].retry
                          \/ m \notin Ids /\ AtLeast(log'[m].task, log'[m].retry)

\* No step changes the count of an entry in the stream, and none adds one whose count
\* its task has not reached.
LEMMA CountStep ==
    ASSUME TypeOK, LoopInv, TurnsInv, [Next]_vars
    PROVE  Counts
<1>0. Evolves => \A m \in Ids : log'[m] \in Entries
  BY DEF Evolves
<1>1. CASE UNCHANGED log
  BY <1>1 DEF Counts, Ids
<1>2. ASSUME NEW t \in Tasks, Enqueue(t) \/ RedriveAdds(t) PROVE Counts
  <2>1. AtLeast(t, 0)
    BY DEF AtLeast, TypeOK
  <2> QED
    BY <1>2, <2>1, NewRetry DEF Enqueue, RedriveAdds, Counts
<1>3. ASSUME NEW m \in Ids, NEW e \in Entries, e.retry = log[m].retry, e.task = log[m].task,
             log' = [log EXCEPT ![m] = e]
      PROVE  Counts
  BY <1>3, MarkKeepsRetry DEF Counts
<1>4. ASSUME NEW m \in Ids, NEW c \in Workers \cup {None, Released}, log' = [log EXCEPT ![m] = Given(@, c)]
      PROVE  Counts
  <2>1. /\ Given(log[m], c) \in Entries /\ Given(log[m], c).retry = log[m].retry
        /\ Given(log[m], c).task = log[m].task
    BY Marks DEF Given, Entries
  <2>2. log' = [log EXCEPT ![m] = Given(log[m], c)]
    BY <1>4
  <2> QED
    BY <1>3, <2>1, <2>2
<1>5. ASSUME NEW m \in Ids, Xack(m) PROVE Counts
  <2> DEFINE e == [log[m] EXCEPT !.owner = None, !.ripe = FALSE]
  <2>1. e \in Entries /\ e.retry = log[m].retry /\ e.task = log[m].task
    BY Marks DEF Entries
  <2>2. log' = [log EXCEPT ![m] = e]
    BY <1>5 DEF Xack, TypeOK
  <2> QED
    BY <1>3, <2>1, <2>2
<1>6. ASSUME NEW m \in Ids, Ripen(m) PROVE Counts
  <2> DEFINE e == [log[m] EXCEPT !.ripe = TRUE]
  <2>1. e \in Entries /\ e.retry = log[m].retry /\ e.task = log[m].task
    BY Marks DEF Entries
  <2>2. log' = [log EXCEPT ![m] = e]
    BY <1>6 DEF Ripen, TypeOK
  <2> QED
    BY <1>3, <2>1, <2>2
<1>7. ASSUME NEW w \in Workers, ReadTask(w) PROVE Counts
  BY <1>4, <1>7 DEF ReadTask
<1>8. ASSUME NEW f \in [Ids -> Entries], log' = f, \A m \in Ids : f[m].retry = log[m].retry /\ f[m].task = log[m].task
      PROVE  Counts
  BY <1>8, Marked DEF Counts
<1>9. ASSUME NEW w \in Workers, ClaimOrphans(w) PROVE Counts
  <2> DEFINE f == [m \in Ids |-> IF m \notin Claimed THEN log[m]
                                ELSE Given(log[m], IF log[m].kept THEN w ELSE None)]
  <2>1. f \in [Ids -> Entries] /\ \A m \in Ids : f[m].retry = log[m].retry /\ f[m].task = log[m].task
    <3>1. \A m \in Ids : log[m] \in Entries /\ Given(log[m], w) \in Entries /\ Given(log[m], None) \in Entries
      BY Marks
    <3>2. \A m \in Ids, c \in {w, None} : Given(log[m], c).retry = log[m].retry /\ Given(log[m], c).task = log[m].task
      BY <3>1 DEF Given, Entries
    <3> QED
      BY <3>1, <3>2
  <2>2. log' = f
    BY <1>9 DEF ClaimOrphans
  <2> HIDE DEF f
  <2> QED
    BY <1>8, <2>1, <2>2
<1>10. ASSUME NEW w \in Workers, log' = Orphaned(w) PROVE Counts
  <2> DEFINE f == Orphaned(w)
  <2>1. f \in [Ids -> Entries] /\ \A m \in Ids : f[m].retry = log[m].retry /\ f[m].task = log[m].task
    BY Marks DEF Orphaned, Entries
  <2> HIDE DEF f
  <2> QED
    BY <1>8, <1>10, <2>1 DEF f
<1>11. ASSUME NEW w \in Workers, ReleasePending(w) PROVE Counts
  BY <1>1, <1>4, <1>11 DEF ReleasePending, TypeOK
<1>12. ASSUME NEW w \in Workers, NEW l \in Loops, Acknowledge(w, l) \/ DropOriginal(w, l) PROVE Counts
  <2>1. loop[w][l].msg \in Ids
    BY <1>12 DEF Acknowledge, DropOriginal, At, LoopInv, Holding, InProcess
  <2> QED
    BY <1>1, <1>5, <1>12, <2>1 DEF Acknowledge, DropOriginal
<1>13. ASSUME NEW w \in Workers, NEW l \in Loops, DeleteEntry(w, l) PROVE Counts
  <2>1. loop[w][l].msg \in Ids
    BY <1>13 DEF DeleteEntry, At, LoopInv, Holding, InProcess
  <2> DEFINE m == loop[w][l].msg
             e == [log[m] EXCEPT !.kept = FALSE]
  <2>2. e \in Entries /\ e.retry = log[m].retry /\ e.task = log[m].task
    BY <2>1, Marks DEF Entries
  <2>3. log' = [log EXCEPT ![m] = e]
    BY <1>13, <2>1 DEF DeleteEntry, TypeOK
  <2> QED
    BY <1>3, <2>1, <2>2, <2>3
<1>14. ASSUME NEW w \in Workers, NEW l \in Loops, RejectTask(w, l) PROVE Counts
  <2>1. loop[w][l].pc \in InProcess /\ loop[w][l].pc \in Holding
    BY <1>14 DEF RejectTask, At, Holding, InProcess
  <2>2. Task(w, l) \in Tasks /\ loop[w][l].retry + 1 \in Nat
    BY <2>1, HeldEntry
  <2>3. AtLeast(Task(w, l), loop[w][l].retry + 1)
    BY <2>1 DEF TurnsInv, TurnInv
  <2>4. Xadd(Task(w, l), loop[w][l].retry + 1) \/ UNCHANGED log
    BY <1>14 DEF RejectTask
  <2> QED
    BY <1>1, <2>2, <2>3, <2>4, NewRetry DEF Counts
<1>15. ASSUME NEW w \in Workers, Kill(w) \/ Disconnected(w) PROVE Counts
  BY <1>10, <1>15 DEF Kill, Disconnected
<1> QED
  BY <1>1, <1>2, <1>6, <1>7, <1>9, <1>11, <1>12, <1>13, <1>14, <1>15
     DEF Next, vars, RedriveDeletes, ConsumerStep, OrphanStep, OrphanWakes, NextClaimed, ProcessStep,
         EnterProcess, RunProcessor, CommandFails, StopStep, Stop, Restart, Loops

\* So the counts in the stream stay below the tries.
LEMMA EntriesStep ==
    ASSUME TypeOK, Evolves, EntriesInv, Counts, Grows
    PROVE  EntriesInv'
<1> SUFFICES ASSUME NEW m \in Ids'
             PROVE  log'[m].retry <= tries'[log'[m].task] \/ tries'[log'[m].task] > maxRetries'
  BY DEF EntriesInv, AtLeast
<1>1. log'[m].retry \in Nat /\ log'[m].task \in Tasks
  <2>1. log'[m] \in Entries
    BY ElementOfSeq DEF Evolves, Ids
  <2> QED
    BY <2>1 DEF Entries
<1>2. AtLeast(log'[m].task, log'[m].retry)
  BY DEF Counts, Evolves, EntriesInv
<1> QED
  BY <1>1, <1>2, Reached

\* And so do those of the claimed entries, each of which its claim has counted as a try.
LEMMA TodoStep ==
    ASSUME TypeOK, Evolves, EntriesInv, TodoInv, Counts, Grows, [Next]_vars
    PROVE  TodoInv'
<1>1. ASSUME NEW v \in Workers, NEW m \in todo'[v], m \in Ids, AtLeast(log[m].task, log[m].retry + 1)
      PROVE  log'[m].retry + 1 <= tries'[log'[m].task] \/ tries'[log'[m].task] > maxRetries'
  <2>1. log[m].task \in Tasks /\ log[m].retry \in Nat
    BY <1>1, LogFacts
  <2>2. log'[m].task = log[m].task /\ log'[m].retry = log[m].retry
    BY <1>1 DEF Counts, Evolves
  <2> QED
    BY <1>1, <2>1, <2>2, Reached
<1>2. ASSUME NEW v \in Workers, todo'[v] \subseteq todo[v], NEW m \in todo'[v]
      PROVE  log'[m].retry + 1 <= tries'[log'[m].task] \/ tries'[log'[m].task] > maxRetries'
  <2>1. m \in todo[v] /\ m \in Ids
    BY <1>2 DEF TypeOK
  <2> QED
    BY <1>1, <1>2, <2>1 DEF TodoInv
<1>3. ASSUME NEW w \in Workers, ClaimOrphans(w) PROVE TodoInv'
  <2> DEFINE alive == {m \in Claimed : log[m].kept}
             T == {log[m].task : m \in alive}
  <2>1. CASE todo' = [todo EXCEPT ![w] = alive] /\ tries' = Tried(T)
    <3>1. todo'[w] = alive /\ \A v \in Workers \ {w} : todo'[v] = todo[v]
      BY <2>1 DEF TypeOK
    <3>2. ASSUME NEW m \in alive
          PROVE  log'[m].retry + 1 <= tries'[log'[m].task] \/ tries'[log'[m].task] > maxRetries'
      <4>1. m \in Ids /\ log[m].task \in T /\ log[m].task \in Tasks /\ log[m].retry \in Nat
        BY <3>2, LogFacts DEF Claimed, Ripe
      <4>2. AtLeast(log[m].task, log[m].retry) /\ maxRetries' = maxRetries
        BY <4>1 DEF EntriesInv, Grows
      <4>3. log'[m].task = log[m].task /\ log'[m].retry = log[m].retry
        BY <4>1 DEF Counts, Evolves
      <4> HIDE DEF T
      <4>4. log[m].retry + 1 <= tries'[log[m].task] \/ tries'[log[m].task] > maxRetries'
        BY <2>1, <4>1, <4>2, TriedOnce
      <4> QED
        BY <4>3, <4>4
    <3>3. ASSUME NEW v \in Workers, NEW m \in todo'[v]
          PROVE  log'[m].retry + 1 <= tries'[log'[m].task] \/ tries'[log'[m].task] > maxRetries'
      BY <1>2, <3>1, <3>2, <3>3
    <3> QED
      BY <3>3 DEF TodoInv, AtLeast
  <2>2. CASE UNCHANGED todo
    BY <1>2, <2>2 DEF TodoInv, AtLeast
  <2> QED
    BY <1>3, <2>1, <2>2 DEF ClaimOrphans
<1>4. ASSUME \A v \in Workers : todo'[v] \subseteq todo[v] PROVE TodoInv'
  BY <1>2, <1>4 DEF TodoInv, AtLeast
<1>5. ASSUME NEW w \in Workers, NextClaimed(w) \/ Kill(w) \/ Stop(w) PROVE TodoInv'
  <2>1. PICK S \in SUBSET todo[w] : todo' = [todo EXCEPT ![w] = S]
    <3>1. Kill(w) \/ Stop(w) => todo' = [todo EXCEPT ![w] = {}]
      BY DEF Kill, Stop, Forgotten
    <3>2. NextClaimed(w) => \E m \in todo[w] : todo' = [todo EXCEPT ![w] = todo[w] \ {m}]
      BY DEF NextClaimed, TypeOK
    <3> QED
      BY <1>5, <3>1, <3>2
  <2>2. \A v \in Workers : todo'[v] \subseteq todo[v]
    BY <2>1 DEF TypeOK
  <2> QED
    BY <1>4, <2>2
<1>6. ASSUME NEW w \in Workers, NEW l \in Loops, CommandFails(w, l) PROVE TodoInv'
  BY <1>4, <1>6 DEF CommandFails, TypeOK
<1> QED
  BY <1>3, <1>4, <1>5, <1>6
     DEF Next, vars, Enqueue, RedriveAdds, RedriveDeletes, Ripen, ConsumerStep, ReadTask, OrphanStep,
         OrphanWakes, ProcessStep, EnterProcess, RunProcessor, Acknowledge, DeleteEntry, RejectTask,
         DropOriginal, StopStep, ReleasePending, Disconnected, Restart, Loops

--------------------------------------------------------------------------------
(* The loops *)

\* What a loop holds it had in the stream before: the task is the same one.
LEMMA TurnMeans ==
    ASSUME TypeOK, Evolves, NEW w \in Workers, NEW l \in Loops,
           loop'[w][l].pc \in Holding => loop'[w][l].msg \in Ids
    PROVE  loop'[w][l].pc \in Holding =>
             /\ Task(w, l)' = log[loop'[w][l].msg].task
             /\ log[loop'[w][l].msg].task \in Tasks
  BY LogFacts DEF Task, Evolves

\* A loop that a step leaves alone keeps what it has tried and told.
LEMMA TurnKept ==
    ASSUME TypeOK, LoopInv, Evolves, Grows, NEW w \in Workers, NEW l \in Loops, TurnInv(w, l),
           loop'[w][l] = loop[w][l], l \in posted'[w] => l \in posted[w]
    PROVE  TurnInv(w, l)'
<1>1. CASE loop[w][l].pc \in Holding
  <2>1. Task(w, l) \in Tasks /\ loop[w][l].retry \in Nat /\ Task(w, l)' = Task(w, l)
    BY <1>1, HeldEntry, TurnMeans DEF Task
  <2>2. loop[w][l].retry + 1 \in Nat /\ maxRetries' = maxRetries
    BY <2>1 DEF Grows
  <2>3. /\ AtLeast(Task(w, l), loop[w][l].retry) => AtLeast(Task(w, l), loop[w][l].retry)'
        /\ AtLeast(Task(w, l), loop[w][l].retry + 1) => AtLeast(Task(w, l), loop[w][l].retry + 1)'
        /\ Told(Task(w, l)) => Told(Task(w, l))'
    BY <2>1, <2>2, Reached DEF AtLeast, Told
  <2> QED
    BY <2>2, <2>3 DEF TurnInv
<1>2. CASE loop[w][l].pc \notin Holding
  BY <1>2 DEF TurnInv, Holding, InProcess
<1> QED
  BY <1>1, <1>2

\* A step of one loop is judged by what that loop has tried and told.
LEMMA OneTurn ==
    ASSUME TypeOK, LoopInv, TurnsInv, Evolves, Grows, NEW w \in Workers, NEW l \in Loops,
           \A v \in Workers, k \in Loops :
              v # w \/ k # l => loop'[v][k] = loop[v][k] /\ (k \in posted'[v] => k \in posted[v]),
           TurnInv(w, l)'
    PROVE  TurnsInv'
<1> SUFFICES ASSUME NEW v \in Workers, NEW k \in Loops PROVE TurnInv(v, k)'
  BY DEF TurnsInv
<1>1. CASE v = w /\ k = l
  BY <1>1
<1>2. CASE v # w \/ k # l
  BY <1>2, TurnKept DEF TurnsInv
<1> QED
  BY <1>1, <1>2

\* A loop that holds no entry owes nothing.
LEMMA NoTurn ==
    ASSUME NEW w \in Workers, NEW l \in Loops, loop'[w][l].pc \notin Holding, l \notin posted'[w]
    PROVE  TurnInv(w, l)'
  BY DEF TurnInv, Holding, InProcess

\* A loop inside _process_task that goes on there has tried and told what it had; it
\* needs to have told when it goes on to an acknowledgement or to a final reject.
LEMMA TurnGoes ==
    ASSUME TypeOK, LoopInv, TurnsInv, Evolves, Grows, NEW w \in Workers, NEW l \in Loops,
           NEW s \in InProcess \ {"run"}, loop[w][l].pc \in InProcess, Goes(w, l, s),
           \/ s = "drop"
           \/ heard'[Task(w, l)] # {} \/ Task(w, l) \in unheard'
           \/ s = "add" /\ ~(loop[w][l].retry >= maxRetries),
           \A v \in Workers : posted'[v] \subseteq posted[v],
           l \notin posted'[w]
    PROVE  TurnsInv'
<1>1. /\ loop'[w][l].pc = s /\ loop'[w][l].msg = loop[w][l].msg /\ loop'[w][l].retry = loop[w][l].retry
      /\ \A v \in Workers, k \in Loops : v # w \/ k # l => loop'[v][k] = loop[v][k]
  BY LoopGoes DEF Pcs, InProcess
<1>2. /\ loop[w][l].msg \in Ids /\ Task(w, l) \in Tasks /\ loop[w][l].retry \in Nat
      /\ loop[w][l].retry + 1 \in Nat
  BY HeldEntry DEF Holding
<1>3. Task(w, l)' = Task(w, l) /\ maxRetries' = maxRetries
  BY <1>1, <1>2 DEF Task, Evolves, Grows
<1>4. AtLeast(Task(w, l), loop[w][l].retry + 1)
  BY DEF TurnsInv, TurnInv
<1>5. AtLeast(Task(w, l), loop[w][l].retry + 1)'
  BY <1>1, <1>2, <1>3, <1>4, Reached DEF AtLeast
<1>6. s \in {"ack", "del"} => Told(Task(w, l))'
  BY <1>3 DEF Told
<1>7. s = "add" /\ loop[w][l].retry >= maxRetries => Told(Task(w, l))'
  BY <1>3 DEF Told
<1>8. TurnInv(w, l)'
  BY <1>1, <1>3, <1>5, <1>6, <1>7 DEF TurnInv, InProcess
<1> QED
  BY <1>1, <1>8, OneTurn

\* Leaving _process_task ends the loop's turn.
LEMMA TurnReturns ==
    ASSUME TypeOK, LoopInv, TurnsInv, Evolves, Grows, NEW w \in Workers, NEW l \in Loops,
           Sets(w, l, Idle), loop[w][l].pc # "run", UNCHANGED posted
    PROVE  TurnsInv'
<1>1. Idle \in LoopStates /\ Idle.pc \notin Holding
  BY DEF Idle, LoopStates, Pcs, TypeOK, Holding, InProcess
<1>2. /\ loop'[w][l] = Idle
      /\ \A v \in Workers, k \in Loops : v # w \/ k # l => loop'[v][k] = loop[v][k]
  BY <1>1, LoopSet
<1>3. l \notin posted'[w]
  BY DEF TurnsInv, TurnInv
<1> QED
  BY <1>1, <1>2, <1>3, NoTurn, OneTurn

\* The steps of the queue that no report goes with.
Quietly ==
    \/ UNCHANGED vars
    \/ \E t \in Tasks : Enqueue(t)
    \/ \E m \in Ids : Ripen(m)
    \/ \E w \in Workers : \/ ReadTask(w) \/ OrphanWakes(w) \/ ClaimOrphans(w) \/ NextClaimed(w)
                          \/ ReleasePending(w) \/ Disconnected(w) \/ Restart(w)
    \/ \E w \in Workers, l \in Loops :
          \/ EnterProcess(w, l) \/ Acknowledge(w, l) \/ DeleteEntry(w, l) \/ RejectTask(w, l)
          \/ DropOriginal(w, l) \/ CommandFails(w, l)

\* A step is one of them, a report, the end of a run, or a halt.
LEMMA Kinds ==
    ASSUME [WorkerNext]_<<vars, reports>>
    PROVE  \/ Quietly /\ UNCHANGED reports
           \/ \E w \in Workers : Halt(w)
           \/ \E w \in Workers, l \in Loops : PostCompleted(w, l) \/ Succeeds(w, l) \/ Fails(w, l)
<1>1. CASE UNCHANGED <<vars, reports>>
  BY <1>1 DEF Quietly
<1>2. ASSUME NEW t \in Tasks, EnqueueTask(t) PROVE Quietly /\ UNCHANGED reports
  BY <1>2 DEF EnqueueTask, Quietly
<1>3. ASSUME NEW m \in Ids, IdleLongEnough(m) PROVE Quietly /\ UNCHANGED reports
  BY <1>3 DEF IdleLongEnough, Quietly
<1>4. ASSUME NEW w \in Workers, ReadNext(w) \/ Recover(w) \/ Claim(w) \/ Leave(w) \/ StartAgain(w)
      PROVE  Quietly /\ UNCHANGED reports
  BY <1>4 DEF ReadNext, Recover, Claim, Leave, StartAgain, Quietly
<1>5. ASSUME NEW w \in Workers, NEW l \in Loops,
             Process(w, l) \/ Acks(w, l) \/ Rejects(w, l) \/ RedisFails(w, l)
      PROVE  Quietly /\ UNCHANGED reports
  BY <1>5 DEF Process, Acks, Rejects, RedisFails, Quietly
<1> QED
  BY <1>1, <1>2, <1>3, <1>4, <1>5 DEF WorkerNext, TaskStep

\* A quiet step keeps the loops' turns.
LEMMA QuietStep ==
    ASSUME TypeOK, LoopInv, EntriesInv, TodoInv, TurnsInv, Evolves, Grows, UNCHANGED reports, Quietly
    PROVE  TurnsInv'
<1>0. UNCHANGED posted /\ UNCHANGED heard /\ UNCHANGED unheard
  BY DEF reports
<1>1. CASE UNCHANGED loop
  BY <1>0, <1>1, TurnKept DEF TurnsInv
<1>2. ASSUME NEW w \in Workers, NEW l \in Loops, NEW r \in LoopStates, Sets(w, l, r), r.pc = "check",
             loop[w][l].pc # "run", r.msg \in Ids, AtLeast(log[r.msg].task, r.retry)
      PROVE  TurnsInv'
  <2>1. /\ loop'[w][l] = r
        /\ \A v \in Workers, k \in Loops : v # w \/ k # l => loop'[v][k] = loop[v][k]
    BY <1>2, LoopSet
  <2>2. l \notin posted'[w]
    BY <1>0, <1>2 DEF TurnsInv, TurnInv
  <2>3. Task(w, l)' = log[r.msg].task /\ log[r.msg].task \in Tasks /\ r.retry \in Nat
    BY <1>2, <2>1, LogFacts DEF Task, Evolves, LoopStates
  <2>4. AtLeast(Task(w, l), loop[w][l].retry)'
    BY <1>2, <2>1, <2>3, Reached DEF AtLeast
  <2>5. TurnInv(w, l)'
    BY <1>2, <2>1, <2>2, <2>4 DEF TurnInv, InProcess
  <2> QED
    BY <1>0, <2>1, <2>5, OneTurn
<1>3. ASSUME NEW w \in Workers, ReadTask(w) PROVE TurnsInv'
  <2>1. CASE UNCHANGED loop
    BY <1>1, <2>1
  <2>2. CASE ~UNCHANGED loop
    <3>1. PICK m \in Ids :
              loop' = [loop EXCEPT ![w]["consumer"] = [pc |-> "check", msg |-> m, retry |-> log[m].retry]]
      BY <1>3, <2>2 DEF ReadTask
    <3> DEFINE r == [pc |-> "check", msg |-> m, retry |-> log[m].retry]
    <3>2. r \in LoopStates /\ r.pc = "check" /\ r.msg \in Ids /\ AtLeast(log[r.msg].task, r.retry)
      BY LogFacts DEF LoopStates, Pcs, EntriesInv
    <3>3. "consumer" \in Loops /\ Sets(w, "consumer", r) /\ loop[w]["consumer"].pc # "run"
      BY <1>3, <3>1 DEF Loops, Sets, ReadTask, At
    <3> HIDE DEF r
    <3> QED
      BY <1>2, <3>2, <3>3
  <2> QED
    BY <2>1, <2>2
<1>4. ASSUME NEW w \in Workers, NextClaimed(w) PROVE TurnsInv'
  <2>1. PICK m \in todo[w] :
            loop' = [loop EXCEPT ![w]["orphan"] = [pc |-> "check", msg |-> m, retry |-> log[m].retry + 1]]
    BY <1>4 DEF NextClaimed
  <2> DEFINE r == [pc |-> "check", msg |-> m, retry |-> log[m].retry + 1]
  <2>2. m \in Ids /\ AtLeast(log[m].task, log[m].retry + 1)
    BY DEF TypeOK, TodoInv
  <2>3. r \in LoopStates /\ r.pc = "check" /\ r.msg \in Ids /\ AtLeast(log[r.msg].task, r.retry)
    BY <2>2, LogFacts DEF LoopStates, Pcs
  <2>4. "orphan" \in Loops /\ Sets(w, "orphan", r) /\ loop[w]["orphan"].pc # "run"
    BY <1>4, <2>1 DEF Loops, Sets, NextClaimed, At
  <2> HIDE DEF r
  <2> QED
    BY <1>2, <2>3, <2>4
<1>5. ASSUME NEW w \in Workers, OrphanWakes(w) \/ ClaimOrphans(w) PROVE TurnsInv'
  <2>1. PICK s \in {"claim", "idle"} : Goes(w, "orphan", s)
    BY <1>5 DEF OrphanWakes, ClaimOrphans
  <2>2. "orphan" \in Loops /\ loop[w]["orphan"].pc # "run" /\ s \in Pcs /\ s \notin Holding
    BY <1>5 DEF OrphanWakes, ClaimOrphans, At, Loops, Pcs, Holding, InProcess
  <2>3. /\ loop'[w]["orphan"].pc = s
        /\ \A v \in Workers, k \in Loops : v # w \/ k # "orphan" => loop'[v][k] = loop[v][k]
    BY <2>1, <2>2, LoopGoes
  <2>4. "orphan" \notin posted'[w]
    BY <1>0, <2>2 DEF TurnsInv, TurnInv
  <2> QED
    BY <1>0, <2>2, <2>3, <2>4, NoTurn, OneTurn
<1>6. ASSUME NEW w \in Workers, NEW l \in Loops, EnterProcess(w, l) PROVE TurnsInv'
  <2>1. loop[w][l].pc = "check" /\ loop[w][l].pc \in Holding /\ l \notin posted'[w]
    BY <1>0, <1>6 DEF EnterProcess, At, Holding, TurnsInv, TurnInv
  <2>2. CASE Goes(w, l, "run") /\ tries' = Tried({Task(w, l)})
    <3>1. /\ loop'[w][l].pc = "run" /\ loop'[w][l].msg = loop[w][l].msg
          /\ loop'[w][l].retry = loop[w][l].retry
          /\ \A v \in Workers, k \in Loops : v # w \/ k # l => loop'[v][k] = loop[v][k]
      BY <2>2, LoopGoes DEF Pcs
    <3>2. loop[w][l].msg \in Ids /\ Task(w, l) \in Tasks /\ loop[w][l].retry \in Nat
      BY <2>1, HeldEntry
    <3>3. Task(w, l)' = Task(w, l) /\ maxRetries' = maxRetries
      BY <3>1, <3>2 DEF Task, Evolves, Grows
    <3>4. AtLeast(Task(w, l), loop[w][l].retry)
      BY <2>1 DEF TurnsInv, TurnInv
    <3>5. AtLeast(Task(w, l), loop[w][l].retry + 1)'
      BY <2>2, <3>1, <3>2, <3>3, <3>4, TriedOnce DEF AtLeast
    <3>6. TurnInv(w, l)'
      BY <2>1, <3>1, <3>5 DEF TurnInv
    <3> QED
      BY <1>0, <3>1, <3>6, OneTurn
  <2>3. CASE Sets(w, l, Idle)
    BY <1>0, <2>1, <2>3, TurnReturns
  <2> QED
    BY <1>6, <2>2, <2>3 DEF EnterProcess, Sets
<1>7. ASSUME NEW w \in Workers, NEW l \in Loops, loop[w][l].pc \in {"ack", "del", "add", "drop"},
             Returns(w, l)
      PROVE  TurnsInv'
  BY <1>0, <1>7, TurnReturns DEF Returns, Sets
<1>8. ASSUME NEW w \in Workers, NEW l \in Loops, NEW s \in {"del", "add", "drop"}, Goes(w, l, s),
             loop[w][l].pc \in {"ack", "del", "add"}, s = "drop" \/ loop[w][l].pc \in {"ack", "del"}
      PROVE  TurnsInv'
  <2>1. loop[w][l].pc \in InProcess /\ s \in InProcess \ {"run"} /\ l \notin posted'[w]
    BY <1>0, <1>8 DEF InProcess, TurnsInv, TurnInv
  <2>2. s = "drop" \/ heard'[Task(w, l)] # {} \/ Task(w, l) \in unheard'
    BY <1>0, <1>8 DEF TurnsInv, TurnInv, Told
  <2> QED
    BY <1>0, <1>8, <2>1, <2>2, TurnGoes
<1>9. ASSUME NEW w \in Workers, NEW l \in Loops, Acknowledge(w, l) PROVE TurnsInv'
  BY <1>7, <1>8, <1>9 DEF Acknowledge, At
<1>10. ASSUME NEW w \in Workers, NEW l \in Loops, DeleteEntry(w, l) \/ DropOriginal(w, l) PROVE TurnsInv'
  BY <1>7, <1>10 DEF DeleteEntry, DropOriginal, At
<1>11. ASSUME NEW w \in Workers, NEW l \in Loops, RejectTask(w, l) PROVE TurnsInv'
  BY <1>8, <1>11 DEF RejectTask, At
<1>12. ASSUME NEW w \in Workers, NEW l \in Loops, CommandFails(w, l) PROVE TurnsInv'
  BY <1>7, <1>8, <1>12 DEF CommandFails, RejectsFrom
<1> QED
  BY <1>1, <1>3, <1>4, <1>5, <1>6, <1>9, <1>10, <1>11, <1>12
     DEF Quietly, vars, Enqueue, Ripen, ReleasePending, Disconnected, Restart

\* A stop or a kill ends the turns of both loops.
LEMMA HaltStep ==
    ASSUME TypeOK, LoopInv, TurnsInv, ReportType, Evolves, Grows, NEW w \in Workers, Halt(w)
    PROVE  TurnsInv'
<1>1. Forgotten(w) /\ posted' = [posted EXCEPT ![w] = {}]
  BY DEF Halt, Kill, Stop
<1>2. /\ \A l \in Loops : loop'[w][l] = Idle
      /\ \A v \in Workers \ {w}, k \in Loops : loop'[v][k] = loop[v][k]
  BY <1>1, AllForgotten
<1>3. posted'[w] = {} /\ \A v \in Workers \ {w} : posted'[v] = posted[v]
  BY <1>1 DEF ReportType
<1>4. ASSUME NEW l \in Loops PROVE TurnInv(w, l)'
  <2>1. loop'[w][l].pc \notin Holding /\ l \notin posted'[w]
    BY <1>2, <1>3 DEF Idle, Holding, InProcess
  <2> QED
    BY <2>1, NoTurn
<1>5. ASSUME NEW v \in Workers \ {w}, NEW l \in Loops PROVE TurnInv(v, l)'
  BY <1>2, <1>3, TurnKept DEF TurnsInv
<1> QED
  BY <1>4, <1>5 DEF TurnsInv

\* A run that posts its success has told.
LEMMA PostStep ==
    ASSUME TypeOK, LoopInv, TurnsInv, ReportType, Evolves, Grows,
           NEW w \in Workers, NEW l \in Loops, PostCompleted(w, l)
    PROVE  TurnsInv'
<1>1. /\ loop[w][l].pc = "run" /\ loop[w][l].pc \in Holding /\ loop[w][l].pc \in InProcess
      /\ UNCHANGED <<log, loop, maxRetries, tries>>
  BY DEF PostCompleted, At, Holding, InProcess, vars
<1>2. Task(w, l) \in Tasks /\ Task(w, l)' = Task(w, l)
  BY <1>1, HeldEntry DEF Task
<1>3. "completed" \in heard'[Task(w, l)]
  BY <1>2 DEF PostCompleted, Hears, ReportType
<1>4. AtLeast(Task(w, l), loop[w][l].retry + 1)'
  BY <1>1, <1>2 DEF TurnsInv, TurnInv, AtLeast
<1>5. TurnInv(w, l)'
  BY <1>1, <1>2, <1>3, <1>4 DEF TurnInv, Told
<1>6. \A v \in Workers, k \in Loops : v # w \/ k # l => (k \in posted'[v] => k \in posted[v])
  BY DEF PostCompleted, ReportType
<1> QED
  BY <1>1, <1>5, <1>6, OneTurn

\* The end of a run: it has succeeded and told so, or it has failed, and told so if
\* reject is going to bury the task.
LEMMA RunStep ==
    ASSUME TypeOK, LoopInv, TurnsInv, ReportType, Evolves, Grows,
           NEW w \in Workers, NEW l \in Loops, Succeeds(w, l) \/ Fails(w, l)
    PROVE  TurnsInv'
<1>1. /\ RunProcessor(w, l) /\ loop[w][l].pc = "run" /\ loop[w][l].pc \in InProcess
      /\ loop[w][l].pc \in Holding /\ posted' = [posted EXCEPT ![w] = @ \ {l}]
  BY DEF Succeeds, Fails, RunProcessor, At, InProcess, Holding
<1>2. /\ Task(w, l) \in Tasks /\ l \notin posted'[w]
      /\ \A v \in Workers : posted'[v] \subseteq posted[v]
  BY <1>1, HeldEntry DEF ReportType
<1>3. PICK s \in {"ack", "add"} : Goes(w, l, s)
  BY <1>1 DEF RunProcessor, RejectsFrom
<1>4. loop'[w][l].pc = s
  BY <1>3, LoopGoes DEF Pcs
<1>5. CASE Succeeds(w, l)
  <2>1. Told(Task(w, l)) /\ s = "ack"
    BY <1>4, <1>5 DEF Succeeds, TurnsInv, TurnInv
  <2>2. heard'[Task(w, l)] # {} \/ Task(w, l) \in unheard'
    BY <1>2, <2>1, Reached
  <2> QED
    BY <1>1, <1>2, <1>3, <2>2, TurnGoes DEF InProcess
<1>6. CASE Fails(w, l)
  <2>1. s = "add"
    BY <1>3, <1>4, <1>6 DEF Fails
  <2>2. FinalAttempt(w, l) => heard'[Task(w, l)] # {} \/ Task(w, l) \in unheard'
    BY <1>2, <1>6 DEF Fails, Hears, ReportType
  <2> QED
    BY <1>1, <1>2, <1>3, <2>1, <2>2, TurnGoes DEF InProcess, FinalAttempt
<1> QED
  BY <1>5, <1>6

LEMMA TurnsStep ==
    ASSUME TypeOK, LoopInv, EntriesInv, TodoInv, TurnsInv, ReportType, Evolves, Grows,
           [WorkerNext]_<<vars, reports>>
    PROVE  TurnsInv'
  BY Kinds, QuietStep, HaltStep, PostStep, RunStep

--------------------------------------------------------------------------------
(* The reports *)

\* A dead letter is added by a reject that finds no retries left, after a failure that
\* was the final attempt's, and a failure is told when the task's tries have run out.
LEMMA ToldStep ==
    ASSUME TypeOK, LoopInv, TurnsInv, ReportType, FailureIsTold, Grows,
           [WorkerNext]_<<vars, reports>>
    PROVE  FailureIsTold'
<1>1. ASSUME NEW t \in Tasks, dlq'[t] > 0, ~(dlq[t] > 0)
      PROVE  Told(t)
  <2>1. PICK w \in Workers, l \in Loops : RejectTask(w, l) /\ dlq' # dlq
    <3>1. dlq' # dlq
      BY <1>1
    <3>2. ASSUME NEW w \in Workers, Halt(w) PROVE FALSE
      BY <3>1, <3>2 DEF Halt, Kill, Stop
    <3>3. ASSUME NEW w \in Workers, NEW l \in Loops, PostCompleted(w, l) \/ Succeeds(w, l) \/ Fails(w, l)
          PROVE  FALSE
      BY <3>1, <3>3 DEF PostCompleted, Succeeds, Fails, RunProcessor, vars
    <3>4. Quietly
      BY <3>2, <3>3, Kinds
    <3> QED
      BY <3>1, <3>4 DEF Quietly, vars, Enqueue, Ripen, ReadTask, OrphanWakes, ClaimOrphans, NextClaimed,
         ReleasePending, Disconnected, Restart, EnterProcess, Acknowledge, DeleteEntry, DropOriginal,
         CommandFails
  <2>2. loop[w][l].pc = "add" /\ loop[w][l].pc \in Holding
    BY <2>1 DEF RejectTask, At, Holding, InProcess
  <2>3. Task(w, l) \in Tasks /\ loop[w][l].retry \in Nat /\ maxRetries \in Nat
    BY <2>2, HeldEntry, LimitsAssumption DEF TypeOK
  <2>4. dlq' = [dlq EXCEPT ![Task(w, l)] = @ + 1] /\ ~RetriesLeft(loop[w][l].retry + 1)
    BY <2>1 DEF RejectTask
  <2>5. t = Task(w, l)
    BY <1>1, <2>3, <2>4 DEF TypeOK
  <2>6. loop[w][l].retry >= maxRetries
    BY <2>3, <2>4 DEF RetriesLeft
  <2> QED
    BY <2>2, <2>5, <2>6 DEF TurnsInv, TurnInv
<1>2. ASSUME NEW t \in Tasks, dlq'[t] > 0 PROVE heard'[t] # {} \/ t \in unheard'
  BY <1>1, <1>2, Reached DEF FailureIsTold, Told
<1>3. ASSUME NEW t \in Tasks, "failed" \in heard'[t], "failed" \notin heard[t]
      PROVE  tries[t] > maxRetries
  <2>1. PICK w \in Workers, l \in Loops : (PostCompleted(w, l) \/ Succeeds(w, l) \/ Fails(w, l)) /\ heard' # heard
    BY <1>3, Kinds DEF Halt, reports
  <2>2. loop[w][l].pc \in InProcess /\ loop[w][l].pc \in Holding
    BY <2>1 DEF PostCompleted, Succeeds, Fails, RunProcessor, At, Holding, InProcess
  <2>3. Task(w, l) \in Tasks /\ loop[w][l].retry \in Nat /\ maxRetries \in Nat /\ tries[Task(w, l)] \in Nat
    BY <2>2, HeldEntry, LimitsAssumption DEF TypeOK
  <2>4. AtLeast(Task(w, l), loop[w][l].retry + 1)
    BY <2>2 DEF TurnsInv, TurnInv
  <2>5. CASE Fails(w, l)
    <3>1. FinalAttempt(w, l) /\ Hears(Task(w, l), "failed")
      BY <2>1, <2>5 DEF Fails
    <3>2. t = Task(w, l)
      BY <1>3, <2>3, <3>1 DEF Hears, ReportType
    <3> QED
      BY <2>3, <2>4, <3>1, <3>2 DEF AtLeast, FinalAttempt
  <2>6. CASE PostCompleted(w, l)
    BY <1>3, <2>3, <2>6 DEF PostCompleted, Hears, ReportType
  <2>7. CASE Succeeds(w, l)
    BY <2>1, <2>7 DEF Succeeds
  <2> QED
    BY <2>1, <2>5, <2>6, <2>7
<1>4. ASSUME NEW t \in Tasks, "failed" \in heard'[t] PROVE tries'[t] > maxRetries'
  <2>1. tries[t] > maxRetries
    BY <1>3, <1>4 DEF FailureIsTold
  <2>2. /\ tries[t] \in Nat /\ tries'[t] \in Nat /\ tries[t] <= tries'[t] /\ maxRetries' = maxRetries
        /\ maxRetries \in Nat
    BY LimitsAssumption DEF Grows, TypeOK
  <2> QED
    BY <2>1, <2>2
<1> QED
  BY <1>2, <1>4 DEF FailureIsTold

--------------------------------------------------------------------------------
(* The invariant *)

LEMMA WorkerInvInit == WorkerInit => WorkerInv
<1> SUFFICES ASSUME WorkerInit PROVE WorkerInv
  OBVIOUS
<1>1. Inv /\ Ids = {}
  BY InvInit DEF WorkerInit, Init, Ids
<1>2. ReportType
  BY DEF WorkerInit, ReportType
<1>3. \A w \in Workers, l \in Loops : loop[w][l].pc = "idle" /\ posted[w] = {} /\ todo[w] = {}
  BY DEF WorkerInit, Init, Idle
<1>4. TurnsInv
  BY <1>3 DEF TurnsInv, TurnInv, InProcess
<1>5. EntriesInv /\ TodoInv
  BY <1>1 DEF EntriesInv, TodoInv, WorkerInit, Init
<1>6. FailureIsTold
  BY DEF FailureIsTold, WorkerInit, Init
<1> QED
  BY <1>1, <1>2, <1>4, <1>5, <1>6 DEF WorkerInv

LEMMA WorkerInvStep == WorkerInv /\ [WorkerNext]_<<vars, reports>> => WorkerInv'
<1> SUFFICES ASSUME WorkerInv, [WorkerNext]_<<vars, reports>> PROVE WorkerInv'
  OBVIOUS
<1>1. TypeOK /\ LoopInv /\ RedriveInv /\ ReportType /\ EntriesInv /\ TodoInv /\ TurnsInv /\ FailureIsTold
  BY DEF WorkerInv, Inv
<1>2. [Next]_vars
  BY StepIsQueueStep
<1>3. Inv' /\ Evolves
  BY <1>1, <1>2, InvStep, TypeStep DEF WorkerInv
<1>4. Grows /\ ReportType'
  BY <1>1, GrowStep
<1>5. Counts
  BY <1>1, <1>2, CountStep
<1>6. EntriesInv' /\ TodoInv'
  BY <1>1, <1>2, <1>3, <1>4, <1>5, EntriesStep, TodoStep
<1>7. TurnsInv'
  BY <1>1, <1>3, <1>4, TurnsStep
<1>8. FailureIsTold'
  BY <1>1, <1>4, ToldStep
<1> QED
  BY <1>3, <1>4, <1>6, <1>7, <1>8 DEF WorkerInv

\* A dead letter is known to the orchestrator or its report is in the log as failed, and
\* a failure is reported of no task that has tries left, however many workers claim it
\* meanwhile and whatever fails.
THEOREM FailureToldAlways == WorkerSpec => []FailureIsTold
<1>1. WorkerInv => FailureIsTold
  BY DEF WorkerInv
<1> QED
  BY <1>1, WorkerInvInit, WorkerInvStep, PTL DEF WorkerSpec

================================================================================
