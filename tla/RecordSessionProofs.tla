-------------------------- MODULE RecordSessionProofs --------------------------
(***************************************************************************)
(* What TLAPS proves of RecordSession: first for every set of streams,     *)
(* every bound, every choice of faults and every setting of the knobs,     *)
(* then, from the owner of a session on, for the knobs and faults that the *)
(* theorems name.                                                          *)
(***************************************************************************)
EXTENDS RecordSession, TLAPS

--------------------------------------------------------------------------------
(* Tasks and lock queues *)

\* The four kinds of tasks are tasks, and tasks of different streams or kinds differ.
LEMMA TaskFacts ==
    /\ \A s \in Streams : /\ Conn(s) \in Tasks /\ Grace(s) \in Tasks /\ Started(s) \in Tasks
                          /\ Conn(s) \in Finalizers /\ Grace(s) \in Finalizers
    /\ Reconciler \in Tasks /\ Reconciler \notin Finalizers /\ Finalizers \subseteq Tasks
    /\ Idle \notin Tasks
    /\ \A s, r \in Streams :
        /\ Conn(s) = Conn(r) => s = r
        /\ Grace(s) = Grace(r) => s = r
        /\ Started(s) = Started(r) => s = r
        /\ Conn(s) # Grace(r) /\ Conn(s) # Started(r) /\ Grace(s) # Started(r)
        /\ Started(s) \notin Finalizers
        /\ Conn(s) # Reconciler /\ Grace(s) # Reconciler /\ Started(s) # Reconciler
  BY StreamsAssumption
     DEF Conn, Grace, Started, Reconciler, Idle, Tasks, Finalizers

\* Leaving a queue (a cancelled waiter, _wake_up_first) keeps the holder in front.
LEMMA WithoutFacts ==
    ASSUME NEW S, NEW q \in Seq(S), NEW t
    PROVE  /\ Without(q, t) \in Seq(S)
           /\ \A h : First(q, h) /\ h # t => First(Without(q, t), h)
<1>1. CASE \E i \in DOMAIN q : q[i] = t
  <2> DEFINE k == CHOOSE i \in DOMAIN q : q[i] = t
  <2>1. k \in 1 .. Len(q) /\ q[k] = t
    BY <1>1
  <2>2. Without(q, t) = SubSeq(q, 1, k - 1) \o SubSeq(q, k + 1, Len(q))
    BY <1>1 DEF Without
  <2> HIDE DEF k
  <2>3. SubSeq(q, 1, k - 1) \in Seq(S) /\ SubSeq(q, k + 1, Len(q)) \in Seq(S)
    BY <2>1
  <2>4. ASSUME NEW h, First(q, h), h # t
        PROVE  First(Without(q, t), h)
    <3>1. k # 1
      BY <2>1, <2>4 DEF First
    <3>2. SubSeq(q, 1, k - 1) # <<>> /\ SubSeq(q, 1, k - 1)[1] = q[1]
      BY <2>1, <3>1
    <3> QED
      BY <2>2, <2>3, <2>4, <3>2 DEF First
  <2> QED
    BY <2>2, <2>3, <2>4
<1>2. CASE ~ \E i \in DOMAIN q : q[i] = t
  BY <1>2 DEF Without
<1> QED
  BY <1>1, <1>2

--------------------------------------------------------------------------------
(* What the small operators do to the types *)

\* Every place a task can be sent to is one of Pcs.
LEMMA PcFacts ==
    /\ {"idle", "enter", "resume", "resaving", "create", "newsaving", "open", "append",
        "upload", "appsaving", "broken", "drop", "dropsaving", "sleep", "claim", "cancel"}
         \subseteq Pcs
    /\ {"begin", "finalize", "flush", "complete", "saving", "report", "acked", "unacked",
        "deleting", "check", "end"} \subseteq Pcs
  BY DEF Pcs, StartPcs, AppendPcs, DropPcs, FinalizePcs, ReportPcs, TimerPcs

\* Session documents keep their type when the status or the part list changes.
LEMMA SessionFacts ==
    /\ NoSession \in Session
    /\ \A u \in Streams : NewSession(u) \in Session
    /\ \A x \in Session : /\ x.upload \in Streams \cup {None} /\ x.status \in Statuses
                          /\ x.stored \in Nat
                          /\ \A st \in Statuses : [x EXCEPT !.status = st] \in Session
                          /\ \A n \in Nat : [x EXCEPT !.stored = n] \in Session
    /\ {"recording", "graceWait", "finalizing", "completed", "failed"} = Statuses
    /\ {"started", "completed", "failed"} = Events
  BY DEF Session, NoSession, NewSession, Statuses, Events

\* A task that awaits or runs on leaves pc and loop well typed.
LEMMA SchedulingTypes ==
    ASSUME TaskTypes
    PROVE  /\ \A t, l : l \in Pcs /\ Yield(t, l) =>
                pc' \in [Tasks -> Pcs] /\ loop' \in Tasks \cup {Idle}
           /\ \A t, l : t \in Tasks /\ l \in Pcs /\ Go(t, l) =>
                pc' \in [Tasks -> Pcs] /\ loop' \in Tasks \cup {Idle}
           /\ \A t, doc : doc \in Session /\ Save(t, doc) =>
                write' \in [Tasks -> SUBSET Session]
  BY DEF TaskTypes, Yield, Go, Save

\* Queueing for a session's lock, and releasing it by its holder.
LEMMA LockOperatorTypes ==
    ASSUME TaskTypes, LockTypes
    PROVE  /\ \A t, u, l : t \in Tasks /\ u \in Streams /\ l \in Pcs /\ Acquire(t, u, l) =>
                /\ pc' \in [Tasks -> Pcs] /\ loop' \in Tasks \cup {Idle}
                /\ me' \in [Tasks -> Streams \cup {None}]
                /\ lock' \in [Streams -> Seq(Tasks)]
           /\ \A t : Holds(t) /\ Release(t) => lock' \in [Streams -> Seq(Tasks)]
           /\ \A t : First(creation, t) => Tail(creation) \in Seq(Tasks)
<1>1. ASSUME NEW t \in Tasks, NEW u \in Streams, NEW l \in Pcs, Acquire(t, u, l)
      PROVE  /\ pc' \in [Tasks -> Pcs] /\ loop' \in Tasks \cup {Idle}
             /\ me' \in [Tasks -> Streams \cup {None}]
             /\ lock' \in [Streams -> Seq(Tasks)]
  <2>1. Append(lock[u], t) \in Seq(Tasks)
    BY DEF LockTypes
  <2> QED
    BY <1>1, <2>1 DEF TaskTypes, LockTypes, Acquire
<1>2. ASSUME NEW t, Holds(t), Release(t) PROVE lock' \in [Streams -> Seq(Tasks)]
  <2>1. Tail(lock[me[t]]) \in Seq(Tasks)
    BY <1>2 DEF LockTypes, Holds, First
  <2> QED
    BY <1>2, <2>1 DEF LockTypes, Release
<1>3. ASSUME NEW t, First(creation, t) PROVE Tail(creation) \in Seq(Tasks)
  BY <1>3 DEF LockTypes, First
<1> QED
  BY <1>1, <1>2, <1>3

\* What S3 and the orchestrator may see of a call.
LEMMA CallTypes ==
    ASSUME MemoryTypes, WorldTypes, TaskTypes
    PROVE  /\ \A x : x \in Session /\ Closes(x) =>
                /\ upload' \in [Streams -> {"none", "open", "completed", "aborted"}]
                /\ object' \in [Streams -> Nat]
           /\ \A t : t \in Tasks /\ Tell(t) => told' \in [Streams -> SUBSET Events]
           /\ \A t : t \in Tasks /\ CallOutlives(t) =>
                /\ upload' \in [Streams -> {"none", "open", "completed", "aborted"}]
                /\ object' \in [Streams -> Nat]
                /\ told' \in [Streams -> SUBSET Events]
<1>1. ASSUME NEW x \in Session, Closes(x)
      PROVE  /\ upload' \in [Streams -> {"none", "open", "completed", "aborted"}]
             /\ object' \in [Streams -> Nat]
  BY <1>1, SessionFacts DEF WorldTypes, Closes
<1>2. ASSUME NEW t \in Tasks, Tell(t) PROVE told' \in [Streams -> SUBSET Events]
  <2> DEFINE u == sess[me[t]].upload
  <2>1. event[t] \in Events
    BY DEF TaskTypes
  <2>2. told' = [told EXCEPT ![u] = @ \cup {event[t]}]
    BY <1>2 DEF Tell
  <2> HIDE DEF u
  <2> QED
    BY <2>1, <2>2 DEF WorldTypes
<1>3. ASSUME NEW t \in Tasks, CallOutlives(t)
      PROVE  /\ upload' \in [Streams -> {"none", "open", "completed", "aborted"}]
             /\ object' \in [Streams -> Nat]
             /\ told' \in [Streams -> SUBSET Events]
  <2>1. sess[me[t]] \in Session
    BY DEF MemoryTypes, TaskTypes
  <2> QED
    BY <1>1, <1>2, <1>3, <2>1 DEF CallOutlives, WorldTypes, s3Vars
<1> QED
  BY <1>1, <1>2, <1>3

\* Cancelling a task keeps the types.
LEMMA CancelTypes ==
    ASSUME TypeOK, NEW t \in Tasks, Cancelled(t)
    PROVE  /\ creation' \in Seq(Tasks)
           /\ lock' \in [Streams -> Seq(Tasks)]
           /\ lost' \in [Streams -> Nat]
           /\ payload' \in [Tasks -> Nat]
           /\ upload' \in [Streams -> {"none", "open", "completed", "aborted"}]
           /\ object' \in [Streams -> Nat]
           /\ told' \in [Streams -> SUBSET Events]
<1>1. creation' \in Seq(Tasks)
  BY WithoutFacts DEF TypeOK, LockTypes, Cancelled
<1>2. lock' \in [Streams -> Seq(Tasks)]
  BY WithoutFacts DEF TypeOK, LockTypes, Cancelled
<1>3. lost' \in [Streams -> Nat] /\ payload' \in [Tasks -> Nat]
  BY DEF TypeOK, WorldTypes, TaskTypes, Cancelled
<1> QED
  BY <1>1, <1>2, <1>3, CallTypes DEF TypeOK, Cancelled

\* A part upload that succeeds, or is given up, keeps the types.
LEMMA StoreTypes ==
    ASSUME TypeOK, NEW t \in Tasks
    PROVE  /\ Stores(t) => /\ sess' \in [Streams \cup {None} -> Session]
                           /\ payload' \in [Tasks -> Nat]
           /\ GivesUp(t) => lost' \in [Streams -> Nat] /\ payload' \in [Tasks -> Nat]
<1>1. me[t] \in Streams \cup {None} /\ payload[t] \in Nat /\ sess[me[t]] \in Session
  BY DEF TypeOK, TaskTypes, MemoryTypes
<1>2. sess[me[t]].stored + payload[t] \in Nat
  BY <1>1, SessionFacts
<1>3. [sess[me[t]] EXCEPT !.stored = @ + payload[t]] \in Session
  BY <1>1, <1>2, SessionFacts
<1>4. ASSUME Stores(t) PROVE sess' \in [Streams \cup {None} -> Session]
  BY <1>1, <1>3, <1>4 DEF Stores, TypeOK, MemoryTypes
<1>5. (Stores(t) \/ GivesUp(t)) => payload' \in [Tasks -> Nat]
  BY DEF Stores, GivesUp, TypeOK, TaskTypes
<1>6. ASSUME GivesUp(t) PROVE lost' \in [Streams -> Nat]
  <2> DEFINE u == me[t]
  <2> DEFINE n == payload[t]
  <2>1. lost' = [lost EXCEPT ![u] = @ + n] /\ n \in Nat
    BY <1>1, <1>6 DEF GivesUp
  <2> HIDE DEF u, n
  <2>2. lost \in [Streams -> Nat]
    BY DEF TypeOK, WorldTypes
  <2>3. CASE u \in Streams
    <3>1. lost[u] + n \in Nat
      BY <2>1, <2>2, <2>3
    <3> QED
      BY <2>1, <2>2, <3>1
  <2>4. CASE u \notin Streams
    BY <2>1, <2>2, <2>4
  <2> QED
    BY <2>3, <2>4
<1> QED
  BY <1>4, <1>5, <1>6

--------------------------------------------------------------------------------
(* Who holds the locks *)

\* Awaits at which a finalizer or a handler sits inside `async with active.lock'.
HoldingPcs == {"resaving", "upload", "appsaving", "dropsaving", "flush", "complete", "saving"}

LockInv == \A t \in Finalizers : pc[t] \in HoldingPcs => Holds(t)

\* Awaits of StartRecording.execute inside `async with creation_lock(session_id)'.
CreationPcs == {"resume", "resaving", "create", "newsaving"}

CreationInv == \A s \in Streams : pc[Conn(s)] \in CreationPcs => First(creation, Conn(s))

\* A graceful end that has looked at the timer has not let anything run in between.
CancelInv ==
    \A s \in Streams : pc[Conn(s)] = "cancel" =>
        loop = Conn(s) /\ me[Conn(s)] \in Streams /\ graceTask[me[Conn(s)]] \in Streams

\* Every step of the service keeps the types, given who holds which lock: a Tail is
\* only ever taken of a queue with a holder.
LEMMA TypeStep ==
    ASSUME TypeOK, LockInv, CreationInv, CancelInv, Next
    PROVE  TypeOK'
<1> USE TaskFacts, PcFacts, SessionFacts DEF TypeOK
<1>1. ASSUME NEW s \in Streams, OpenStream(s) PROVE TypeOK'
  <2>1. Append(creation, Conn(s)) \in Seq(Tasks)
    BY DEF LockTypes
  <2> QED
    BY <1>1, <2>1
       DEF OpenStream, TaskTypes, LockTypes, MemoryTypes, WorldTypes, memoryVars, s3Vars
<1>2. ASSUME NEW s \in Streams, LookUp(s) PROVE TypeOK'
  BY <1>2, SchedulingTypes, LockOperatorTypes
     DEF LookUp, At, CreationHeld, First, TaskTypes, LockTypes, MemoryTypes, WorldTypes,
         localVars, memoryVars, s3Vars
<1>3. ASSUME NEW s \in Streams, ResumeCancelsTimer(s) PROVE TypeOK'
  <2>1. me[Conn(s)] \in Streams /\ graceTask[me[Conn(s)]] \in Streams
    BY <1>3 DEF ResumeCancelsTimer, Holds, MemoryTypes
  <2>2. Cancelled(Grace(graceTask[me[Conn(s)]])) /\ Grace(graceTask[me[Conn(s)]]) \in Tasks
    BY <1>3, <2>1 DEF ResumeCancelsTimer
  <2> QED
    BY <1>3, <2>1, <2>2, CancelTypes
       DEF ResumeCancelsTimer, TaskTypes, LockTypes, MemoryTypes, WorldTypes
<1>4. ASSUME NEW s \in Streams, Resume(s) PROVE TypeOK'
  BY <1>4, SchedulingTypes
     DEF Resume, At, TaskTypes, LockTypes, MemoryTypes, WorldTypes, localVars, memoryVars,
         s3Vars
<1>5. ASSUME NEW s \in Streams, Resumed(s) PROVE TypeOK'
  BY <1>5, SchedulingTypes, LockOperatorTypes
     DEF Resumed, At, TaskTypes, LockTypes, MemoryTypes, WorldTypes, localVars, memoryVars,
         s3Vars, LockInv, HoldingPcs, CreationInv, CreationPcs
<1>6. ASSUME NEW s \in Streams, Reuse(s) PROVE TypeOK'
  BY <1>6, SchedulingTypes, LockOperatorTypes
     DEF Reuse, At, TaskTypes, LockTypes, MemoryTypes, WorldTypes, localVars, memoryVars,
         s3Vars, CreationInv, CreationPcs
<1>7. ASSUME NEW s \in Streams, DropStale(s) PROVE TypeOK'
  BY <1>7, SchedulingTypes, LockOperatorTypes
     DEF DropStale, At, TaskTypes, LockTypes, MemoryTypes, WorldTypes, localVars,
         memoryVars, s3Vars
<1>8. ASSUME NEW s \in Streams, CreateUpload(s) PROVE TypeOK'
  BY <1>8, SchedulingTypes
     DEF CreateUpload, At, NewSession, TaskTypes, LockTypes, MemoryTypes, WorldTypes,
         localVars, memoryVars, s3Vars
<1>9. ASSUME NEW s \in Streams, CreateFails(s) PROVE TypeOK'
  BY <1>9, SchedulingTypes, LockOperatorTypes
     DEF CreateFails, At, TaskTypes, LockTypes, MemoryTypes, WorldTypes, localVars,
         memoryVars, s3Vars, CreationInv, CreationPcs
<1>10. ASSUME NEW s \in Streams, Created(s) PROVE TypeOK'
  BY <1>10, SchedulingTypes, LockOperatorTypes
     DEF Created, At, TaskTypes, LockTypes, MemoryTypes, WorldTypes, localVars, memoryVars,
         s3Vars, CreationInv, CreationPcs
<1>11. ASSUME NEW s \in Streams, RecvAudio(s) PROVE TypeOK'
  BY <1>11, SchedulingTypes, LockOperatorTypes
     DEF RecvAudio, At, TaskTypes, LockTypes, MemoryTypes, WorldTypes, localVars,
         memoryVars, s3Vars
<1>12. ASSUME NEW s \in Streams, AppendFrame(s) PROVE TypeOK'
  <2>1. me[Conn(s)] \in Streams /\ buffer[me[Conn(s)]] \in Nat /\ sess[me[Conn(s)]] \in Session
    BY <1>12 DEF AppendFrame, Holds, MemoryTypes
  <2>2. received' \in [Streams -> Nat] /\ buffer' \in [Streams -> Nat]
    BY <1>12, <2>1, BoundsAssumption DEF AppendFrame, PartFull, MemoryTypes
  <2>3. payload' \in [Tasks -> Nat] /\ write' \in [Tasks -> SUBSET Session]
    BY <1>12, <2>1, BoundsAssumption, SchedulingTypes DEF AppendFrame, TaskTypes
  <2>4. pc' \in [Tasks -> Pcs] /\ loop' \in Tasks \cup {Idle}
    BY <1>12, SchedulingTypes DEF AppendFrame
  <2> QED
    BY <1>12, <2>2, <2>3, <2>4
       DEF AppendFrame, TaskTypes, LockTypes, MemoryTypes, WorldTypes, s3Vars
<1>13. ASSUME NEW s \in Streams, UploadPart(s) PROVE TypeOK'
  <2>1. CASE Stores(Conn(s)) /\ Save(Conn(s), sess'[me[Conn(s)]]) /\ Yield(Conn(s), "appsaving")
             /\ UNCHANGED lock
    <3>1. MemoryTypes' /\ payload' \in [Tasks -> Nat]
      BY <1>13, <2>1, StoreTypes DEF UploadPart, Finalizers, MemoryTypes, TaskTypes
    <3>2. sess'[me[Conn(s)]] \in Session
      BY <3>1 DEF MemoryTypes, TaskTypes
    <3> QED
      BY <1>13, <2>1, <3>1, <3>2, SchedulingTypes
         DEF UploadPart, Stores, TaskTypes, LockTypes, WorldTypes, s3Vars
  <2>2. CASE GivesUp(Conn(s)) /\ Release(Conn(s)) /\ Go(Conn(s), "broken") /\ UNCHANGED write
    <3>1. lost' \in [Streams -> Nat] /\ payload' \in [Tasks -> Nat]
      BY <2>2, StoreTypes
    <3>2. lock' \in [Streams -> Seq(Tasks)]
      BY <1>13, <2>2, LockOperatorTypes DEF UploadPart, At, LockInv, HoldingPcs
    <3> QED
      BY <1>13, <2>2, <3>1, <3>2, SchedulingTypes
         DEF UploadPart, GivesUp, TaskTypes, LockTypes, MemoryTypes, WorldTypes, s3Vars
  <2> QED
    BY <1>13, <2>1, <2>2 DEF UploadPart
<1>14. ASSUME NEW s \in Streams, AppendSaved(s) PROVE TypeOK'
  BY <1>14, SchedulingTypes, LockOperatorTypes
     DEF AppendSaved, At, TaskTypes, LockTypes, MemoryTypes, WorldTypes, localVars,
         memoryVars, s3Vars, LockInv, HoldingPcs
<1>15. ASSUME NEW s \in Streams, GracefulEnd(s) PROVE TypeOK'
  <2>1. pc' \in [Tasks -> Pcs] /\ loop' \in Tasks \cup {Idle}
    BY <1>15, SchedulingTypes DEF GracefulEnd
  <2>2. me' \in [Tasks -> Streams \cup {None}]
    BY <1>15 DEF GracefulEnd, TaskTypes, LockTypes
  <2> QED
    BY <1>15, <2>1, <2>2
       DEF GracefulEnd, TaskTypes, LockTypes, MemoryTypes, WorldTypes, memoryVars, s3Vars
<1>16. ASSUME NEW s \in Streams, StopCancelsTimer(s) PROVE TypeOK'
  BY <1>16, SchedulingTypes, CallTypes, CancelTypes
     DEF StopCancelsTimer, At, TaskTypes, LockTypes, MemoryTypes, WorldTypes, localVars,
         memoryVars, s3Vars, CancelInv
<1>17. ASSUME NEW s \in Streams, BreakReading(s) PROVE TypeOK'
  BY <1>17, SchedulingTypes
     DEF BreakReading, At, TaskTypes, LockTypes, MemoryTypes, WorldTypes, localVars,
         memoryVars, s3Vars
<1>18. ASSUME NEW s \in Streams, BreakMidCall(s) PROVE TypeOK'
  <2>1. Cancelled(Conn(s)) /\ Conn(s) \in Tasks
    BY <1>18 DEF BreakMidCall
  <2>2. pc' \in [Tasks -> Pcs] /\ loop' \in Tasks \cup {Idle}
    BY <1>18 DEF BreakMidCall, TaskTypes
  <2> QED
    BY <1>18, <2>1, <2>2, CancelTypes
       DEF BreakMidCall, TaskTypes, LockTypes, MemoryTypes, WorldTypes, memoryVars
<1>19. ASSUME NEW s \in Streams, Drop(s) PROVE TypeOK'
  BY <1>19, SchedulingTypes, LockOperatorTypes
     DEF Drop, At, TaskTypes, LockTypes, MemoryTypes, WorldTypes, localVars, memoryVars,
         s3Vars
<1>20. ASSUME NEW s \in Streams, GraceWait(s) PROVE TypeOK'
  BY <1>20, SchedulingTypes
     DEF GraceWait, At, TaskTypes, LockTypes, MemoryTypes, WorldTypes, localVars,
         memoryVars, s3Vars
<1>21. ASSUME NEW s \in Streams, ArmTimer(s) PROVE TypeOK'
  BY <1>21, SchedulingTypes, LockOperatorTypes
     DEF ArmTimer, At, TaskTypes, LockTypes, MemoryTypes, WorldTypes, localVars, memoryVars,
         s3Vars, LockInv, HoldingPcs
<1>22. ASSUME NEW s \in Streams, TimerFires(s) PROVE TypeOK'
  BY <1>22, SchedulingTypes, LockOperatorTypes
     DEF TimerFires, At, TaskTypes, LockTypes, MemoryTypes, WorldTypes, localVars,
         memoryVars, s3Vars
<1>23. ASSUME NEW s \in Streams, Claim(s) PROVE TypeOK'
  <2>1. me[Grace(s)] \in Streams /\ Holds(Grace(s)) /\ Release(Grace(s))
    BY <1>23 DEF Claim, Holds
  <2>2. lock' \in [Streams -> Seq(Tasks)]
    BY <2>1, LockOperatorTypes
  <2>3. sess' \in [Streams \cup {None} -> Session]
    <3>1. [sess[me[Grace(s)]] EXCEPT !.status = "finalizing"] \in Session
      BY <2>1 DEF MemoryTypes
    <3> QED
      BY <1>23, <2>1, <3>1 DEF Claim, MemoryTypes
  <2>4. pc' \in [Tasks -> Pcs] /\ loop' \in Tasks \cup {Idle}
    BY <1>23, SchedulingTypes DEF Claim
  <2> QED
    BY <1>23, <2>2, <2>3, <2>4
       DEF Claim, TaskTypes, LockTypes, MemoryTypes, WorldTypes, s3Vars
<1>24. ASSUME NEW t \in Finalizers, BeginFinalize(t) PROVE TypeOK'
  BY <1>24, SchedulingTypes, LockOperatorTypes
     DEF BeginFinalize, At, TaskTypes, LockTypes, MemoryTypes, WorldTypes, localVars,
         memoryVars, s3Vars
<1>25. ASSUME NEW t \in Finalizers, SkipFinalize(t) PROVE TypeOK'
  BY <1>25, SchedulingTypes, LockOperatorTypes
     DEF SkipFinalize, At, TaskTypes, LockTypes, MemoryTypes, WorldTypes, localVars,
         memoryVars, s3Vars
<1>26. ASSUME NEW t \in Finalizers, TakeBuffer(t) PROVE TypeOK'
  <2>1. pc' \in [Tasks -> Pcs] /\ loop' \in Tasks \cup {Idle}
    BY <1>26, SchedulingTypes DEF TakeBuffer
  <2>2. me[t] \in Streams /\ payload' \in [Tasks -> Nat] /\ buffer' \in [Streams -> Nat]
    BY <1>26 DEF TakeBuffer, Holds, TaskTypes, MemoryTypes
  <2> QED
    BY <1>26, <2>1, <2>2
       DEF TakeBuffer, TaskTypes, LockTypes, MemoryTypes, WorldTypes, s3Vars
<1>27. ASSUME NEW t \in Finalizers, FlushBuffer(t) PROVE TypeOK'
  <2>1. pc' \in [Tasks -> Pcs] /\ loop' \in Tasks \cup {Idle}
    BY <1>27, SchedulingTypes DEF FlushBuffer
  <2>2. CASE Stores(t)
    BY <1>27, <2>1, <2>2, StoreTypes
       DEF FlushBuffer, Stores, TaskTypes, LockTypes, MemoryTypes, WorldTypes, s3Vars
  <2>3. CASE GivesUp(t)
    BY <1>27, <2>1, <2>3, StoreTypes
       DEF FlushBuffer, GivesUp, TaskTypes, LockTypes, MemoryTypes, WorldTypes, s3Vars
  <2> QED
    BY <1>27, <2>2, <2>3 DEF FlushBuffer
<1>28. ASSUME NEW t \in Finalizers, PopAndReport(t) PROVE TypeOK'
  BY <1>28, SchedulingTypes, LockOperatorTypes
     DEF PopAndReport, At, Outcome, TaskTypes, LockTypes, MemoryTypes, WorldTypes,
         localVars, memoryVars, s3Vars, LockInv, HoldingPcs
<1>29. ASSUME NEW t \in Finalizers \cup {Reconciler}, CompleteOrAbort(t) PROVE TypeOK'
  <2>1. t \in Tasks /\ me[t] \in Streams \cup {None} /\ sess[me[t]] \in Session
    BY DEF TaskTypes, MemoryTypes
  <2>2. \E st \in Statuses : sess' = [sess EXCEPT ![me[t]].status = st]
    BY <1>29 DEF CompleteOrAbort, AfterError
  <2>3. MemoryTypes' /\ sess'[me[t]] \in Session
    BY <1>29, <2>1, <2>2 DEF CompleteOrAbort, MemoryTypes
  <2>4. /\ upload' \in [Streams -> {"none", "open", "completed", "aborted"}]
        /\ object' \in [Streams -> Nat]
    BY <1>29, <2>1, CallTypes DEF CompleteOrAbort, WorldTypes, s3Vars
  <2>5. /\ write' \in [Tasks -> SUBSET Session]
        /\ pc' \in [Tasks -> Pcs] /\ loop' \in Tasks \cup {Idle}
    BY <1>29, <2>3, SchedulingTypes DEF CompleteOrAbort
  <2> QED
    BY <1>29, <2>3, <2>4, <2>5 DEF CompleteOrAbort, TaskTypes, LockTypes, WorldTypes
<1>30. ASSUME NEW t \in Tasks, WriteLands(t) PROVE TypeOK'
  <2>1. write[t] \subseteq Session /\ file' \in Session
    BY <1>30 DEF WriteLands, TaskTypes, WorldTypes
  <2>2. write' \in [Tasks -> SUBSET Session]
    BY <1>30 DEF WriteLands, TaskTypes
  <2> QED
    BY <1>30, <2>1, <2>2
       DEF WriteLands, TaskTypes, LockTypes, MemoryTypes, WorldTypes, localVars, memoryVars,
           s3Vars
<1>31. ASSUME NEW t \in Tasks, Report(t) PROVE TypeOK'
  BY <1>31, SchedulingTypes, CallTypes
     DEF Report, At, TaskTypes, LockTypes, MemoryTypes, WorldTypes, localVars, memoryVars,
         s3Vars
<1>32. ASSUME NEW t \in Tasks, Acked(t) PROVE TypeOK'
  BY <1>32, SchedulingTypes
     DEF Acked, At, Saved, Finished, TaskTypes, LockTypes, MemoryTypes, WorldTypes,
         localVars, memoryVars, s3Vars
<1>33. ASSUME NEW t \in Tasks, Unacked(t) PROVE TypeOK'
  BY <1>33, SchedulingTypes
     DEF Unacked, At, Finished, TaskTypes, LockTypes, MemoryTypes, WorldTypes, localVars,
         memoryVars, s3Vars
<1>34. ASSUME NEW t \in Tasks, Deleted(t) PROVE TypeOK'
  BY <1>34, SchedulingTypes
     DEF Deleted, At, Finished, TaskTypes, LockTypes, MemoryTypes, WorldTypes, localVars,
         memoryVars, s3Vars
<1>35. ASSUME ListUnfinished PROVE TypeOK'
  <2>1. pc' \in [Tasks -> Pcs] /\ loop' \in Tasks \cup {Idle} /\ up' \in {"starting", "serving"}
    BY <1>35, SchedulingTypes DEF ListUnfinished, Finished, TaskTypes, WorldTypes
  <2>2. sess' \in [Streams \cup {None} -> Session]
    BY <1>35 DEF ListUnfinished, MemoryTypes, WorldTypes
  <2> QED
    BY <1>35, <2>1, <2>2
       DEF ListUnfinished, TaskTypes, LockTypes, MemoryTypes, WorldTypes, s3Vars
<1>36. ASSUME SkipLive PROVE TypeOK'
  BY <1>36, SchedulingTypes
     DEF SkipLive, At, Finished, TaskTypes, LockTypes, MemoryTypes, WorldTypes, localVars,
         memoryVars, s3Vars
<1>37. ASSUME Recover PROVE TypeOK'
  BY <1>37, SchedulingTypes
     DEF Recover, At, Outcome, TaskTypes, LockTypes, MemoryTypes, WorldTypes, localVars,
         memoryVars, s3Vars
<1>38. ASSUME RecoveredSaved PROVE TypeOK'
  BY <1>38, SchedulingTypes
     DEF RecoveredSaved, At, Outcome, TaskTypes, LockTypes, MemoryTypes, WorldTypes,
         localVars, memoryVars, s3Vars
<1>39. ASSUME Crash PROVE TypeOK'
  <2>1. TaskTypes'
    BY <1>39 DEF Crash, TaskTypes
  <2>2. LockTypes' /\ MemoryTypes'
    BY <1>39 DEF Crash, LockTypes, MemoryTypes
  <2>3. WorldTypes'
    BY <1>39 DEF Crash, WorldTypes, s3Vars
  <2> QED
    BY <2>1, <2>2, <2>3
<1> QED
  BY <1>1, <1>2, <1>3, <1>4, <1>5, <1>6, <1>7, <1>8, <1>9, <1>10, <1>11, <1>12, <1>13,
     <1>14, <1>15, <1>16, <1>17, <1>18, <1>19, <1>20, <1>21, <1>22, <1>23, <1>24, <1>25,
     <1>26, <1>27, <1>28, <1>29, <1>30, <1>31, <1>32, <1>33, <1>34, <1>35, <1>36, <1>37,
     <1>38, <1>39
     DEF Next, StartStep, AppendStep, StopStep, FinalizeStep, ReportStep, ReconcilerStep

--------------------------------------------------------------------------------
(* The holder of a session's lock keeps it until it gives it up *)

\* A task in front of its lock stays there when others queue up, when the holder of
\* another place releases, and when another task is cancelled.
LEMMA HolderStays ==
    ASSUME TypeOK, NEW t \in Tasks, Holds(t), me'[t] = me[t]
    PROVE  /\ lock' = lock => Holds(t)'
           /\ \A r, u, l : Acquire(r, u, l) => Holds(t)'
           /\ \A r : r # t /\ Holds(r) /\ Release(r) => Holds(t)'
           /\ \A r : r # t /\ Cancelled(r) => Holds(t)'
<1>0. me[t] \in Streams /\ lock[me[t]] \in Seq(Tasks) /\ First(lock[me[t]], t)
  BY DEF TypeOK, LockTypes, Holds
<1>1. lock' = lock => Holds(t)'
  BY DEF Holds
<1>2. ASSUME NEW r, NEW u, NEW l, Acquire(r, u, l) PROVE Holds(t)'
  <2>1. First(Append(lock[me[t]], r), t)
    <3>1. Append(lock[me[t]], r) = lock[me[t]] \o <<r>>
      OBVIOUS
    <3> QED
      BY <1>0, <3>1 DEF First
  <2>2. lock' = [lock EXCEPT ![u] = Append(@, r)] /\ lock \in [Streams -> Seq(Tasks)]
    BY <1>2 DEF Acquire, TypeOK, LockTypes
  <2>3. lock'[me[t]] \in {lock[me[t]], Append(lock[me[t]], r)}
    BY <1>0, <2>2
  <2> QED
    BY <1>0, <2>1, <2>3 DEF Holds
<1>3. ASSUME NEW r, r # t, Holds(r), Release(r) PROVE Holds(t)'
  <2>1. me[r] # me[t]
    BY <1>0, <1>3 DEF Holds, First
  <2> QED
    BY <1>0, <1>3, <2>1 DEF Holds, Release, TypeOK, LockTypes
<1>4. ASSUME NEW r, r # t, Cancelled(r) PROVE Holds(t)'
  <2>1. lock'[me[t]] = Without(lock[me[t]], r)
    BY <1>0, <1>4 DEF Cancelled
  <2> QED
    BY <1>0, <1>4, <2>1, WithoutFacts DEF Holds
<1> QED
  BY <1>1, <1>2, <1>3, <1>4

\* Queueing for a lock moves only the task that queues.
LEMMA AcquireMoves ==
    ASSUME TypeOK, NEW r \in Tasks, NEW u, NEW l, Acquire(r, u, l), NEW t \in Tasks
    PROVE  IF t = r THEN pc'[t] = l ELSE pc'[t] = pc[t] /\ me'[t] = me[t]
  BY DEF Acquire, TypeOK, TaskTypes

\* LockInv is inductive.
LEMMA LockStep ==
    ASSUME TypeOK, LockInv, CancelInv, Next
    PROVE  LockInv'
<1> SUFFICES ASSUME NEW f \in Finalizers, pc'[f] \in HoldingPcs
             PROVE  Holds(f)'
  BY DEF LockInv
<1> USE TaskFacts, HolderStays, AcquireMoves
<1>1. ASSUME NEW s \in Streams, OpenStream(s) PROVE Holds(f)'
  BY <1>1 DEF OpenStream, LockInv, HoldingPcs, TypeOK, TaskTypes
<1>2. ASSUME NEW s \in Streams, LookUp(s) PROVE Holds(f)'
  BY <1>2 DEF LookUp, At, Yield, LockInv, HoldingPcs, TypeOK, TaskTypes
<1>3. ASSUME NEW s \in Streams, ResumeCancelsTimer(s) PROVE Holds(f)'
  BY <1>3 DEF ResumeCancelsTimer, At, LockInv, HoldingPcs, TypeOK, TaskTypes
<1>4. ASSUME NEW s \in Streams, Resume(s) PROVE Holds(f)'
  BY <1>4 DEF Resume, At, Yield, LockInv, HoldingPcs, TypeOK, TaskTypes
<1>5. ASSUME NEW s \in Streams, Resumed(s) PROVE Holds(f)'
  BY <1>5 DEF Resumed, At, Yield, LockInv, HoldingPcs, TypeOK, TaskTypes
<1>6. ASSUME NEW s \in Streams, Reuse(s) PROVE Holds(f)'
  BY <1>6 DEF Reuse, At, Yield, LockInv, HoldingPcs, TypeOK, TaskTypes
<1>7. ASSUME NEW s \in Streams, DropStale(s) PROVE Holds(f)'
  BY <1>7 DEF DropStale, At, Yield, LockInv, HoldingPcs, TypeOK, TaskTypes
<1>8. ASSUME NEW s \in Streams, CreateUpload(s) PROVE Holds(f)'
  BY <1>8 DEF CreateUpload, At, Yield, LockInv, HoldingPcs, TypeOK, TaskTypes
<1>9. ASSUME NEW s \in Streams, CreateFails(s) PROVE Holds(f)'
  BY <1>9 DEF CreateFails, At, Yield, LockInv, HoldingPcs, TypeOK, TaskTypes
<1>10. ASSUME NEW s \in Streams, Created(s) PROVE Holds(f)'
  BY <1>10 DEF Created, At, LockInv, HoldingPcs, TypeOK, TaskTypes
<1>11. ASSUME NEW s \in Streams, RecvAudio(s) PROVE Holds(f)'
  BY <1>11 DEF RecvAudio, At, Yield, LockInv, HoldingPcs, TypeOK, TaskTypes
<1>12. ASSUME NEW s \in Streams, AppendFrame(s) PROVE Holds(f)'
  BY <1>12 DEF AppendFrame, At, Yield, LockInv, HoldingPcs, TypeOK, TaskTypes
<1>13. ASSUME NEW s \in Streams, UploadPart(s) PROVE Holds(f)'
  BY <1>13
     DEF UploadPart, At, Stores, GivesUp, Yield, Go, LockInv, HoldingPcs, TypeOK, TaskTypes
<1>14. ASSUME NEW s \in Streams, AppendSaved(s) PROVE Holds(f)'
  BY <1>14 DEF AppendSaved, At, Yield, LockInv, HoldingPcs, TypeOK, TaskTypes
<1>15. ASSUME NEW s \in Streams, GracefulEnd(s) PROVE Holds(f)'
  BY <1>15 DEF GracefulEnd, At, Yield, Go, LockInv, HoldingPcs, TypeOK, TaskTypes
<1>16. ASSUME NEW s \in Streams, StopCancelsTimer(s) PROVE Holds(f)'
  BY <1>16 DEF StopCancelsTimer, At, LockInv, HoldingPcs, TypeOK, TaskTypes
<1>17. ASSUME NEW s \in Streams, BreakReading(s) PROVE Holds(f)'
  BY <1>17 DEF BreakReading, At, Go, LockInv, HoldingPcs, TypeOK, TaskTypes
<1>18. ASSUME NEW s \in Streams, BreakMidCall(s) PROVE Holds(f)'
  BY <1>18 DEF BreakMidCall, LockInv, HoldingPcs, TypeOK, TaskTypes
<1>19. ASSUME NEW s \in Streams, Drop(s) PROVE Holds(f)'
  BY <1>19 DEF Drop, At, Yield, LockInv, HoldingPcs, TypeOK, TaskTypes
<1>20. ASSUME NEW s \in Streams, GraceWait(s) PROVE Holds(f)'
  BY <1>20 DEF GraceWait, At, Yield, LockInv, HoldingPcs, TypeOK, TaskTypes
<1>21. ASSUME NEW s \in Streams, ArmTimer(s) PROVE Holds(f)'
  BY <1>21 DEF ArmTimer, At, LockInv, HoldingPcs, TypeOK, TaskTypes
<1>22. ASSUME NEW s \in Streams, TimerFires(s) PROVE Holds(f)'
  BY <1>22 DEF TimerFires, At, Yield, LockInv, HoldingPcs, TypeOK, TaskTypes
<1>23. ASSUME NEW s \in Streams, Claim(s) PROVE Holds(f)'
  BY <1>23 DEF Claim, At, Go, Yield, LockInv, HoldingPcs, TypeOK, TaskTypes
<1>24. ASSUME NEW t \in Finalizers, BeginFinalize(t) PROVE Holds(f)'
  BY <1>24 DEF BeginFinalize, At, Yield, LockInv, HoldingPcs, TypeOK, TaskTypes
<1>25. ASSUME NEW t \in Finalizers, SkipFinalize(t) PROVE Holds(f)'
  BY <1>25 DEF SkipFinalize, At, Yield, LockInv, HoldingPcs, TypeOK, TaskTypes
<1>26. ASSUME NEW t \in Finalizers, TakeBuffer(t) PROVE Holds(f)'
  BY <1>26 DEF TakeBuffer, At, Yield, LockInv, HoldingPcs, TypeOK, TaskTypes
<1>27. ASSUME NEW t \in Finalizers, FlushBuffer(t) PROVE Holds(f)'
  BY <1>27
     DEF FlushBuffer, At, Stores, GivesUp, Yield, LockInv, HoldingPcs, TypeOK, TaskTypes
<1>28. ASSUME NEW t \in Finalizers, PopAndReport(t) PROVE Holds(f)'
  BY <1>28 DEF PopAndReport, At, Yield, LockInv, HoldingPcs, TypeOK, TaskTypes
<1>29. ASSUME NEW t \in Finalizers \cup {Reconciler}, CompleteOrAbort(t) PROVE Holds(f)'
  BY <1>29 DEF CompleteOrAbort, At, Yield, LockInv, HoldingPcs, TypeOK, TaskTypes
<1>30. ASSUME NEW t \in Tasks, WriteLands(t) PROVE Holds(f)'
  BY <1>30 DEF WriteLands, LockInv, HoldingPcs, TypeOK, TaskTypes, localVars
<1>31. ASSUME NEW t \in Tasks, Report(t) PROVE Holds(f)'
  BY <1>31 DEF Report, At, Yield, LockInv, HoldingPcs, TypeOK, TaskTypes
<1>32. ASSUME NEW t \in Tasks, Acked(t) PROVE Holds(f)'
  BY <1>32 DEF Acked, At, Saved, Finished, Yield, LockInv, HoldingPcs, TypeOK, TaskTypes
<1>33. ASSUME NEW t \in Tasks, Unacked(t) PROVE Holds(f)'
  BY <1>33 DEF Unacked, At, Finished, Yield, LockInv, HoldingPcs, TypeOK, TaskTypes
<1>34. ASSUME NEW t \in Tasks, Deleted(t) PROVE Holds(f)'
  BY <1>34 DEF Deleted, At, Finished, Yield, LockInv, HoldingPcs, TypeOK, TaskTypes
<1>35. ASSUME ListUnfinished PROVE Holds(f)'
  BY <1>35 DEF ListUnfinished, At, Finished, Yield, LockInv, HoldingPcs, TypeOK, TaskTypes
<1>36. ASSUME SkipLive PROVE Holds(f)'
  BY <1>36 DEF SkipLive, At, Finished, Yield, LockInv, HoldingPcs, TypeOK, TaskTypes
<1>37. ASSUME Recover PROVE Holds(f)'
  BY <1>37 DEF Recover, At, Yield, LockInv, HoldingPcs, TypeOK, TaskTypes
<1>38. ASSUME RecoveredSaved PROVE Holds(f)'
  BY <1>38 DEF RecoveredSaved, At, Yield, LockInv, HoldingPcs, TypeOK, TaskTypes
<1>39. ASSUME Crash PROVE Holds(f)'
  BY <1>39 DEF Crash, LockInv, HoldingPcs, TypeOK, TaskTypes
<1> QED
  BY <1>1, <1>2, <1>3, <1>4, <1>5, <1>6, <1>7, <1>8, <1>9, <1>10, <1>11, <1>12, <1>13,
     <1>14, <1>15, <1>16, <1>17, <1>18, <1>19, <1>20, <1>21, <1>22, <1>23, <1>24, <1>25,
     <1>26, <1>27, <1>28, <1>29, <1>30, <1>31, <1>32, <1>33, <1>34, <1>35, <1>36, <1>37,
     <1>38, <1>39
     DEF Next, StartStep, AppendStep, StopStep, FinalizeStep, ReportStep, ReconcilerStep

--------------------------------------------------------------------------------
(* The holder of the creation lock keeps it, and a graceful end is not interrupted *)

\* The start in front of the creation lock stays there when another one queues up
\* and when another task is cancelled.
LEMMA CreatorStays ==
    ASSUME TypeOK, NEW t, First(creation, t)
    PROVE  /\ \A r : creation' = Append(creation, r) => First(creation', t)
           /\ \A r : r # t /\ Cancelled(r) => First(creation', t)
<1>1. ASSUME NEW r PROVE First(Append(creation, r), t)
  <2>1. Append(creation, r) = creation \o <<r>> /\ creation \in Seq(Tasks)
    BY DEF TypeOK, LockTypes
  <2> QED
    BY <2>1 DEF First
<1>2. ASSUME NEW r, r # t, Cancelled(r) PROVE First(creation', t)
  BY <1>2, WithoutFacts DEF Cancelled, TypeOK, LockTypes
<1> QED
  BY <1>1, <1>2

\* CreationInv is inductive.
LEMMA CreationStep ==
    ASSUME TypeOK, CreationInv, CancelInv, Next
    PROVE  CreationInv'
<1> SUFFICES ASSUME NEW c \in Streams, pc'[Conn(c)] \in CreationPcs
             PROVE  First(creation', Conn(c))
  BY DEF CreationInv, First
<1> USE TaskFacts, CreatorStays, AcquireMoves
<1>1. ASSUME NEW s \in Streams, OpenStream(s) PROVE First(creation', Conn(c))
  BY <1>1 DEF OpenStream, CreationInv, CreationPcs, TypeOK, TaskTypes
<1>2. ASSUME NEW s \in Streams, LookUp(s) PROVE First(creation', Conn(c))
  BY <1>2 DEF LookUp, At, CreationHeld, Yield, CreationInv, CreationPcs, TypeOK, TaskTypes
<1>3. ASSUME NEW s \in Streams, ResumeCancelsTimer(s) PROVE First(creation', Conn(c))
  BY <1>3 DEF ResumeCancelsTimer, At, CreationInv, CreationPcs, TypeOK, TaskTypes
<1>4. ASSUME NEW s \in Streams, Resume(s) PROVE First(creation', Conn(c))
  BY <1>4 DEF Resume, At, Yield, CreationInv, CreationPcs, TypeOK, TaskTypes
<1>5. ASSUME NEW s \in Streams, Resumed(s) PROVE First(creation', Conn(c))
  BY <1>5 DEF Resumed, At, Yield, First, CreationInv, CreationPcs, TypeOK, TaskTypes
<1>6. ASSUME NEW s \in Streams, Reuse(s) PROVE First(creation', Conn(c))
  BY <1>6 DEF Reuse, At, Yield, First, CreationInv, CreationPcs, TypeOK, TaskTypes
<1>7. ASSUME NEW s \in Streams, DropStale(s) PROVE First(creation', Conn(c))
  BY <1>7 DEF DropStale, At, Yield, CreationInv, CreationPcs, TypeOK, TaskTypes
<1>8. ASSUME NEW s \in Streams, CreateUpload(s) PROVE First(creation', Conn(c))
  BY <1>8 DEF CreateUpload, At, Yield, CreationInv, CreationPcs, TypeOK, TaskTypes
<1>9. ASSUME NEW s \in Streams, CreateFails(s) PROVE First(creation', Conn(c))
  BY <1>9 DEF CreateFails, At, Yield, First, CreationInv, CreationPcs, TypeOK, TaskTypes
<1>10. ASSUME NEW s \in Streams, Created(s) PROVE First(creation', Conn(c))
  BY <1>10 DEF Created, At, First, CreationInv, CreationPcs, TypeOK, TaskTypes
<1>11. ASSUME NEW s \in Streams, RecvAudio(s) PROVE First(creation', Conn(c))
  BY <1>11 DEF RecvAudio, At, Yield, CreationInv, CreationPcs, TypeOK, TaskTypes
<1>12. ASSUME NEW s \in Streams, AppendFrame(s) PROVE First(creation', Conn(c))
  BY <1>12 DEF AppendFrame, At, Yield, CreationInv, CreationPcs, TypeOK, TaskTypes
<1>13. ASSUME NEW s \in Streams, UploadPart(s) PROVE First(creation', Conn(c))
  BY <1>13
     DEF UploadPart, At, Stores, GivesUp, Yield, Go, CreationInv, CreationPcs, TypeOK,
         TaskTypes
<1>14. ASSUME NEW s \in Streams, AppendSaved(s) PROVE First(creation', Conn(c))
  BY <1>14 DEF AppendSaved, At, Yield, CreationInv, CreationPcs, TypeOK, TaskTypes
<1>15. ASSUME NEW s \in Streams, GracefulEnd(s) PROVE First(creation', Conn(c))
  BY <1>15 DEF GracefulEnd, At, Yield, Go, CreationInv, CreationPcs, TypeOK, TaskTypes
<1>16. ASSUME NEW s \in Streams, StopCancelsTimer(s) PROVE First(creation', Conn(c))
  BY <1>16 DEF StopCancelsTimer, At, CreationInv, CreationPcs, TypeOK, TaskTypes
<1>17. ASSUME NEW s \in Streams, BreakReading(s) PROVE First(creation', Conn(c))
  BY <1>17 DEF BreakReading, At, Go, CreationInv, CreationPcs, TypeOK, TaskTypes
<1>18. ASSUME NEW s \in Streams, BreakMidCall(s) PROVE First(creation', Conn(c))
  BY <1>18 DEF BreakMidCall, CreationInv, CreationPcs, TypeOK, TaskTypes
<1>19. ASSUME NEW s \in Streams, Drop(s) PROVE First(creation', Conn(c))
  BY <1>19 DEF Drop, At, Yield, CreationInv, CreationPcs, TypeOK, TaskTypes
<1>20. ASSUME NEW s \in Streams, GraceWait(s) PROVE First(creation', Conn(c))
  BY <1>20 DEF GraceWait, At, Yield, CreationInv, CreationPcs, TypeOK, TaskTypes
<1>21. ASSUME NEW s \in Streams, ArmTimer(s) PROVE First(creation', Conn(c))
  BY <1>21 DEF ArmTimer, At, CreationInv, CreationPcs, TypeOK, TaskTypes
<1>22. ASSUME NEW s \in Streams, TimerFires(s) PROVE First(creation', Conn(c))
  BY <1>22 DEF TimerFires, At, Yield, CreationInv, CreationPcs, TypeOK, TaskTypes
<1>23. ASSUME NEW s \in Streams, Claim(s) PROVE First(creation', Conn(c))
  BY <1>23 DEF Claim, At, Go, Yield, CreationInv, CreationPcs, TypeOK, TaskTypes
<1>24. ASSUME NEW t \in Finalizers, BeginFinalize(t) PROVE First(creation', Conn(c))
  BY <1>24 DEF BeginFinalize, At, Yield, CreationInv, CreationPcs, TypeOK, TaskTypes
<1>25. ASSUME NEW t \in Finalizers, SkipFinalize(t) PROVE First(creation', Conn(c))
  BY <1>25 DEF SkipFinalize, At, Yield, CreationInv, CreationPcs, TypeOK, TaskTypes
<1>26. ASSUME NEW t \in Finalizers, TakeBuffer(t) PROVE First(creation', Conn(c))
  BY <1>26 DEF TakeBuffer, At, Yield, CreationInv, CreationPcs, TypeOK, TaskTypes
<1>27. ASSUME NEW t \in Finalizers, FlushBuffer(t) PROVE First(creation', Conn(c))
  BY <1>27
     DEF FlushBuffer, At, Stores, GivesUp, Yield, CreationInv, CreationPcs, TypeOK,
         TaskTypes
<1>28. ASSUME NEW t \in Finalizers, PopAndReport(t) PROVE First(creation', Conn(c))
  BY <1>28 DEF PopAndReport, At, Yield, CreationInv, CreationPcs, TypeOK, TaskTypes
<1>29. ASSUME NEW t \in Finalizers \cup {Reconciler}, CompleteOrAbort(t)
       PROVE First(creation', Conn(c))
  BY <1>29 DEF CompleteOrAbort, At, Yield, CreationInv, CreationPcs, TypeOK, TaskTypes
<1>30. ASSUME NEW t \in Tasks, WriteLands(t) PROVE First(creation', Conn(c))
  BY <1>30
     DEF WriteLands, CreationInv, CreationPcs, localVars, memoryVars, TypeOK, TaskTypes
<1>31. ASSUME NEW t \in Tasks, Report(t) PROVE First(creation', Conn(c))
  BY <1>31 DEF Report, At, Yield, CreationInv, CreationPcs, TypeOK, TaskTypes
<1>32. ASSUME NEW t \in Tasks, Acked(t) PROVE First(creation', Conn(c))
  BY <1>32
     DEF Acked, At, Saved, Finished, Yield, CreationInv, CreationPcs, TypeOK, TaskTypes
<1>33. ASSUME NEW t \in Tasks, Unacked(t) PROVE First(creation', Conn(c))
  BY <1>33 DEF Unacked, At, Finished, Yield, CreationInv, CreationPcs, TypeOK, TaskTypes
<1>34. ASSUME NEW t \in Tasks, Deleted(t) PROVE First(creation', Conn(c))
  BY <1>34 DEF Deleted, At, Finished, Yield, CreationInv, CreationPcs, TypeOK, TaskTypes
<1>35. ASSUME ListUnfinished PROVE First(creation', Conn(c))
  BY <1>35
     DEF ListUnfinished, At, Finished, Yield, CreationInv, CreationPcs, TypeOK, TaskTypes
<1>36. ASSUME SkipLive PROVE First(creation', Conn(c))
  BY <1>36 DEF SkipLive, At, Finished, Yield, CreationInv, CreationPcs, TypeOK, TaskTypes
<1>37. ASSUME Recover PROVE First(creation', Conn(c))
  BY <1>37 DEF Recover, At, Yield, CreationInv, CreationPcs, TypeOK, TaskTypes
<1>38. ASSUME RecoveredSaved PROVE First(creation', Conn(c))
  BY <1>38 DEF RecoveredSaved, At, Yield, CreationInv, CreationPcs, TypeOK, TaskTypes
<1>39. ASSUME Crash PROVE First(creation', Conn(c))
  BY <1>39 DEF Crash, CreationInv, CreationPcs, TypeOK, TaskTypes
<1> QED
  BY <1>1, <1>2, <1>3, <1>4, <1>5, <1>6, <1>7, <1>8, <1>9, <1>10, <1>11, <1>12, <1>13,
     <1>14, <1>15, <1>16, <1>17, <1>18, <1>19, <1>20, <1>21, <1>22, <1>23, <1>24, <1>25,
     <1>26, <1>27, <1>28, <1>29, <1>30, <1>31, <1>32, <1>33, <1>34, <1>35, <1>36, <1>37,
     <1>38, <1>39
     DEF Next, StartStep, AppendStep, StopStep, FinalizeStep, ReportStep, ReconcilerStep

\* CancelInv is inductive: nothing runs between a graceful end that finds a timer
\* and the cancellation of that timer.
LEMMA CancelStep ==
    ASSUME TypeOK, CancelInv, Next
    PROVE  CancelInv'
<1> SUFFICES ASSUME NEW c \in Streams, pc'[Conn(c)] = "cancel"
             PROVE  loop' = Conn(c) /\ me'[Conn(c)] \in Streams
                      /\ graceTask'[me'[Conn(c)]] \in Streams
  BY DEF CancelInv
<1> DEFINE Uninterrupted ==
      /\ loop' = Conn(c) /\ me'[Conn(c)] \in Streams
      /\ graceTask'[me'[Conn(c)]] \in Streams
<1> USE TaskFacts, AcquireMoves
<1>1. ASSUME NEW s \in Streams, OpenStream(s) PROVE Uninterrupted
  BY <1>1 DEF OpenStream, CancelInv, LockTypes, MemoryTypes, memoryVars, TypeOK, TaskTypes
<1>2. ASSUME NEW s \in Streams, LookUp(s) PROVE Uninterrupted
  <2>1. pc[Conn(c)] = "cancel" /\ Conn(c) # Conn(s)
    BY <1>2 DEF LookUp, At, Yield, TypeOK, TaskTypes
  <2>2. loop = Conn(c)
    BY <2>1 DEF CancelInv
  <2> QED
    BY <1>2, <2>1, <2>2 DEF LookUp, At
<1>3. ASSUME NEW s \in Streams, ResumeCancelsTimer(s) PROVE Uninterrupted
  <2>1. pc[Conn(c)] = "cancel" /\ c # s
    BY <1>3 DEF ResumeCancelsTimer, At, TypeOK, TaskTypes
  <2>2. loop = Conn(c)
    BY <2>1 DEF CancelInv
  <2> QED
    BY <1>3, <2>1, <2>2 DEF ResumeCancelsTimer, At
<1>4. ASSUME NEW s \in Streams, Resume(s) PROVE Uninterrupted
  BY <1>4
     DEF Resume, At, Yield, CancelInv, LockTypes, MemoryTypes, memoryVars, TypeOK, TaskTypes
<1>5. ASSUME NEW s \in Streams, Resumed(s) PROVE Uninterrupted
  BY <1>5
     DEF Resumed, At, Yield, CancelInv, LockTypes, MemoryTypes, memoryVars, TypeOK,
         TaskTypes
<1>6. ASSUME NEW s \in Streams, Reuse(s) PROVE Uninterrupted
  BY <1>6
     DEF Reuse, At, Yield, CancelInv, LockTypes, MemoryTypes, memoryVars, TypeOK, TaskTypes
<1>7. ASSUME NEW s \in Streams, DropStale(s) PROVE Uninterrupted
  BY <1>7
     DEF DropStale, At, Yield, CancelInv, LockTypes, MemoryTypes, memoryVars, TypeOK,
         TaskTypes
<1>8. ASSUME NEW s \in Streams, CreateUpload(s) PROVE Uninterrupted
  BY <1>8
     DEF CreateUpload, At, Yield, CancelInv, LockTypes, MemoryTypes, memoryVars, TypeOK,
         TaskTypes
<1>9. ASSUME NEW s \in Streams, CreateFails(s) PROVE Uninterrupted
  BY <1>9
     DEF CreateFails, At, Yield, CancelInv, LockTypes, MemoryTypes, memoryVars, TypeOK,
         TaskTypes
<1>10. ASSUME NEW s \in Streams, Created(s) PROVE Uninterrupted
  BY <1>10 DEF Created, At, CancelInv, LockTypes, MemoryTypes, memoryVars, TypeOK, TaskTypes
<1>11. ASSUME NEW s \in Streams, RecvAudio(s) PROVE Uninterrupted
  <2>1. pc[Conn(c)] = "cancel" /\ Conn(c) # Conn(s)
    BY <1>11 DEF RecvAudio, At, Yield, TypeOK, TaskTypes
  <2>2. loop = Conn(c)
    BY <2>1 DEF CancelInv
  <2> QED
    BY <1>11, <2>1, <2>2 DEF RecvAudio, At
<1>12. ASSUME NEW s \in Streams, AppendFrame(s) PROVE Uninterrupted
  <2>1. pc[Conn(c)] = "cancel" /\ Conn(c) # Conn(s)
    BY <1>12 DEF AppendFrame, At, Yield, TypeOK, TaskTypes
  <2>2. loop = Conn(c)
    BY <2>1 DEF CancelInv
  <2> QED
    BY <1>12, <2>1, <2>2 DEF AppendFrame, At
<1>13. ASSUME NEW s \in Streams, UploadPart(s) PROVE Uninterrupted
  <2>1. pc[Conn(c)] = "cancel" /\ Conn(c) # Conn(s)
    BY <1>13 DEF UploadPart, At, Yield, Stores, GivesUp, Go, TypeOK, TaskTypes
  <2>2. loop = Conn(c)
    BY <2>1 DEF CancelInv
  <2> QED
    BY <1>13, <2>1, <2>2 DEF UploadPart, At
<1>14. ASSUME NEW s \in Streams, AppendSaved(s) PROVE Uninterrupted
  BY <1>14
     DEF AppendSaved, At, Yield, CancelInv, LockTypes, MemoryTypes, memoryVars, TypeOK,
         TaskTypes
<1>15. ASSUME NEW s \in Streams, GracefulEnd(s) PROVE Uninterrupted
  <2>1. CASE c = s
    BY <1>15, <2>1
       DEF GracefulEnd, At, Yield, Go, TypeOK, TaskTypes, LockTypes, MemoryTypes, memoryVars
  <2>2. CASE c # s
    <3>1. pc[Conn(c)] = "cancel" /\ Conn(c) # Conn(s)
      BY <1>15, <2>2 DEF GracefulEnd, Yield, Go, TypeOK, TaskTypes
    <3>2. loop = Conn(c)
      BY <3>1 DEF CancelInv
    <3> QED
      BY <1>15, <3>1, <3>2 DEF GracefulEnd, At
  <2> QED
    BY <2>1, <2>2
<1>16. ASSUME NEW s \in Streams, StopCancelsTimer(s) PROVE Uninterrupted
  BY <1>16
     DEF StopCancelsTimer, At, CancelInv, LockTypes, MemoryTypes, memoryVars, TypeOK,
         TaskTypes
<1>17. ASSUME NEW s \in Streams, BreakReading(s) PROVE Uninterrupted
  BY <1>17
     DEF BreakReading, At, Go, CancelInv, LockTypes, MemoryTypes, memoryVars, TypeOK,
         TaskTypes
<1>18. ASSUME NEW s \in Streams, BreakMidCall(s) PROVE Uninterrupted
  <2>1. pc[Conn(c)] = "cancel" /\ loop = Idle
    BY <1>18 DEF BreakMidCall, TypeOK, TaskTypes
  <2> QED
    BY <2>1 DEF CancelInv
<1>19. ASSUME NEW s \in Streams, Drop(s) PROVE Uninterrupted
  <2>1. pc[Conn(c)] = "cancel" /\ Conn(c) # Conn(s)
    BY <1>19 DEF Drop, At, Yield, TypeOK, TaskTypes
  <2>2. loop = Conn(c)
    BY <2>1 DEF CancelInv
  <2> QED
    BY <1>19, <2>1, <2>2 DEF Drop, At
<1>20. ASSUME NEW s \in Streams, GraceWait(s) PROVE Uninterrupted
  BY <1>20
     DEF GraceWait, At, Yield, CancelInv, LockTypes, MemoryTypes, memoryVars, TypeOK,
         TaskTypes
<1>21. ASSUME NEW s \in Streams, ArmTimer(s) PROVE Uninterrupted
  BY <1>21
     DEF ArmTimer, At, CancelInv, LockTypes, MemoryTypes, memoryVars, TypeOK, TaskTypes
<1>22. ASSUME NEW s \in Streams, TimerFires(s) PROVE Uninterrupted
  <2>1. pc[Conn(c)] = "cancel" /\ Conn(c) # Grace(s)
    BY <1>22 DEF TimerFires, At, Yield, TypeOK, TaskTypes
  <2>2. loop = Conn(c)
    BY <2>1 DEF CancelInv
  <2> QED
    BY <1>22, <2>1, <2>2 DEF TimerFires, At
<1>23. ASSUME NEW s \in Streams, Claim(s) PROVE Uninterrupted
  BY <1>23
     DEF Claim, At, Go, Yield, CancelInv, LockTypes, MemoryTypes, memoryVars, TypeOK,
         TaskTypes
<1>24. ASSUME NEW t \in Finalizers, BeginFinalize(t) PROVE Uninterrupted
  <2>1. pc[Conn(c)] = "cancel" /\ Conn(c) # t
    BY <1>24 DEF BeginFinalize, At, Yield, TypeOK, TaskTypes
  <2>2. loop = Conn(c)
    BY <2>1 DEF CancelInv
  <2> QED
    BY <1>24, <2>1, <2>2 DEF BeginFinalize, At
<1>25. ASSUME NEW t \in Finalizers, SkipFinalize(t) PROVE Uninterrupted
  BY <1>25
     DEF SkipFinalize, At, Yield, CancelInv, LockTypes, MemoryTypes, memoryVars, TypeOK,
         TaskTypes
<1>26. ASSUME NEW t \in Finalizers, TakeBuffer(t) PROVE Uninterrupted
  BY <1>26
     DEF TakeBuffer, At, Yield, CancelInv, LockTypes, MemoryTypes, memoryVars, TypeOK,
         TaskTypes
<1>27. ASSUME NEW t \in Finalizers, FlushBuffer(t) PROVE Uninterrupted
  BY <1>27
     DEF FlushBuffer, At, Stores, GivesUp, Yield, CancelInv, LockTypes, MemoryTypes,
         memoryVars, TypeOK, TaskTypes
<1>28. ASSUME NEW t \in Finalizers, PopAndReport(t) PROVE Uninterrupted
  BY <1>28
     DEF PopAndReport, At, Yield, CancelInv, LockTypes, MemoryTypes, memoryVars, TypeOK,
         TaskTypes
<1>29. ASSUME NEW t \in Finalizers \cup {Reconciler}, CompleteOrAbort(t) PROVE Uninterrupted
  BY <1>29
     DEF CompleteOrAbort, At, Yield, CancelInv, LockTypes, MemoryTypes, memoryVars, TypeOK,
         TaskTypes
<1>30. ASSUME NEW t \in Tasks, WriteLands(t) PROVE Uninterrupted
  BY <1>30
     DEF WriteLands, CancelInv, LockTypes, MemoryTypes, localVars, memoryVars, TypeOK,
         TaskTypes
<1>31. ASSUME NEW t \in Tasks, Report(t) PROVE Uninterrupted
  <2>1. pc[Conn(c)] = "cancel" /\ Conn(c) # t
    BY <1>31 DEF Report, At, Yield, TypeOK, TaskTypes
  <2>2. loop = Conn(c)
    BY <2>1 DEF CancelInv
  <2> QED
    BY <1>31, <2>1, <2>2 DEF Report, At
<1>32. ASSUME NEW t \in Tasks, Acked(t) PROVE Uninterrupted
  BY <1>32
     DEF Acked, At, Saved, Finished, Yield, CancelInv, LockTypes, MemoryTypes, memoryVars,
         TypeOK, TaskTypes
<1>33. ASSUME NEW t \in Tasks, Unacked(t) PROVE Uninterrupted
  BY <1>33
     DEF Unacked, At, Finished, Yield, CancelInv, LockTypes, MemoryTypes, memoryVars,
         TypeOK, TaskTypes
<1>34. ASSUME NEW t \in Tasks, Deleted(t) PROVE Uninterrupted
  BY <1>34
     DEF Deleted, At, Finished, Yield, CancelInv, LockTypes, MemoryTypes, memoryVars,
         TypeOK, TaskTypes
<1>35. ASSUME ListUnfinished PROVE Uninterrupted
  BY <1>35
     DEF ListUnfinished, At, Finished, Yield, CancelInv, LockTypes, MemoryTypes, memoryVars,
         TypeOK, TaskTypes
<1>36. ASSUME SkipLive PROVE Uninterrupted
  BY <1>36
     DEF SkipLive, At, Finished, Yield, CancelInv, LockTypes, MemoryTypes, memoryVars,
         TypeOK, TaskTypes
<1>37. ASSUME Recover PROVE Uninterrupted
  BY <1>37
     DEF Recover, At, Yield, CancelInv, LockTypes, MemoryTypes, memoryVars, TypeOK,
         TaskTypes
<1>38. ASSUME RecoveredSaved PROVE Uninterrupted
  BY <1>38
     DEF RecoveredSaved, At, Yield, CancelInv, LockTypes, MemoryTypes, memoryVars, TypeOK,
         TaskTypes
<1>39. ASSUME Crash PROVE Uninterrupted
  BY <1>39 DEF Crash, CancelInv, LockTypes, MemoryTypes, memoryVars, TypeOK, TaskTypes
<1> QED
  BY <1>1, <1>2, <1>3, <1>4, <1>5, <1>6, <1>7, <1>8, <1>9, <1>10, <1>11, <1>12, <1>13,
     <1>14, <1>15, <1>16, <1>17, <1>18, <1>19, <1>20, <1>21, <1>22, <1>23, <1>24, <1>25,
     <1>26, <1>27, <1>28, <1>29, <1>30, <1>31, <1>32, <1>33, <1>34, <1>35, <1>36, <1>37,
     <1>38, <1>39
     DEF Next, StartStep, AppendStep, StopStep, FinalizeStep, ReportStep, ReconcilerStep

--------------------------------------------------------------------------------
(* The inductive invariant, and the first theorems *)

\* TypeOK alone is not inductive: a release takes the Tail of a queue, and only the
\* lock discipline says the queue is not empty then.
Inv == TypeOK /\ LockInv /\ CreationInv /\ CancelInv

\* A fresh process, with nothing on disk, satisfies the invariant.
LEMMA InvInit == Init => Inv
<1> SUFFICES ASSUME Init PROVE Inv
  OBVIOUS
<1> USE TaskFacts, PcFacts, SessionFacts DEF Init
<1>1. TaskTypes
  BY DEF TaskTypes
<1>2. LockTypes /\ MemoryTypes /\ WorldTypes
  BY DEF LockTypes, MemoryTypes, WorldTypes
<1>3. LockInv /\ CreationInv /\ CancelInv
  BY DEF LockInv, HoldingPcs, CreationInv, CreationPcs, CancelInv
<1> QED
  BY <1>1, <1>2, <1>3 DEF Inv, TypeOK

\* Every step of the service, and every stuttering step, keeps the invariant.
LEMMA InvStep == Inv /\ [Next]_vars => Inv'
<1> SUFFICES ASSUME Inv, [Next]_vars PROVE Inv'
  OBVIOUS
<1>1. CASE Next
  BY <1>1, TypeStep, LockStep, CreationStep, CancelStep DEF Inv
<1>2. CASE UNCHANGED vars
  <2> USE <1>2 DEF vars, localVars, memoryVars, s3Vars
  <2>1. TypeOK'
    BY DEF Inv, TypeOK, TaskTypes, LockTypes, MemoryTypes, WorldTypes
  <2>2. LockInv' /\ CreationInv' /\ CancelInv'
    BY DEF Inv, LockInv, Holds, First, CreationInv, CancelInv
  <2> QED
    BY <2>1, <2>2 DEF Inv
<1> QED
  BY <1>1, <1>2

\* In every behaviour of the service every variable keeps its type: in particular no
\* buffer is ever cut below zero, no lock is released by a task that is not in front
\* of it, and a cancelled timer is always an armed one.
THEOREM TypeCorrect == Spec => []TypeOK
<1>1. Init => Inv
  BY InvInit
<1>2. Inv /\ [Next]_vars => Inv'
  BY InvStep
<1>3. Inv => TypeOK
  BY DEF Inv
<1> QED
  BY <1>1, <1>2, <1>3, PTL DEF Spec

\* Only the holder of the creation lock opens an upload, and it looked the registry up
\* (or emptied it) after taking that lock.
LEMMA PutStep == Inv /\ PutNeverClobbers /\ [Next]_vars => PutNeverClobbers'
<1> SUFFICES ASSUME Inv, PutNeverClobbers, [Next]_vars,
                    NEW c \in Streams, pc'[Conn(c)] = "create"
             PROVE  registry' = None
  BY DEF PutNeverClobbers
<1> USE TaskFacts, AcquireMoves DEF Inv
<1>1. ASSUME NEW s \in Streams, OpenStream(s) PROVE registry' = None
  BY <1>1 DEF OpenStream, PutNeverClobbers, TypeOK, TaskTypes
<1>2. ASSUME NEW s \in Streams, LookUp(s) PROVE registry' = None
  BY <1>2 DEF LookUp, At, CreationHeld, Yield, PutNeverClobbers, TypeOK, TaskTypes
<1>3. ASSUME NEW s \in Streams, ResumeCancelsTimer(s) PROVE registry' = None
  BY <1>3 DEF ResumeCancelsTimer, At, PutNeverClobbers, TypeOK, TaskTypes
<1>4. ASSUME NEW s \in Streams, Resume(s) PROVE registry' = None
  BY <1>4 DEF Resume, At, Yield, PutNeverClobbers, TypeOK, TaskTypes
<1>5. ASSUME NEW s \in Streams, Resumed(s) PROVE registry' = None
  BY <1>5 DEF Resumed, At, Yield, PutNeverClobbers, TypeOK, TaskTypes
<1>6. ASSUME NEW s \in Streams, Reuse(s) PROVE registry' = None
  BY <1>6 DEF Reuse, At, Yield, PutNeverClobbers, TypeOK, TaskTypes
<1>7. ASSUME NEW s \in Streams, DropStale(s) PROVE registry' = None
  BY <1>7 DEF DropStale, At, Yield, PutNeverClobbers, TypeOK, TaskTypes
<1>8. ASSUME NEW s \in Streams, CreateUpload(s) PROVE registry' = None
  <2>1. pc[Conn(c)] = "create" /\ pc[Conn(s)] = "create" /\ c # s
    BY <1>8 DEF CreateUpload, At, Yield, TypeOK, TaskTypes
  <2> QED
    BY <2>1 DEF CreationInv, CreationPcs, First
<1>9. ASSUME NEW s \in Streams, CreateFails(s) PROVE registry' = None
  BY <1>9 DEF CreateFails, At, Yield, PutNeverClobbers, TypeOK, TaskTypes
<1>10. ASSUME NEW s \in Streams, Created(s) PROVE registry' = None
  BY <1>10 DEF Created, At, PutNeverClobbers, TypeOK, TaskTypes
<1>11. ASSUME NEW s \in Streams, RecvAudio(s) PROVE registry' = None
  BY <1>11 DEF RecvAudio, At, Yield, PutNeverClobbers, TypeOK, TaskTypes
<1>12. ASSUME NEW s \in Streams, AppendFrame(s) PROVE registry' = None
  BY <1>12 DEF AppendFrame, At, Yield, PutNeverClobbers, TypeOK, TaskTypes
<1>13. ASSUME NEW s \in Streams, UploadPart(s) PROVE registry' = None
  BY <1>13
     DEF UploadPart, At, Stores, GivesUp, Yield, Go, PutNeverClobbers, TypeOK, TaskTypes
<1>14. ASSUME NEW s \in Streams, AppendSaved(s) PROVE registry' = None
  BY <1>14 DEF AppendSaved, At, Yield, PutNeverClobbers, TypeOK, TaskTypes
<1>15. ASSUME NEW s \in Streams, GracefulEnd(s) PROVE registry' = None
  BY <1>15 DEF GracefulEnd, At, Yield, Go, PutNeverClobbers, TypeOK, TaskTypes
<1>16. ASSUME NEW s \in Streams, StopCancelsTimer(s) PROVE registry' = None
  BY <1>16 DEF StopCancelsTimer, At, PutNeverClobbers, TypeOK, TaskTypes
<1>17. ASSUME NEW s \in Streams, BreakReading(s) PROVE registry' = None
  BY <1>17 DEF BreakReading, At, Go, PutNeverClobbers, TypeOK, TaskTypes
<1>18. ASSUME NEW s \in Streams, BreakMidCall(s) PROVE registry' = None
  BY <1>18 DEF BreakMidCall, PutNeverClobbers, TypeOK, TaskTypes
<1>19. ASSUME NEW s \in Streams, Drop(s) PROVE registry' = None
  BY <1>19 DEF Drop, At, Yield, PutNeverClobbers, TypeOK, TaskTypes
<1>20. ASSUME NEW s \in Streams, GraceWait(s) PROVE registry' = None
  BY <1>20 DEF GraceWait, At, Yield, PutNeverClobbers, TypeOK, TaskTypes
<1>21. ASSUME NEW s \in Streams, ArmTimer(s) PROVE registry' = None
  BY <1>21 DEF ArmTimer, At, PutNeverClobbers, TypeOK, TaskTypes
<1>22. ASSUME NEW s \in Streams, TimerFires(s) PROVE registry' = None
  BY <1>22 DEF TimerFires, At, Yield, PutNeverClobbers, TypeOK, TaskTypes
<1>23. ASSUME NEW s \in Streams, Claim(s) PROVE registry' = None
  BY <1>23 DEF Claim, At, Go, Yield, PutNeverClobbers, TypeOK, TaskTypes
<1>24. ASSUME NEW t \in Finalizers, BeginFinalize(t) PROVE registry' = None
  BY <1>24 DEF BeginFinalize, At, Yield, PutNeverClobbers, TypeOK, TaskTypes
<1>25. ASSUME NEW t \in Finalizers, SkipFinalize(t) PROVE registry' = None
  BY <1>25 DEF SkipFinalize, At, Yield, PutNeverClobbers, TypeOK, TaskTypes
<1>26. ASSUME NEW t \in Finalizers, TakeBuffer(t) PROVE registry' = None
  BY <1>26 DEF TakeBuffer, At, Yield, PutNeverClobbers, TypeOK, TaskTypes
<1>27. ASSUME NEW t \in Finalizers, FlushBuffer(t) PROVE registry' = None
  BY <1>27 DEF FlushBuffer, At, Stores, GivesUp, Yield, PutNeverClobbers, TypeOK, TaskTypes
<1>28. ASSUME NEW t \in Finalizers, PopAndReport(t) PROVE registry' = None
  BY <1>28 DEF PopAndReport, At, Yield, PutNeverClobbers, TypeOK, TaskTypes
<1>29. ASSUME NEW t \in Finalizers \cup {Reconciler}, CompleteOrAbort(t)
       PROVE registry' = None
  BY <1>29 DEF CompleteOrAbort, At, Yield, PutNeverClobbers, TypeOK, TaskTypes
<1>30. ASSUME NEW t \in Tasks, WriteLands(t) PROVE registry' = None
  BY <1>30 DEF WriteLands, PutNeverClobbers, localVars, TypeOK, TaskTypes
<1>31. ASSUME NEW t \in Tasks, Report(t) PROVE registry' = None
  BY <1>31 DEF Report, At, Yield, PutNeverClobbers, TypeOK, TaskTypes
<1>32. ASSUME NEW t \in Tasks, Acked(t) PROVE registry' = None
  BY <1>32 DEF Acked, At, Saved, Finished, Yield, PutNeverClobbers, TypeOK, TaskTypes
<1>33. ASSUME NEW t \in Tasks, Unacked(t) PROVE registry' = None
  BY <1>33 DEF Unacked, At, Finished, Yield, PutNeverClobbers, TypeOK, TaskTypes
<1>34. ASSUME NEW t \in Tasks, Deleted(t) PROVE registry' = None
  BY <1>34 DEF Deleted, At, Finished, Yield, PutNeverClobbers, TypeOK, TaskTypes
<1>35. ASSUME ListUnfinished PROVE registry' = None
  BY <1>35 DEF ListUnfinished, At, Finished, Yield, PutNeverClobbers, TypeOK, TaskTypes
<1>36. ASSUME SkipLive PROVE registry' = None
  BY <1>36 DEF SkipLive, At, Finished, Yield, PutNeverClobbers, TypeOK, TaskTypes
<1>37. ASSUME Recover PROVE registry' = None
  BY <1>37 DEF Recover, At, Yield, PutNeverClobbers, TypeOK, TaskTypes
<1>38. ASSUME RecoveredSaved PROVE registry' = None
  BY <1>38 DEF RecoveredSaved, At, Yield, PutNeverClobbers, TypeOK, TaskTypes
<1>39. ASSUME Crash PROVE registry' = None
  BY <1>39 DEF Crash, PutNeverClobbers, TypeOK, TaskTypes
<1>u. CASE UNCHANGED vars
  BY <1>u DEF PutNeverClobbers, vars, localVars
<1> QED
  BY <1>1, <1>2, <1>3, <1>4, <1>5, <1>6, <1>7, <1>8, <1>9, <1>10, <1>11, <1>12, <1>13,
     <1>14, <1>15, <1>16, <1>17, <1>18, <1>19, <1>20, <1>21, <1>22, <1>23, <1>24, <1>25,
     <1>26, <1>27, <1>28, <1>29, <1>30, <1>31, <1>32, <1>33, <1>34, <1>35, <1>36, <1>37,
     <1>38, <1>39, <1>u
     DEF Next, StartStep, AppendStep, StopStep, FinalizeStep, ReportStep, ReconcilerStep

\* Two starts never open two uploads over each other: whoever opens one finds no
\* session registered, however the other handlers, timers and ends are interleaved.
THEOREM PutNeverClobbersAlways == Spec => []PutNeverClobbers
<1>1. Init => Inv /\ PutNeverClobbers
  BY InvInit, TaskFacts DEF Init, PutNeverClobbers
<1>2. (Inv /\ PutNeverClobbers) /\ [Next]_vars => (Inv /\ PutNeverClobbers)'
  BY InvStep, PutStep
<1> QED
  BY <1>1, <1>2, PTL DEF Spec

--------------------------------------------------------------------------------
(* recording.completed is true: why a document that says "completed", in memory, on   *)
(* disk or on its way there, is about an upload S3 has completed                      *)

\* A session document that says "completed" is about an upload S3 has completed.
Backed(x, uploads) ==
    x.status = "completed" => x.upload \in Streams /\ uploads[x.upload] = "completed"

SessionsBacked == \A u \in Streams \cup {None} : Backed(sess[u], upload)
FilesBacked == Backed(file, upload) /\ \A t \in Tasks : \A doc \in write[t] : Backed(doc, upload)

ReportsBacked ==
    \A t \in Tasks : pc[t] = "report" /\ event[t] = "completed" =>
        sess[me[t]].upload \in Streams /\ upload[sess[me[t]].upload] = "completed"

OwnUpload == \A u \in Streams : sess[u].upload \in {u, None}

FreshUpload ==
    \A s \in Streams :
        pc[Conn(s)] \in {"idle", "enter", "resume", "create"} => upload[s] = "none"

Roles ==
    /\ me[Reconciler] = None
    /\ \A s \in Streams : event[Started(s)] = "started"
    /\ \A t \in Tasks \ {Reconciler} : pc[t] = "report" => me[t] \in Streams

\* CompletedIsTrue alone is not inductive: what is told comes from the documents.
TruthInv ==
    /\ SessionsBacked /\ FilesBacked /\ ReportsBacked /\ OwnUpload /\ FreshUpload /\ Roles
    /\ CompletedIsTrue

\* A step that reopens or forgets no completed upload, and opens none.
StaysCompleted == \A u \in Streams : upload[u] = "completed" => upload'[u] = "completed"
StaysFresh == \A s \in Streams : upload[s] = "none" => upload'[s] = "none"

\* What S3 and the orchestrator may see of a call that ends: only open uploads close,
\* and only what is backed is told.
LEMMA CallFacts ==
    ASSUME Inv, TruthInv
    PROVE  /\ \A x \in Session : Closes(x) => StaysCompleted /\ StaysFresh
           /\ \A t \in Tasks : Tell(t) /\ pc[t] = "report" /\ StaysCompleted => CompletedIsTrue'
           /\ \A t \in Tasks : CallOutlives(t) /\ pc[t] # "create" => StaysCompleted /\ StaysFresh
           /\ \A t \in Tasks : CallOutlives(t) => StaysCompleted /\ CompletedIsTrue'
           /\ \A t \in Tasks : CallOutlives(t) =>
                \A s \in Streams : t # Conn(s) /\ upload[s] = "none" => upload'[s] = "none"
<1>1. ASSUME NEW x \in Session, Closes(x) PROVE StaysCompleted /\ StaysFresh
  BY <1>1 DEF Closes, StaysCompleted, StaysFresh, Inv, TypeOK, WorldTypes
<1>2. ASSUME NEW t \in Tasks, Tell(t), pc[t] = "report", StaysCompleted
      PROVE CompletedIsTrue'
  <2> DEFINE w == sess[me[t]].upload
  <2> DEFINE e == event[t]
  <2>1. e = "completed" => w \in Streams /\ upload[w] = "completed"
    BY <1>2 DEF TruthInv, ReportsBacked
  <2>2. told' = [told EXCEPT ![w] = @ \cup {e}] /\ told \in [Streams -> SUBSET Events]
    BY <1>2 DEF Tell, Inv, TypeOK, WorldTypes
  <2> HIDE DEF w, e
  <2>3. ASSUME NEW u \in Streams, "completed" \in told'[u] PROVE upload'[u] = "completed"
    <3>1. "completed" \in told[u] \/ (u = w /\ e = "completed")
      BY <2>2, <2>3
    <3> QED
      BY <1>2, <2>1, <3>1 DEF TruthInv, CompletedIsTrue, StaysCompleted
  <2> QED
    BY <2>3 DEF CompletedIsTrue
<1>3. ASSUME NEW t \in Tasks, CallOutlives(t)
      PROVE  /\ StaysCompleted /\ CompletedIsTrue'
             /\ pc[t] # "create" => StaysFresh
             /\ \A s \in Streams : t # Conn(s) /\ upload[s] = "none" => upload'[s] = "none"
  <2>1. CASE UNCHANGED <<s3Vars, told>>
    BY <2>1 DEF s3Vars, StaysCompleted, StaysFresh, TruthInv, CompletedIsTrue
  <2>2. CASE /\ pc[t] = "create"
             /\ \E s \in Streams : t = Conn(s) /\ upload' = [upload EXCEPT ![s] = "open"]
             /\ UNCHANGED <<object, told>>
    <3>1. PICK s \in Streams : t = Conn(s) /\ upload' = [upload EXCEPT ![s] = "open"]
      BY <2>2
    <3>2. upload[s] = "none"
      BY <2>2, <3>1 DEF TruthInv, FreshUpload
    <3>3. StaysCompleted
      BY <3>1, <3>2 DEF StaysCompleted, Inv, TypeOK, WorldTypes
    <3> QED
      BY <2>2, <3>1, <3>3
         DEF StaysCompleted, TruthInv, CompletedIsTrue, Inv, TypeOK, WorldTypes
  <2>3. CASE pc[t] = "complete" /\ Closes(sess[me[t]]) /\ UNCHANGED told
    <3>1. sess[me[t]] \in Session
      BY DEF Inv, TypeOK, TaskTypes, MemoryTypes
    <3> QED
      BY <1>1, <2>3, <3>1 DEF StaysCompleted, StaysFresh, TruthInv, CompletedIsTrue
  <2>4. CASE pc[t] = "report" /\ Tell(t) /\ UNCHANGED s3Vars
    BY <1>2, <2>4 DEF s3Vars, StaysCompleted, StaysFresh
  <2> QED
    BY <1>3, <2>1, <2>2, <2>3, <2>4 DEF CallOutlives
<1> QED
  BY <1>1, <1>2, <1>3

\* A completed upload stays completed.
LEMMA CompletedStays ==
    ASSUME Inv, TruthInv, Next
    PROVE  StaysCompleted
<1> USE TaskFacts, CallFacts
<1>1. ASSUME NEW s \in Streams, OpenStream(s) PROVE StaysCompleted
  BY <1>1 DEF OpenStream, StaysCompleted, s3Vars, Cancelled
<1>2. ASSUME NEW s \in Streams, LookUp(s) PROVE StaysCompleted
  BY <1>2 DEF LookUp, StaysCompleted, s3Vars, Cancelled
<1>3. ASSUME NEW s \in Streams, ResumeCancelsTimer(s) PROVE StaysCompleted
  <2>1. me[Conn(s)] \in Streams /\ graceTask[me[Conn(s)]] \in Streams
    BY <1>3 DEF ResumeCancelsTimer, Holds, Inv, TypeOK, MemoryTypes
  <2>2. Cancelled(Grace(graceTask[me[Conn(s)]])) /\ Grace(graceTask[me[Conn(s)]]) \in Tasks
    BY <1>3, <2>1 DEF ResumeCancelsTimer
  <2> QED
    BY <2>2 DEF Cancelled
<1>4. ASSUME NEW s \in Streams, Resume(s) PROVE StaysCompleted
  BY <1>4 DEF Resume, StaysCompleted, s3Vars, Cancelled
<1>5. ASSUME NEW s \in Streams, Resumed(s) PROVE StaysCompleted
  BY <1>5 DEF Resumed, StaysCompleted, s3Vars, Cancelled
<1>6. ASSUME NEW s \in Streams, Reuse(s) PROVE StaysCompleted
  BY <1>6 DEF Reuse, StaysCompleted, s3Vars, Cancelled
<1>7. ASSUME NEW s \in Streams, DropStale(s) PROVE StaysCompleted
  BY <1>7 DEF DropStale, StaysCompleted, s3Vars, Cancelled
<1>8. ASSUME NEW s \in Streams, CreateUpload(s) PROVE StaysCompleted
  BY <1>8
     DEF CreateUpload, At, StaysCompleted, s3Vars, Cancelled, TruthInv, FreshUpload, Inv,
         TypeOK, WorldTypes
<1>9. ASSUME NEW s \in Streams, CreateFails(s) PROVE StaysCompleted
  BY <1>9 DEF CreateFails, StaysCompleted, s3Vars, Cancelled
<1>10. ASSUME NEW s \in Streams, Created(s) PROVE StaysCompleted
  BY <1>10 DEF Created, StaysCompleted, s3Vars, Cancelled
<1>11. ASSUME NEW s \in Streams, RecvAudio(s) PROVE StaysCompleted
  BY <1>11 DEF RecvAudio, StaysCompleted, s3Vars, Cancelled
<1>12. ASSUME NEW s \in Streams, AppendFrame(s) PROVE StaysCompleted
  BY <1>12 DEF AppendFrame, StaysCompleted, s3Vars, Cancelled
<1>13. ASSUME NEW s \in Streams, UploadPart(s) PROVE StaysCompleted
  BY <1>13 DEF UploadPart, Stores, GivesUp, StaysCompleted, s3Vars, Cancelled
<1>14. ASSUME NEW s \in Streams, AppendSaved(s) PROVE StaysCompleted
  BY <1>14 DEF AppendSaved, StaysCompleted, s3Vars, Cancelled
<1>15. ASSUME NEW s \in Streams, GracefulEnd(s) PROVE StaysCompleted
  BY <1>15 DEF GracefulEnd, StaysCompleted, s3Vars, Cancelled
<1>16. ASSUME NEW s \in Streams, StopCancelsTimer(s) PROVE StaysCompleted
  <2>1. me[Conn(s)] \in Streams /\ graceTask[me[Conn(s)]] \in Streams
    BY <1>16 DEF StopCancelsTimer, At, Inv, CancelInv
  <2>2. Cancelled(Grace(graceTask[me[Conn(s)]])) /\ Grace(graceTask[me[Conn(s)]]) \in Tasks
    BY <1>16, <2>1 DEF StopCancelsTimer
  <2> QED
    BY <2>2 DEF Cancelled
<1>17. ASSUME NEW s \in Streams, BreakReading(s) PROVE StaysCompleted
  BY <1>17 DEF BreakReading, StaysCompleted, s3Vars, Cancelled
<1>18. ASSUME NEW s \in Streams, BreakMidCall(s) PROVE StaysCompleted
  BY <1>18 DEF BreakMidCall, Cancelled, StaysCompleted, s3Vars
<1>19. ASSUME NEW s \in Streams, Drop(s) PROVE StaysCompleted
  BY <1>19 DEF Drop, StaysCompleted, s3Vars, Cancelled
<1>20. ASSUME NEW s \in Streams, GraceWait(s) PROVE StaysCompleted
  BY <1>20 DEF GraceWait, StaysCompleted, s3Vars, Cancelled
<1>21. ASSUME NEW s \in Streams, ArmTimer(s) PROVE StaysCompleted
  BY <1>21 DEF ArmTimer, StaysCompleted, s3Vars, Cancelled
<1>22. ASSUME NEW s \in Streams, TimerFires(s) PROVE StaysCompleted
  BY <1>22 DEF TimerFires, StaysCompleted, s3Vars, Cancelled
<1>23. ASSUME NEW s \in Streams, Claim(s) PROVE StaysCompleted
  BY <1>23 DEF Claim, StaysCompleted, s3Vars, Cancelled
<1>24. ASSUME NEW t \in Finalizers, BeginFinalize(t) PROVE StaysCompleted
  BY <1>24 DEF BeginFinalize, StaysCompleted, s3Vars, Cancelled
<1>25. ASSUME NEW t \in Finalizers, SkipFinalize(t) PROVE StaysCompleted
  BY <1>25 DEF SkipFinalize, StaysCompleted, s3Vars, Cancelled
<1>26. ASSUME NEW t \in Finalizers, TakeBuffer(t) PROVE StaysCompleted
  BY <1>26 DEF TakeBuffer, StaysCompleted, s3Vars, Cancelled
<1>27. ASSUME NEW t \in Finalizers, FlushBuffer(t) PROVE StaysCompleted
  BY <1>27 DEF FlushBuffer, Stores, GivesUp, StaysCompleted, s3Vars, Cancelled
<1>28. ASSUME NEW t \in Finalizers, PopAndReport(t) PROVE StaysCompleted
  BY <1>28 DEF PopAndReport, StaysCompleted, s3Vars, Cancelled
<1>29. ASSUME NEW t \in Finalizers \cup {Reconciler}, CompleteOrAbort(t)
       PROVE StaysCompleted
  BY <1>29
     DEF CompleteOrAbort, StaysCompleted, s3Vars, Cancelled, MemoryTypes, TaskTypes, TypeOK,
         Inv
<1>30. ASSUME NEW t \in Tasks, WriteLands(t) PROVE StaysCompleted
  BY <1>30 DEF WriteLands, StaysCompleted, s3Vars, Cancelled, localVars
<1>31. ASSUME NEW t \in Tasks, Report(t) PROVE StaysCompleted
  BY <1>31 DEF Report, StaysCompleted, s3Vars, Cancelled
<1>32. ASSUME NEW t \in Tasks, Acked(t) PROVE StaysCompleted
  BY <1>32 DEF Acked, StaysCompleted, s3Vars, Cancelled
<1>33. ASSUME NEW t \in Tasks, Unacked(t) PROVE StaysCompleted
  BY <1>33 DEF Unacked, StaysCompleted, s3Vars, Cancelled
<1>34. ASSUME NEW t \in Tasks, Deleted(t) PROVE StaysCompleted
  BY <1>34 DEF Deleted, StaysCompleted, s3Vars, Cancelled
<1>35. ASSUME ListUnfinished PROVE StaysCompleted
  BY <1>35 DEF ListUnfinished, StaysCompleted, s3Vars, Cancelled
<1>36. ASSUME SkipLive PROVE StaysCompleted
  BY <1>36 DEF SkipLive, StaysCompleted, s3Vars, Cancelled
<1>37. ASSUME Recover PROVE StaysCompleted
  BY <1>37 DEF Recover, StaysCompleted, s3Vars, Cancelled
<1>38. ASSUME RecoveredSaved PROVE StaysCompleted
  BY <1>38 DEF RecoveredSaved, StaysCompleted, s3Vars, Cancelled
<1>39. ASSUME Crash PROVE StaysCompleted
  BY <1>39 DEF Crash, StaysCompleted, s3Vars, Cancelled
<1> QED
  BY <1>1, <1>2, <1>3, <1>4, <1>5, <1>6, <1>7, <1>8, <1>9, <1>10, <1>11, <1>12, <1>13,
     <1>14, <1>15, <1>16, <1>17, <1>18, <1>19, <1>20, <1>21, <1>22, <1>23, <1>24, <1>25,
     <1>26, <1>27, <1>28, <1>29, <1>30, <1>31, <1>32, <1>33, <1>34, <1>35, <1>36, <1>37,
     <1>38, <1>39
     DEF Next, StartStep, AppendStep, StopStep, FinalizeStep, ReportStep, ReconcilerStep

\* A stream that has not opened its upload yet has none.
LEMMA FreshStep ==
    ASSUME Inv, TruthInv, Next
    PROVE  FreshUpload'
<1> SUFFICES ASSUME NEW c \in Streams,
                    pc'[Conn(c)] \in {"idle", "enter", "resume", "create"}
             PROVE  upload'[c] = "none"
  BY DEF FreshUpload
<1> USE TaskFacts, CallFacts, AcquireMoves DEF Inv
<1>1. ASSUME NEW s \in Streams, OpenStream(s) PROVE upload'[c] = "none"
  BY <1>1
     DEF OpenStream, StaysFresh, s3Vars, Cancelled, TruthInv, FreshUpload, TypeOK, TaskTypes
<1>2. ASSUME NEW s \in Streams, LookUp(s) PROVE upload'[c] = "none"
  BY <1>2
     DEF LookUp, At, Yield, StaysFresh, s3Vars, Cancelled, TruthInv, FreshUpload, TypeOK,
         TaskTypes
<1>3. ASSUME NEW s \in Streams, ResumeCancelsTimer(s) PROVE upload'[c] = "none"
  <2>1. me[Conn(s)] \in Streams /\ graceTask[me[Conn(s)]] \in Streams
    BY <1>3 DEF ResumeCancelsTimer, Holds, Inv, TypeOK, MemoryTypes
  <2>2. Cancelled(Grace(graceTask[me[Conn(s)]])) /\ Grace(graceTask[me[Conn(s)]]) \in Tasks
    BY <1>3, <2>1 DEF ResumeCancelsTimer
  <2> QED
    <3>1. Grace(graceTask[me[Conn(s)]]) # Conn(c)
      BY <2>1
    <3>2. pc[Conn(c)] \in {"idle", "enter", "resume", "create"}
      BY <1>3, <2>1 DEF ResumeCancelsTimer, TypeOK, TaskTypes
    <3> QED
      BY <2>2, <3>1, <3>2 DEF Cancelled, TruthInv, FreshUpload
<1>4. ASSUME NEW s \in Streams, Resume(s) PROVE upload'[c] = "none"
  BY <1>4
     DEF Resume, At, Yield, StaysFresh, s3Vars, Cancelled, TruthInv, FreshUpload, TypeOK,
         TaskTypes
<1>5. ASSUME NEW s \in Streams, Resumed(s) PROVE upload'[c] = "none"
  BY <1>5
     DEF Resumed, At, Yield, StaysFresh, s3Vars, Cancelled, TruthInv, FreshUpload, TypeOK,
         TaskTypes
<1>6. ASSUME NEW s \in Streams, Reuse(s) PROVE upload'[c] = "none"
  BY <1>6
     DEF Reuse, At, Yield, StaysFresh, s3Vars, Cancelled, TruthInv, FreshUpload, TypeOK,
         TaskTypes
<1>7. ASSUME NEW s \in Streams, DropStale(s) PROVE upload'[c] = "none"
  BY <1>7
     DEF DropStale, At, Yield, StaysFresh, s3Vars, Cancelled, TruthInv, FreshUpload, TypeOK,
         TaskTypes
<1>8. ASSUME NEW s \in Streams, CreateUpload(s) PROVE upload'[c] = "none"
  BY <1>8
     DEF CreateUpload, At, NewSession, Yield, StaysFresh, s3Vars, Cancelled, TruthInv,
         FreshUpload, TypeOK, TaskTypes
<1>9. ASSUME NEW s \in Streams, CreateFails(s) PROVE upload'[c] = "none"
  BY <1>9
     DEF CreateFails, At, Yield, StaysFresh, s3Vars, Cancelled, TruthInv, FreshUpload,
         TypeOK, TaskTypes
<1>10. ASSUME NEW s \in Streams, Created(s) PROVE upload'[c] = "none"
  BY <1>10
     DEF Created, At, StaysFresh, s3Vars, Cancelled, TruthInv, FreshUpload, TypeOK,
         TaskTypes
<1>11. ASSUME NEW s \in Streams, RecvAudio(s) PROVE upload'[c] = "none"
  BY <1>11
     DEF RecvAudio, At, Yield, StaysFresh, s3Vars, Cancelled, TruthInv, FreshUpload, TypeOK,
         TaskTypes
<1>12. ASSUME NEW s \in Streams, AppendFrame(s) PROVE upload'[c] = "none"
  BY <1>12
     DEF AppendFrame, At, Yield, StaysFresh, s3Vars, Cancelled, TruthInv, FreshUpload,
         TypeOK, TaskTypes
<1>13. ASSUME NEW s \in Streams, UploadPart(s) PROVE upload'[c] = "none"
  BY <1>13
     DEF UploadPart, At, Stores, GivesUp, Yield, Go, StaysFresh, s3Vars, Cancelled,
         TruthInv, FreshUpload, TypeOK, TaskTypes
<1>14. ASSUME NEW s \in Streams, AppendSaved(s) PROVE upload'[c] = "none"
  BY <1>14
     DEF AppendSaved, At, Yield, StaysFresh, s3Vars, Cancelled, TruthInv, FreshUpload,
         TypeOK, TaskTypes
<1>15. ASSUME NEW s \in Streams, GracefulEnd(s) PROVE upload'[c] = "none"
  BY <1>15
     DEF GracefulEnd, At, Yield, Go, StaysFresh, s3Vars, Cancelled, TruthInv, FreshUpload,
         TypeOK, TaskTypes
<1>16. ASSUME NEW s \in Streams, StopCancelsTimer(s) PROVE upload'[c] = "none"
  <2>1. me[Conn(s)] \in Streams /\ graceTask[me[Conn(s)]] \in Streams
    BY <1>16 DEF StopCancelsTimer, At, Inv, CancelInv
  <2>2. Cancelled(Grace(graceTask[me[Conn(s)]])) /\ Grace(graceTask[me[Conn(s)]]) \in Tasks
    BY <1>16, <2>1 DEF StopCancelsTimer
  <2> QED
    <3>1. Grace(graceTask[me[Conn(s)]]) # Conn(c)
      BY <2>1
    <3>2. pc[Conn(c)] \in {"idle", "enter", "resume", "create"}
      BY <1>16, <2>1 DEF StopCancelsTimer, TypeOK, TaskTypes
    <3> QED
      BY <2>2, <3>1, <3>2 DEF Cancelled, TruthInv, FreshUpload
<1>17. ASSUME NEW s \in Streams, BreakReading(s) PROVE upload'[c] = "none"
  BY <1>17
     DEF BreakReading, At, Go, StaysFresh, s3Vars, Cancelled, TruthInv, FreshUpload, TypeOK,
         TaskTypes
<1>18. ASSUME NEW s \in Streams, BreakMidCall(s) PROVE upload'[c] = "none"
  BY <1>18
     DEF BreakMidCall, Cancelled, StaysFresh, s3Vars, TruthInv, FreshUpload, TypeOK,
         TaskTypes
<1>19. ASSUME NEW s \in Streams, Drop(s) PROVE upload'[c] = "none"
  BY <1>19
     DEF Drop, At, Yield, StaysFresh, s3Vars, Cancelled, TruthInv, FreshUpload, TypeOK,
         TaskTypes
<1>20. ASSUME NEW s \in Streams, GraceWait(s) PROVE upload'[c] = "none"
  BY <1>20
     DEF GraceWait, At, Yield, StaysFresh, s3Vars, Cancelled, TruthInv, FreshUpload, TypeOK,
         TaskTypes
<1>21. ASSUME NEW s \in Streams, ArmTimer(s) PROVE upload'[c] = "none"
  BY <1>21
     DEF ArmTimer, At, StaysFresh, s3Vars, Cancelled, TruthInv, FreshUpload, TypeOK,
         TaskTypes
<1>22. ASSUME NEW s \in Streams, TimerFires(s) PROVE upload'[c] = "none"
  BY <1>22
     DEF TimerFires, At, Yield, StaysFresh, s3Vars, Cancelled, TruthInv, FreshUpload,
         TypeOK, TaskTypes
<1>23. ASSUME NEW s \in Streams, Claim(s) PROVE upload'[c] = "none"
  BY <1>23
     DEF Claim, At, Go, Yield, StaysFresh, s3Vars, Cancelled, TruthInv, FreshUpload, TypeOK,
         TaskTypes
<1>24. ASSUME NEW t \in Finalizers, BeginFinalize(t) PROVE upload'[c] = "none"
  BY <1>24
     DEF BeginFinalize, At, Yield, StaysFresh, s3Vars, Cancelled, TruthInv, FreshUpload,
         TypeOK, TaskTypes
<1>25. ASSUME NEW t \in Finalizers, SkipFinalize(t) PROVE upload'[c] = "none"
  BY <1>25
     DEF SkipFinalize, At, Yield, StaysFresh, s3Vars, Cancelled, TruthInv, FreshUpload,
         TypeOK, TaskTypes
<1>26. ASSUME NEW t \in Finalizers, TakeBuffer(t) PROVE upload'[c] = "none"
  BY <1>26
     DEF TakeBuffer, At, Yield, StaysFresh, s3Vars, Cancelled, TruthInv, FreshUpload,
         TypeOK, TaskTypes
<1>27. ASSUME NEW t \in Finalizers, FlushBuffer(t) PROVE upload'[c] = "none"
  BY <1>27
     DEF FlushBuffer, At, Stores, GivesUp, Yield, StaysFresh, s3Vars, Cancelled, TruthInv,
         FreshUpload, TypeOK, TaskTypes
<1>28. ASSUME NEW t \in Finalizers, PopAndReport(t) PROVE upload'[c] = "none"
  BY <1>28
     DEF PopAndReport, At, Yield, StaysFresh, s3Vars, Cancelled, TruthInv, FreshUpload,
         TypeOK, TaskTypes
<1>29. ASSUME NEW t \in Finalizers \cup {Reconciler}, CompleteOrAbort(t)
       PROVE upload'[c] = "none"
  <2>1. pc[Conn(c)] \in {"idle", "enter", "resume", "create"}
    BY <1>29 DEF CompleteOrAbort, Yield, At, TypeOK, TaskTypes
  <2>2. sess[me[t]] \in Session
    BY DEF TypeOK, TaskTypes, MemoryTypes
  <2> QED
    BY <1>29, <2>1, <2>2 DEF CompleteOrAbort, s3Vars, StaysFresh, TruthInv, FreshUpload
<1>30. ASSUME NEW t \in Tasks, WriteLands(t) PROVE upload'[c] = "none"
  BY <1>30
     DEF WriteLands, StaysFresh, s3Vars, Cancelled, TruthInv, FreshUpload, TypeOK,
         TaskTypes, localVars
<1>31. ASSUME NEW t \in Tasks, Report(t) PROVE upload'[c] = "none"
  BY <1>31
     DEF Report, At, Yield, StaysFresh, s3Vars, Cancelled, TruthInv, FreshUpload, TypeOK,
         TaskTypes
<1>32. ASSUME NEW t \in Tasks, Acked(t) PROVE upload'[c] = "none"
  BY <1>32
     DEF Acked, At, Saved, Finished, Yield, StaysFresh, s3Vars, Cancelled, TruthInv,
         FreshUpload, TypeOK, TaskTypes
<1>33. ASSUME NEW t \in Tasks, Unacked(t) PROVE upload'[c] = "none"
  BY <1>33
     DEF Unacked, At, Finished, Yield, StaysFresh, s3Vars, Cancelled, TruthInv, FreshUpload,
         TypeOK, TaskTypes
<1>34. ASSUME NEW t \in Tasks, Deleted(t) PROVE upload'[c] = "none"
  BY <1>34
     DEF Deleted, At, Finished, Yield, StaysFresh, s3Vars, Cancelled, TruthInv, FreshUpload,
         TypeOK, TaskTypes
<1>35. ASSUME ListUnfinished PROVE upload'[c] = "none"
  BY <1>35
     DEF ListUnfinished, At, Finished, Yield, StaysFresh, s3Vars, Cancelled, TruthInv,
         FreshUpload, TypeOK, TaskTypes
<1>36. ASSUME SkipLive PROVE upload'[c] = "none"
  BY <1>36
     DEF SkipLive, At, Finished, Yield, StaysFresh, s3Vars, Cancelled, TruthInv,
         FreshUpload, TypeOK, TaskTypes
<1>37. ASSUME Recover PROVE upload'[c] = "none"
  BY <1>37
     DEF Recover, At, Yield, StaysFresh, s3Vars, Cancelled, TruthInv, FreshUpload, TypeOK,
         TaskTypes
<1>38. ASSUME RecoveredSaved PROVE upload'[c] = "none"
  BY <1>38
     DEF RecoveredSaved, At, Yield, StaysFresh, s3Vars, Cancelled, TruthInv, FreshUpload,
         TypeOK, TaskTypes
<1>39. ASSUME Crash PROVE upload'[c] = "none"
  BY <1>39
     DEF Crash, StaysFresh, s3Vars, Cancelled, TruthInv, FreshUpload, TypeOK, TaskTypes
<1> QED
  BY <1>1, <1>2, <1>3, <1>4, <1>5, <1>6, <1>7, <1>8, <1>9, <1>10, <1>11, <1>12, <1>13,
     <1>14, <1>15, <1>16, <1>17, <1>18, <1>19, <1>20, <1>21, <1>22, <1>23, <1>24, <1>25,
     <1>26, <1>27, <1>28, <1>29, <1>30, <1>31, <1>32, <1>33, <1>34, <1>35, <1>36, <1>37,
     <1>38, <1>39
     DEF Next, StartStep, AppendStep, StopStep, FinalizeStep, ReportStep, ReconcilerStep

\* A part that is stored changes neither the upload a session is of nor its status.
LEMMA StoresKeepsUpload ==
    ASSUME TypeOK, NEW t \in Tasks, Stores(t), NEW o \in Streams \cup {None}
    PROVE  sess'[o].upload = sess[o].upload /\ sess'[o].status = sess[o].status
<1>1. me[t] \in Streams \cup {None} /\ sess[me[t]] \in Session
  BY DEF TypeOK, TaskTypes, MemoryTypes
<1> DEFINE n == sess[me[t]].stored + payload[t]
<1>2. sess' = [sess EXCEPT ![me[t]] = [sess[me[t]] EXCEPT !.stored = n]]
  BY DEF Stores
<1> HIDE DEF n
<1> QED
  BY <1>1, <1>2 DEF TypeOK, MemoryTypes, Session

\* A new status does not change what a session is of.
LEMMA StatusKeepsUpload ==
    ASSUME TypeOK, NEW t \in Tasks, NEW st,
           sess' = [sess EXCEPT ![me[t]].status = st], NEW o \in Streams \cup {None}
    PROVE  sess'[o].upload = sess[o].upload
<1>1. me[t] \in Streams \cup {None} /\ sess[me[t]] \in Session
  BY DEF TypeOK, TaskTypes, MemoryTypes
<1> QED
  BY <1>1 DEF TypeOK, MemoryTypes, Session

\* A session object is of the upload of the stream that opened it.
LEMMA OwnStep ==
    ASSUME Inv, TruthInv, Next
    PROVE  OwnUpload'
<1> SUFFICES ASSUME NEW o \in Streams PROVE sess'[o].upload \in {o, None}
  BY DEF OwnUpload
<1> USE TaskFacts, StreamsAssumption DEF Inv
<1>1. ASSUME NEW s \in Streams, OpenStream(s) PROVE sess'[o].upload \in {o, None}
  BY <1>1 DEF OpenStream, TruthInv, OwnUpload, memoryVars, TypeOK, MemoryTypes, TaskTypes
<1>2. ASSUME NEW s \in Streams, LookUp(s) PROVE sess'[o].upload \in {o, None}
  BY <1>2 DEF LookUp, TruthInv, OwnUpload, memoryVars, TypeOK, MemoryTypes, TaskTypes
<1>3. ASSUME NEW s \in Streams, ResumeCancelsTimer(s) PROVE sess'[o].upload \in {o, None}
  BY <1>3
     DEF ResumeCancelsTimer, Cancelled, TruthInv, OwnUpload, memoryVars, TypeOK,
         MemoryTypes, TaskTypes
<1>4. ASSUME NEW s \in Streams, Resume(s) PROVE sess'[o].upload \in {o, None}
  BY <1>4 DEF Resume, TruthInv, OwnUpload, memoryVars, TypeOK, MemoryTypes, TaskTypes
<1>5. ASSUME NEW s \in Streams, Resumed(s) PROVE sess'[o].upload \in {o, None}
  BY <1>5 DEF Resumed, TruthInv, OwnUpload, memoryVars, TypeOK, MemoryTypes, TaskTypes
<1>6. ASSUME NEW s \in Streams, Reuse(s) PROVE sess'[o].upload \in {o, None}
  BY <1>6 DEF Reuse, TruthInv, OwnUpload, memoryVars, TypeOK, MemoryTypes, TaskTypes
<1>7. ASSUME NEW s \in Streams, DropStale(s) PROVE sess'[o].upload \in {o, None}
  BY <1>7 DEF DropStale, TruthInv, OwnUpload, memoryVars, TypeOK, MemoryTypes, TaskTypes
<1>8. ASSUME NEW s \in Streams, CreateUpload(s) PROVE sess'[o].upload \in {o, None}
  BY <1>8
     DEF CreateUpload, NewSession, TruthInv, OwnUpload, memoryVars, TypeOK, MemoryTypes,
         TaskTypes
<1>9. ASSUME NEW s \in Streams, CreateFails(s) PROVE sess'[o].upload \in {o, None}
  BY <1>9 DEF CreateFails, TruthInv, OwnUpload, memoryVars, TypeOK, MemoryTypes, TaskTypes
<1>10. ASSUME NEW s \in Streams, Created(s) PROVE sess'[o].upload \in {o, None}
  BY <1>10 DEF Created, TruthInv, OwnUpload, memoryVars, TypeOK, MemoryTypes, TaskTypes
<1>11. ASSUME NEW s \in Streams, RecvAudio(s) PROVE sess'[o].upload \in {o, None}
  BY <1>11 DEF RecvAudio, TruthInv, OwnUpload, memoryVars, TypeOK, MemoryTypes, TaskTypes
<1>12. ASSUME NEW s \in Streams, AppendFrame(s) PROVE sess'[o].upload \in {o, None}
  BY <1>12 DEF AppendFrame, TruthInv, OwnUpload, memoryVars, TypeOK, MemoryTypes, TaskTypes
<1>13. ASSUME NEW s \in Streams, UploadPart(s) PROVE sess'[o].upload \in {o, None}
  <2>1. Stores(Conn(s)) \/ UNCHANGED sess
    BY <1>13 DEF UploadPart, GivesUp
  <2> QED
    BY <2>1, StoresKeepsUpload DEF TruthInv, OwnUpload
<1>14. ASSUME NEW s \in Streams, AppendSaved(s) PROVE sess'[o].upload \in {o, None}
  BY <1>14 DEF AppendSaved, TruthInv, OwnUpload, memoryVars, TypeOK, MemoryTypes, TaskTypes
<1>15. ASSUME NEW s \in Streams, GracefulEnd(s) PROVE sess'[o].upload \in {o, None}
  BY <1>15 DEF GracefulEnd, TruthInv, OwnUpload, memoryVars, TypeOK, MemoryTypes, TaskTypes
<1>16. ASSUME NEW s \in Streams, StopCancelsTimer(s) PROVE sess'[o].upload \in {o, None}
  BY <1>16
     DEF StopCancelsTimer, Cancelled, TruthInv, OwnUpload, memoryVars, TypeOK, MemoryTypes,
         TaskTypes
<1>17. ASSUME NEW s \in Streams, BreakReading(s) PROVE sess'[o].upload \in {o, None}
  BY <1>17 DEF BreakReading, TruthInv, OwnUpload, memoryVars, TypeOK, MemoryTypes, TaskTypes
<1>18. ASSUME NEW s \in Streams, BreakMidCall(s) PROVE sess'[o].upload \in {o, None}
  BY <1>18
     DEF BreakMidCall, Cancelled, TruthInv, OwnUpload, memoryVars, TypeOK, MemoryTypes,
         TaskTypes
<1>19. ASSUME NEW s \in Streams, Drop(s) PROVE sess'[o].upload \in {o, None}
  BY <1>19 DEF Drop, TruthInv, OwnUpload, memoryVars, TypeOK, MemoryTypes, TaskTypes
<1>20. ASSUME NEW s \in Streams, GraceWait(s) PROVE sess'[o].upload \in {o, None}
  BY <1>20 DEF GraceWait, TruthInv, OwnUpload, memoryVars, TypeOK, MemoryTypes, TaskTypes
<1>21. ASSUME NEW s \in Streams, ArmTimer(s) PROVE sess'[o].upload \in {o, None}
  BY <1>21 DEF ArmTimer, TruthInv, OwnUpload, memoryVars, TypeOK, MemoryTypes, TaskTypes
<1>22. ASSUME NEW s \in Streams, TimerFires(s) PROVE sess'[o].upload \in {o, None}
  BY <1>22 DEF TimerFires, TruthInv, OwnUpload, memoryVars, TypeOK, MemoryTypes, TaskTypes
<1>23. ASSUME NEW s \in Streams, Claim(s) PROVE sess'[o].upload \in {o, None}
  <2>1. UNCHANGED sess \/ \E st \in Statuses : sess' = [sess EXCEPT ![me[Grace(s)]].status = st]
    BY <1>23 DEF Claim, Statuses
  <2> QED
    BY <2>1, StatusKeepsUpload DEF TruthInv, OwnUpload
<1>24. ASSUME NEW t \in Finalizers, BeginFinalize(t) PROVE sess'[o].upload \in {o, None}
  BY <1>24
     DEF BeginFinalize, TruthInv, OwnUpload, memoryVars, TypeOK, MemoryTypes, TaskTypes
<1>25. ASSUME NEW t \in Finalizers, SkipFinalize(t) PROVE sess'[o].upload \in {o, None}
  BY <1>25 DEF SkipFinalize, TruthInv, OwnUpload, memoryVars, TypeOK, MemoryTypes, TaskTypes
<1>26. ASSUME NEW t \in Finalizers, TakeBuffer(t) PROVE sess'[o].upload \in {o, None}
  BY <1>26 DEF TakeBuffer, TruthInv, OwnUpload, memoryVars, TypeOK, MemoryTypes, TaskTypes
<1>27. ASSUME NEW t \in Finalizers, FlushBuffer(t) PROVE sess'[o].upload \in {o, None}
  <2>1. Stores(t) \/ UNCHANGED sess
    BY <1>27 DEF FlushBuffer, GivesUp
  <2> QED
    BY <2>1, StoresKeepsUpload DEF TruthInv, OwnUpload
<1>28. ASSUME NEW t \in Finalizers, PopAndReport(t) PROVE sess'[o].upload \in {o, None}
  BY <1>28 DEF PopAndReport, TruthInv, OwnUpload, memoryVars, TypeOK, MemoryTypes, TaskTypes
<1>29. ASSUME NEW t \in Finalizers \cup {Reconciler}, CompleteOrAbort(t)
       PROVE sess'[o].upload \in {o, None}
  <2>1. \E st \in Statuses : sess' = [sess EXCEPT ![me[t]].status = st]
    BY <1>29 DEF CompleteOrAbort, AfterError, Statuses
  <2> QED
    BY <2>1, StatusKeepsUpload DEF TruthInv, OwnUpload
<1>30. ASSUME NEW t \in Tasks, WriteLands(t) PROVE sess'[o].upload \in {o, None}
  BY <1>30
     DEF WriteLands, TruthInv, OwnUpload, memoryVars, TypeOK, MemoryTypes, TaskTypes,
         localVars
<1>31. ASSUME NEW t \in Tasks, Report(t) PROVE sess'[o].upload \in {o, None}
  BY <1>31 DEF Report, TruthInv, OwnUpload, memoryVars, TypeOK, MemoryTypes, TaskTypes
<1>32. ASSUME NEW t \in Tasks, Acked(t) PROVE sess'[o].upload \in {o, None}
  BY <1>32 DEF Acked, TruthInv, OwnUpload, memoryVars, TypeOK, MemoryTypes, TaskTypes
<1>33. ASSUME NEW t \in Tasks, Unacked(t) PROVE sess'[o].upload \in {o, None}
  BY <1>33 DEF Unacked, TruthInv, OwnUpload, memoryVars, TypeOK, MemoryTypes, TaskTypes
<1>34. ASSUME NEW t \in Tasks, Deleted(t) PROVE sess'[o].upload \in {o, None}
  BY <1>34 DEF Deleted, TruthInv, OwnUpload, memoryVars, TypeOK, MemoryTypes, TaskTypes
<1>35. ASSUME ListUnfinished PROVE sess'[o].upload \in {o, None}
  BY <1>35
     DEF ListUnfinished, TruthInv, OwnUpload, memoryVars, TypeOK, MemoryTypes, TaskTypes
<1>36. ASSUME SkipLive PROVE sess'[o].upload \in {o, None}
  BY <1>36 DEF SkipLive, TruthInv, OwnUpload, memoryVars, TypeOK, MemoryTypes, TaskTypes
<1>37. ASSUME Recover PROVE sess'[o].upload \in {o, None}
  BY <1>37 DEF Recover, TruthInv, OwnUpload, memoryVars, TypeOK, MemoryTypes, TaskTypes
<1>38. ASSUME RecoveredSaved PROVE sess'[o].upload \in {o, None}
  BY <1>38
     DEF RecoveredSaved, TruthInv, OwnUpload, memoryVars, TypeOK, MemoryTypes, TaskTypes
<1>39. ASSUME Crash PROVE sess'[o].upload \in {o, None}
  BY <1>39 DEF Crash, NoSession
<1> QED
  BY <1>1, <1>2, <1>3, <1>4, <1>5, <1>6, <1>7, <1>8, <1>9, <1>10, <1>11, <1>12, <1>13,
     <1>14, <1>15, <1>16, <1>17, <1>18, <1>19, <1>20, <1>21, <1>22, <1>23, <1>24, <1>25,
     <1>26, <1>27, <1>28, <1>29, <1>30, <1>31, <1>32, <1>33, <1>34, <1>35, <1>36, <1>37,
     <1>38, <1>39
     DEF Next, StartStep, AppendStep, StopStep, FinalizeStep, ReportStep, ReconcilerStep

\* The reconciler works on its own copy, every other reporter on a session in memory.
LEMMA RolesStep ==
    ASSUME Inv, TruthInv, Next
    PROVE  Roles'
<1> USE TaskFacts, AcquireMoves DEF Inv
<1>1. ASSUME NEW s \in Streams, OpenStream(s) PROVE Roles'
  BY <1>1 DEF OpenStream, TruthInv, Roles, localVars, TypeOK, TaskTypes
<1>2. ASSUME NEW s \in Streams, LookUp(s) PROVE Roles'
  BY <1>2 DEF LookUp, At, Yield, TruthInv, Roles, localVars, TypeOK, TaskTypes
<1>3. ASSUME NEW s \in Streams, ResumeCancelsTimer(s) PROVE Roles'
  BY <1>3
     DEF ResumeCancelsTimer, At, Cancelled, TruthInv, Roles, localVars, TypeOK, TaskTypes
<1>4. ASSUME NEW s \in Streams, Resume(s) PROVE Roles'
  BY <1>4 DEF Resume, At, Yield, TruthInv, Roles, localVars, TypeOK, TaskTypes
<1>5. ASSUME NEW s \in Streams, Resumed(s) PROVE Roles'
  BY <1>5 DEF Resumed, At, Yield, TruthInv, Roles, localVars, TypeOK, TaskTypes
<1>6. ASSUME NEW s \in Streams, Reuse(s) PROVE Roles'
  BY <1>6 DEF Reuse, At, Yield, TruthInv, Roles, localVars, TypeOK, TaskTypes
<1>7. ASSUME NEW s \in Streams, DropStale(s) PROVE Roles'
  BY <1>7 DEF DropStale, At, Yield, TruthInv, Roles, localVars, TypeOK, TaskTypes
<1>8. ASSUME NEW s \in Streams, CreateUpload(s) PROVE Roles'
  BY <1>8
     DEF CreateUpload, At, NewSession, Yield, TruthInv, Roles, localVars, TypeOK, TaskTypes
<1>9. ASSUME NEW s \in Streams, CreateFails(s) PROVE Roles'
  BY <1>9 DEF CreateFails, At, Yield, TruthInv, Roles, localVars, TypeOK, TaskTypes
<1>10. ASSUME NEW s \in Streams, Created(s) PROVE Roles'
  BY <1>10 DEF Created, At, TruthInv, Roles, localVars, TypeOK, TaskTypes
<1>11. ASSUME NEW s \in Streams, RecvAudio(s) PROVE Roles'
  BY <1>11 DEF RecvAudio, At, Yield, TruthInv, Roles, localVars, TypeOK, TaskTypes
<1>12. ASSUME NEW s \in Streams, AppendFrame(s) PROVE Roles'
  BY <1>12 DEF AppendFrame, At, Yield, TruthInv, Roles, localVars, TypeOK, TaskTypes
<1>13. ASSUME NEW s \in Streams, UploadPart(s) PROVE Roles'
  BY <1>13
     DEF UploadPart, At, Stores, GivesUp, Yield, Go, TruthInv, Roles, localVars, TypeOK,
         TaskTypes
<1>14. ASSUME NEW s \in Streams, AppendSaved(s) PROVE Roles'
  BY <1>14 DEF AppendSaved, At, Yield, TruthInv, Roles, localVars, TypeOK, TaskTypes
<1>15. ASSUME NEW s \in Streams, GracefulEnd(s) PROVE Roles'
  BY <1>15 DEF GracefulEnd, At, Yield, Go, TruthInv, Roles, localVars, TypeOK, TaskTypes
<1>16. ASSUME NEW s \in Streams, StopCancelsTimer(s) PROVE Roles'
  BY <1>16
     DEF StopCancelsTimer, At, Cancelled, TruthInv, Roles, localVars, TypeOK, TaskTypes
<1>17. ASSUME NEW s \in Streams, BreakReading(s) PROVE Roles'
  BY <1>17 DEF BreakReading, At, Go, TruthInv, Roles, localVars, TypeOK, TaskTypes
<1>18. ASSUME NEW s \in Streams, BreakMidCall(s) PROVE Roles'
  BY <1>18 DEF BreakMidCall, Cancelled, TruthInv, Roles, localVars, TypeOK, TaskTypes
<1>19. ASSUME NEW s \in Streams, Drop(s) PROVE Roles'
  BY <1>19 DEF Drop, At, Yield, TruthInv, Roles, localVars, TypeOK, TaskTypes
<1>20. ASSUME NEW s \in Streams, GraceWait(s) PROVE Roles'
  BY <1>20 DEF GraceWait, At, Yield, TruthInv, Roles, localVars, TypeOK, TaskTypes
<1>21. ASSUME NEW s \in Streams, ArmTimer(s) PROVE Roles'
  BY <1>21 DEF ArmTimer, At, TruthInv, Roles, localVars, TypeOK, TaskTypes
<1>22. ASSUME NEW s \in Streams, TimerFires(s) PROVE Roles'
  BY <1>22 DEF TimerFires, At, Yield, TruthInv, Roles, localVars, TypeOK, TaskTypes
<1>23. ASSUME NEW s \in Streams, Claim(s) PROVE Roles'
  BY <1>23 DEF Claim, At, Go, Yield, TruthInv, Roles, localVars, TypeOK, TaskTypes
<1>24. ASSUME NEW t \in Finalizers, BeginFinalize(t) PROVE Roles'
  BY <1>24 DEF BeginFinalize, At, Yield, TruthInv, Roles, localVars, TypeOK, TaskTypes
<1>25. ASSUME NEW t \in Finalizers, SkipFinalize(t) PROVE Roles'
  BY <1>25 DEF SkipFinalize, At, Yield, TruthInv, Roles, localVars, TypeOK, TaskTypes
<1>26. ASSUME NEW t \in Finalizers, TakeBuffer(t) PROVE Roles'
  BY <1>26 DEF TakeBuffer, At, Yield, TruthInv, Roles, localVars, TypeOK, TaskTypes
<1>27. ASSUME NEW t \in Finalizers, FlushBuffer(t) PROVE Roles'
  BY <1>27
     DEF FlushBuffer, At, Stores, GivesUp, Yield, TruthInv, Roles, localVars, TypeOK,
         TaskTypes
<1>28. ASSUME NEW t \in Finalizers, PopAndReport(t) PROVE Roles'
  <2>1. me[t] \in Streams
    BY <1>28 DEF PopAndReport, At, LockInv, HoldingPcs, Holds
  <2> QED
    BY <1>28, <2>1 DEF PopAndReport, Yield, TruthInv, Roles, TypeOK, TaskTypes
<1>29. ASSUME NEW t \in Finalizers \cup {Reconciler}, CompleteOrAbort(t) PROVE Roles'
  BY <1>29 DEF CompleteOrAbort, At, Yield, TruthInv, Roles, localVars, TypeOK, TaskTypes
<1>30. ASSUME NEW t \in Tasks, WriteLands(t) PROVE Roles'
  BY <1>30 DEF WriteLands, TruthInv, Roles, localVars, TypeOK, TaskTypes
<1>31. ASSUME NEW t \in Tasks, Report(t) PROVE Roles'
  BY <1>31 DEF Report, At, Yield, TruthInv, Roles, localVars, TypeOK, TaskTypes
<1>32. ASSUME NEW t \in Tasks, Acked(t) PROVE Roles'
  BY <1>32
     DEF Acked, At, Saved, Finished, Yield, TruthInv, Roles, localVars, TypeOK, TaskTypes
<1>33. ASSUME NEW t \in Tasks, Unacked(t) PROVE Roles'
  BY <1>33 DEF Unacked, At, Finished, Yield, TruthInv, Roles, localVars, TypeOK, TaskTypes
<1>34. ASSUME NEW t \in Tasks, Deleted(t) PROVE Roles'
  BY <1>34 DEF Deleted, At, Finished, Yield, TruthInv, Roles, localVars, TypeOK, TaskTypes
<1>35. ASSUME ListUnfinished PROVE Roles'
  BY <1>35
     DEF ListUnfinished, At, Finished, Yield, TruthInv, Roles, localVars, TypeOK, TaskTypes
<1>36. ASSUME SkipLive PROVE Roles'
  BY <1>36 DEF SkipLive, At, Finished, Yield, TruthInv, Roles, localVars, TypeOK, TaskTypes
<1>37. ASSUME Recover PROVE Roles'
  BY <1>37 DEF Recover, At, Yield, TruthInv, Roles, localVars, TypeOK, TaskTypes
<1>38. ASSUME RecoveredSaved PROVE Roles'
  BY <1>38 DEF RecoveredSaved, At, Yield, TruthInv, Roles, localVars, TypeOK, TaskTypes
<1>39. ASSUME Crash PROVE Roles'
  BY <1>39 DEF Crash, TruthInv, Roles, localVars, TypeOK, TaskTypes
<1> QED
  BY <1>1, <1>2, <1>3, <1>4, <1>5, <1>6, <1>7, <1>8, <1>9, <1>10, <1>11, <1>12, <1>13,
     <1>14, <1>15, <1>16, <1>17, <1>18, <1>19, <1>20, <1>21, <1>22, <1>23, <1>24, <1>25,
     <1>26, <1>27, <1>28, <1>29, <1>30, <1>31, <1>32, <1>33, <1>34, <1>35, <1>36, <1>37,
     <1>38, <1>39
     DEF Next, StartStep, AppendStep, StopStep, FinalizeStep, ReportStep, ReconcilerStep

\* Steps that leave the sessions alone, store a part, or give a status other than
\* "completed" keep every session backed.
LEMMA SessionFrames ==
    ASSUME Inv, TruthInv, StaysCompleted
    PROVE  /\ UNCHANGED sess => SessionsBacked'
           /\ \A t \in Tasks : Stores(t) => SessionsBacked'
           /\ \A t \in Tasks, st \in Statuses :
                st # "completed" /\ sess' = [sess EXCEPT ![me[t]].status = st]
                  => SessionsBacked'
<1>1. UNCHANGED sess => SessionsBacked'
  BY DEF TruthInv, SessionsBacked, Backed, StaysCompleted
<1>2. ASSUME NEW t \in Tasks, Stores(t) PROVE SessionsBacked'
  <2>1. \A o \in Streams \cup {None} :
          sess'[o].upload = sess[o].upload /\ sess'[o].status = sess[o].status
    BY <1>2, StoresKeepsUpload DEF Inv
  <2> QED
    BY <2>1 DEF TruthInv, SessionsBacked, Backed, StaysCompleted
<1>3. ASSUME NEW t \in Tasks, NEW st \in Statuses, st # "completed",
             sess' = [sess EXCEPT ![me[t]].status = st]
      PROVE  SessionsBacked'
  <2>1. sess[me[t]] \in Session /\ sess \in [Streams \cup {None} -> Session]
    BY DEF Inv, TypeOK, TaskTypes, MemoryTypes
  <2>2. ASSUME NEW o \in Streams \cup {None}, sess'[o].status = "completed"
        PROVE  sess'[o] = sess[o]
    BY <1>3, <2>1, <2>2 DEF Session
  <2> QED
    BY <2>2 DEF TruthInv, SessionsBacked, Backed, StaysCompleted
<1> QED
  BY <1>1, <1>2, <1>3

\* Every session object in memory stays backed.
LEMMA SessionsStep ==
    ASSUME Inv, TruthInv, Next
    PROVE  SessionsBacked'
<1>0. StaysCompleted
  BY CompletedStays
<1> USE <1>0, TaskFacts, SessionFrames
<1>1. ASSUME NEW s \in Streams, OpenStream(s) PROVE SessionsBacked'
  BY <1>1 DEF OpenStream, memoryVars
<1>2. ASSUME NEW s \in Streams, LookUp(s) PROVE SessionsBacked'
  BY <1>2 DEF LookUp, memoryVars
<1>3. ASSUME NEW s \in Streams, ResumeCancelsTimer(s) PROVE SessionsBacked'
  BY <1>3 DEF ResumeCancelsTimer, memoryVars
<1>4. ASSUME NEW s \in Streams, Resume(s) PROVE SessionsBacked'
  BY <1>4, SessionFacts DEF Resume, memoryVars
<1>5. ASSUME NEW s \in Streams, Resumed(s) PROVE SessionsBacked'
  BY <1>5 DEF Resumed, memoryVars
<1>6. ASSUME NEW s \in Streams, Reuse(s) PROVE SessionsBacked'
  BY <1>6 DEF Reuse, memoryVars
<1>7. ASSUME NEW s \in Streams, DropStale(s) PROVE SessionsBacked'
  BY <1>7 DEF DropStale, memoryVars
<1>8. ASSUME NEW s \in Streams, CreateUpload(s) PROVE SessionsBacked'
  <2>1. ASSUME NEW o \in Streams \cup {None}, sess'[o].status = "completed"
        PROVE  sess'[o] = sess[o]
    BY <1>8, <2>1 DEF CreateUpload, NewSession, Inv, TypeOK, MemoryTypes
  <2> QED
    BY <2>1 DEF TruthInv, SessionsBacked, Backed, StaysCompleted
<1>9. ASSUME NEW s \in Streams, CreateFails(s) PROVE SessionsBacked'
  BY <1>9 DEF CreateFails, memoryVars
<1>10. ASSUME NEW s \in Streams, Created(s) PROVE SessionsBacked'
  BY <1>10 DEF Created, memoryVars
<1>11. ASSUME NEW s \in Streams, RecvAudio(s) PROVE SessionsBacked'
  BY <1>11 DEF RecvAudio, memoryVars
<1>12. ASSUME NEW s \in Streams, AppendFrame(s) PROVE SessionsBacked'
  BY <1>12 DEF AppendFrame, memoryVars
<1>13. ASSUME NEW s \in Streams, UploadPart(s) PROVE SessionsBacked'
  BY <1>13 DEF UploadPart, GivesUp, memoryVars
<1>14. ASSUME NEW s \in Streams, AppendSaved(s) PROVE SessionsBacked'
  BY <1>14 DEF AppendSaved, memoryVars
<1>15. ASSUME NEW s \in Streams, GracefulEnd(s) PROVE SessionsBacked'
  BY <1>15 DEF GracefulEnd, memoryVars
<1>16. ASSUME NEW s \in Streams, StopCancelsTimer(s) PROVE SessionsBacked'
  BY <1>16 DEF StopCancelsTimer, memoryVars
<1>17. ASSUME NEW s \in Streams, BreakReading(s) PROVE SessionsBacked'
  BY <1>17 DEF BreakReading, memoryVars
<1>18. ASSUME NEW s \in Streams, BreakMidCall(s) PROVE SessionsBacked'
  BY <1>18 DEF BreakMidCall, memoryVars
<1>19. ASSUME NEW s \in Streams, Drop(s) PROVE SessionsBacked'
  BY <1>19 DEF Drop, memoryVars
<1>20. ASSUME NEW s \in Streams, GraceWait(s) PROVE SessionsBacked'
  BY <1>20, SessionFacts DEF GraceWait, memoryVars
<1>21. ASSUME NEW s \in Streams, ArmTimer(s) PROVE SessionsBacked'
  BY <1>21 DEF ArmTimer, memoryVars
<1>22. ASSUME NEW s \in Streams, TimerFires(s) PROVE SessionsBacked'
  BY <1>22 DEF TimerFires, memoryVars
<1>23. ASSUME NEW s \in Streams, Claim(s) PROVE SessionsBacked'
  BY <1>23, SessionFacts DEF Claim, memoryVars
<1>24. ASSUME NEW t \in Finalizers, BeginFinalize(t) PROVE SessionsBacked'
  BY <1>24 DEF BeginFinalize, memoryVars
<1>25. ASSUME NEW t \in Finalizers, SkipFinalize(t) PROVE SessionsBacked'
  BY <1>25 DEF SkipFinalize, memoryVars
<1>26. ASSUME NEW t \in Finalizers, TakeBuffer(t) PROVE SessionsBacked'
  BY <1>26 DEF TakeBuffer, memoryVars
<1>27. ASSUME NEW t \in Finalizers, FlushBuffer(t) PROVE SessionsBacked'
  BY <1>27 DEF FlushBuffer, GivesUp, memoryVars
<1>28. ASSUME NEW t \in Finalizers, PopAndReport(t) PROVE SessionsBacked'
  BY <1>28 DEF PopAndReport, memoryVars
<1>29. ASSUME NEW t \in Finalizers \cup {Reconciler}, CompleteOrAbort(t)
       PROVE SessionsBacked'
  <2>1. me[t] \in Streams \cup {None} /\ sess[me[t]] \in Session
    BY DEF Inv, TypeOK, TaskTypes, MemoryTypes
  <2>2. PICK st \in Statuses :
          /\ sess' = [sess EXCEPT ![me[t]].status = st]
          /\ st = "completed" => /\ sess[me[t]].upload \in Streams
                                 /\ upload'[sess[me[t]].upload] = "completed"
    BY <1>29, SessionFacts DEF CompleteOrAbort, Closes, AfterError, Inv, TypeOK, WorldTypes
  <2>3. \A o \in Streams \cup {None} :
          /\ sess'[o].upload = sess[o].upload
          /\ sess'[o].status = IF o = me[t] THEN st ELSE sess[o].status
    BY <2>1, <2>2 DEF Inv, TypeOK, MemoryTypes, Session
  <2> QED
    BY <2>2, <2>3 DEF TruthInv, SessionsBacked, Backed, StaysCompleted
<1>30. ASSUME NEW t \in Tasks, WriteLands(t) PROVE SessionsBacked'
  BY <1>30 DEF WriteLands, memoryVars
<1>31. ASSUME NEW t \in Tasks, Report(t) PROVE SessionsBacked'
  BY <1>31 DEF Report, memoryVars
<1>32. ASSUME NEW t \in Tasks, Acked(t) PROVE SessionsBacked'
  BY <1>32 DEF Acked, memoryVars
<1>33. ASSUME NEW t \in Tasks, Unacked(t) PROVE SessionsBacked'
  BY <1>33 DEF Unacked, memoryVars
<1>34. ASSUME NEW t \in Tasks, Deleted(t) PROVE SessionsBacked'
  BY <1>34 DEF Deleted, memoryVars
<1>35. ASSUME ListUnfinished PROVE SessionsBacked'
  <2>1. \A o \in Streams \cup {None} : sess'[o] \in {sess[o], file}
    BY <1>35 DEF ListUnfinished, Inv, TypeOK, MemoryTypes
  <2> QED
    BY <2>1 DEF TruthInv, SessionsBacked, FilesBacked, Backed, StaysCompleted
<1>36. ASSUME SkipLive PROVE SessionsBacked'
  BY <1>36 DEF SkipLive, memoryVars
<1>37. ASSUME Recover PROVE SessionsBacked'
  BY <1>37 DEF Recover, memoryVars
<1>38. ASSUME RecoveredSaved PROVE SessionsBacked'
  BY <1>38 DEF RecoveredSaved, memoryVars
<1>39. ASSUME Crash PROVE SessionsBacked'
  BY <1>39 DEF Crash, NoSession, SessionsBacked, Backed
<1> QED
  BY <1>1, <1>2, <1>3, <1>4, <1>5, <1>6, <1>7, <1>8, <1>9, <1>10, <1>11, <1>12, <1>13,
     <1>14, <1>15, <1>16, <1>17, <1>18, <1>19, <1>20, <1>21, <1>22, <1>23, <1>24, <1>25,
     <1>26, <1>27, <1>28, <1>29, <1>30, <1>31, <1>32, <1>33, <1>34, <1>35, <1>36, <1>37,
     <1>38, <1>39
     DEF Next, StartStep, AppendStep, StopStep, FinalizeStep, ReportStep, ReconcilerStep

\* What is saved is always a copy of a backed session, or a document that does not
\* claim to be complete.
LEMMA FileFrames ==
    ASSUME Inv, TruthInv, StaysCompleted, SessionsBacked', UNCHANGED file
    PROVE  /\ UNCHANGED write => FilesBacked'
           /\ \A t, doc : Save(t, doc) /\ (doc.status = "completed" => Backed(doc, upload'))
                => FilesBacked'
           /\ \A t, o : o \in Streams \cup {None} /\ Save(t, sess'[o]) => FilesBacked'
           /\ \A t, o : o \in Streams \cup {None} /\ Save(t, sess[o]) => FilesBacked'
<1>1. Backed(file, upload)' /\ \A t \in Tasks : \A doc \in write[t] : Backed(doc, upload')
  BY DEF TruthInv, FilesBacked, Backed, StaysCompleted
<1>2. ASSUME NEW t, NEW doc, Save(t, doc), doc.status = "completed" => Backed(doc, upload')
      PROVE  FilesBacked'
  <2>1. \A r \in Tasks : write'[r] \in {write[r], {doc}}
    BY <1>2 DEF Save, Inv, TypeOK, TaskTypes
  <2>2. Backed(doc, upload')
    BY <1>2 DEF Backed
  <2> QED
    BY <1>1, <2>1, <2>2 DEF FilesBacked
<1>3. \A o \in Streams \cup {None} : Backed(sess'[o], upload') /\ Backed(sess[o], upload')
  BY DEF TruthInv, SessionsBacked, Backed, StaysCompleted
<1>4. UNCHANGED write => FilesBacked'
  BY <1>1 DEF FilesBacked
<1> QED
  BY <1>2, <1>3, <1>4

\* Every document on disk or on its way there stays backed.
LEMMA FilesStep ==
    ASSUME Inv, TruthInv, Next
    PROVE  FilesBacked'
<1>0. StaysCompleted /\ SessionsBacked'
  BY CompletedStays, SessionsStep
<1> USE <1>0, TaskFacts, FileFrames
<1>1. ASSUME NEW s \in Streams, OpenStream(s) PROVE FilesBacked'
  BY <1>1 DEF OpenStream, Inv, TypeOK, TaskTypes
<1>2. ASSUME NEW s \in Streams, LookUp(s) PROVE FilesBacked'
  BY <1>2 DEF LookUp, Inv, TypeOK, TaskTypes
<1>3. ASSUME NEW s \in Streams, ResumeCancelsTimer(s) PROVE FilesBacked'
  BY <1>3 DEF ResumeCancelsTimer, Inv, TypeOK, TaskTypes
<1>4. ASSUME NEW s \in Streams, Resume(s) PROVE FilesBacked'
  BY <1>4 DEF Resume, Inv, TypeOK, TaskTypes
<1>5. ASSUME NEW s \in Streams, Resumed(s) PROVE FilesBacked'
  BY <1>5 DEF Resumed, Inv, TypeOK, TaskTypes
<1>6. ASSUME NEW s \in Streams, Reuse(s) PROVE FilesBacked'
  BY <1>6 DEF Reuse, Inv, TypeOK, TaskTypes
<1>7. ASSUME NEW s \in Streams, DropStale(s) PROVE FilesBacked'
  BY <1>7 DEF DropStale, Inv, TypeOK, TaskTypes
<1>8. ASSUME NEW s \in Streams, CreateUpload(s) PROVE FilesBacked'
  BY <1>8 DEF CreateUpload, NewSession, Inv, TypeOK, TaskTypes
<1>9. ASSUME NEW s \in Streams, CreateFails(s) PROVE FilesBacked'
  BY <1>9 DEF CreateFails, Inv, TypeOK, TaskTypes
<1>10. ASSUME NEW s \in Streams, Created(s) PROVE FilesBacked'
  BY <1>10 DEF Created, Inv, TypeOK, TaskTypes
<1>11. ASSUME NEW s \in Streams, RecvAudio(s) PROVE FilesBacked'
  BY <1>11 DEF RecvAudio, Inv, TypeOK, TaskTypes
<1>12. ASSUME NEW s \in Streams, AppendFrame(s) PROVE FilesBacked'
  BY <1>12 DEF AppendFrame, Inv, TypeOK, TaskTypes
<1>13. ASSUME NEW s \in Streams, UploadPart(s) PROVE FilesBacked'
  BY <1>13 DEF UploadPart, GivesUp, Inv, TypeOK, TaskTypes
<1>14. ASSUME NEW s \in Streams, AppendSaved(s) PROVE FilesBacked'
  BY <1>14 DEF AppendSaved, Inv, TypeOK, TaskTypes
<1>15. ASSUME NEW s \in Streams, GracefulEnd(s) PROVE FilesBacked'
  BY <1>15 DEF GracefulEnd, Inv, TypeOK, TaskTypes
<1>16. ASSUME NEW s \in Streams, StopCancelsTimer(s) PROVE FilesBacked'
  BY <1>16 DEF StopCancelsTimer, Inv, TypeOK, TaskTypes
<1>17. ASSUME NEW s \in Streams, BreakReading(s) PROVE FilesBacked'
  BY <1>17 DEF BreakReading, Inv, TypeOK, TaskTypes
<1>18. ASSUME NEW s \in Streams, BreakMidCall(s) PROVE FilesBacked'
  BY <1>18 DEF BreakMidCall, Inv, TypeOK, TaskTypes
<1>19. ASSUME NEW s \in Streams, Drop(s) PROVE FilesBacked'
  BY <1>19 DEF Drop, Inv, TypeOK, TaskTypes
<1>20. ASSUME NEW s \in Streams, GraceWait(s) PROVE FilesBacked'
  BY <1>20 DEF GraceWait, Inv, TypeOK, TaskTypes
<1>21. ASSUME NEW s \in Streams, ArmTimer(s) PROVE FilesBacked'
  BY <1>21 DEF ArmTimer, Inv, TypeOK, TaskTypes
<1>22. ASSUME NEW s \in Streams, TimerFires(s) PROVE FilesBacked'
  BY <1>22 DEF TimerFires, Inv, TypeOK, TaskTypes
<1>23. ASSUME NEW s \in Streams, Claim(s) PROVE FilesBacked'
  BY <1>23 DEF Claim, Inv, TypeOK, TaskTypes
<1>24. ASSUME NEW t \in Finalizers, BeginFinalize(t) PROVE FilesBacked'
  BY <1>24 DEF BeginFinalize, Inv, TypeOK, TaskTypes
<1>25. ASSUME NEW t \in Finalizers, SkipFinalize(t) PROVE FilesBacked'
  BY <1>25 DEF SkipFinalize, Inv, TypeOK, TaskTypes
<1>26. ASSUME NEW t \in Finalizers, TakeBuffer(t) PROVE FilesBacked'
  BY <1>26 DEF TakeBuffer, Inv, TypeOK, TaskTypes
<1>27. ASSUME NEW t \in Finalizers, FlushBuffer(t) PROVE FilesBacked'
  BY <1>27 DEF FlushBuffer, GivesUp, Inv, TypeOK, TaskTypes
<1>28. ASSUME NEW t \in Finalizers, PopAndReport(t) PROVE FilesBacked'
  BY <1>28 DEF PopAndReport, Inv, TypeOK, TaskTypes
<1>29. ASSUME NEW t \in Finalizers \cup {Reconciler}, CompleteOrAbort(t) PROVE FilesBacked'
  BY <1>29 DEF CompleteOrAbort, Inv, TypeOK, TaskTypes
<1>30. ASSUME NEW t \in Tasks, WriteLands(t) PROVE FilesBacked'
  <2>1. file' = file \/ file' \in write[t]
    BY <1>30 DEF WriteLands
  <2>2. \A q \in Tasks : write'[q] \subseteq write[q]
    BY <1>30 DEF WriteLands, Inv, TypeOK, TaskTypes
  <2> QED
    BY <2>1, <2>2 DEF TruthInv, FilesBacked, Backed, StaysCompleted
<1>31. ASSUME NEW t \in Tasks, Report(t) PROVE FilesBacked'
  BY <1>31 DEF Report, Inv, TypeOK, TaskTypes
<1>32. ASSUME NEW t \in Tasks, Acked(t) PROVE FilesBacked'
  <2>1. CASE UNCHANGED write
    BY <1>32, <2>1 DEF Acked
  <2>2. CASE Save(t, NoSession)
    BY <1>32, <2>2 DEF Acked, NoSession
  <2> QED
    BY <1>32, <2>1, <2>2 DEF Acked
<1>33. ASSUME NEW t \in Tasks, Unacked(t) PROVE FilesBacked'
  BY <1>33 DEF Unacked, Inv, TypeOK, TaskTypes
<1>34. ASSUME NEW t \in Tasks, Deleted(t) PROVE FilesBacked'
  BY <1>34 DEF Deleted, Inv, TypeOK, TaskTypes
<1>35. ASSUME ListUnfinished PROVE FilesBacked'
  BY <1>35 DEF ListUnfinished, Inv, TypeOK, TaskTypes
<1>36. ASSUME SkipLive PROVE FilesBacked'
  BY <1>36 DEF SkipLive, Inv, TypeOK, TaskTypes
<1>37. ASSUME Recover PROVE FilesBacked'
  BY <1>37 DEF Recover, Inv, TypeOK, TaskTypes
<1>38. ASSUME RecoveredSaved PROVE FilesBacked'
  BY <1>38 DEF RecoveredSaved, Inv, TypeOK, TaskTypes
<1>39. ASSUME Crash PROVE FilesBacked'
  BY <1>39 DEF Crash, TruthInv, FilesBacked, Backed, StaysCompleted
<1> QED
  BY <1>1, <1>2, <1>3, <1>4, <1>5, <1>6, <1>7, <1>8, <1>9, <1>10, <1>11, <1>12, <1>13,
     <1>14, <1>15, <1>16, <1>17, <1>18, <1>19, <1>20, <1>21, <1>22, <1>23, <1>24, <1>25,
     <1>26, <1>27, <1>28, <1>29, <1>30, <1>31, <1>32, <1>33, <1>34, <1>35, <1>36, <1>37,
     <1>38, <1>39
     DEF Next, StartStep, AppendStep, StopStep, FinalizeStep, ReportStep, ReconcilerStep

\* What is being reported as completed stays backed until it is told.
LEMMA ReportsStep ==
    ASSUME Inv, TruthInv, Next
    PROVE  ReportsBacked'
<1>0. StaysCompleted
  BY CompletedStays
<1> SUFFICES ASSUME NEW r \in Tasks, pc'[r] = "report", event'[r] = "completed"
             PROVE  sess'[me'[r]].upload \in Streams
                      /\ upload'[sess'[me'[r]].upload] = "completed"
  BY DEF ReportsBacked
<1> DEFINE StillBacked ==
      /\ sess'[me'[r]].upload \in Streams
      /\ upload'[sess'[me'[r]].upload] = "completed"
<1>a. ASSUME pc[r] = "report", event[r] = "completed", me'[r] = me[r],
             sess'[me[r]].upload = sess[me[r]].upload
      PROVE  StillBacked
  BY <1>0, <1>a DEF TruthInv, ReportsBacked, StaysCompleted
<1>b. ASSUME sess[me[r]].status = "completed", me'[r] = me[r], UNCHANGED sess
      PROVE  StillBacked
  <2>1. me[r] \in Streams \cup {None}
    BY DEF Inv, TypeOK, TaskTypes
  <2> QED
    BY <1>0, <1>b, <2>1 DEF TruthInv, SessionsBacked, Backed, StaysCompleted
<1> USE TaskFacts, AcquireMoves DEF Inv
<1>1. ASSUME NEW s \in Streams, OpenStream(s) PROVE StillBacked
  BY <1>1, <1>a, <1>b DEF OpenStream, memoryVars, TypeOK, TaskTypes, TruthInv, ReportsBacked
<1>2. ASSUME NEW s \in Streams, LookUp(s) PROVE StillBacked
  BY <1>2, <1>a, <1>b
     DEF LookUp, At, Yield, memoryVars, TypeOK, TaskTypes, TruthInv, ReportsBacked
<1>3. ASSUME NEW s \in Streams, ResumeCancelsTimer(s) PROVE StillBacked
  BY <1>3, <1>a, <1>b
     DEF ResumeCancelsTimer, At, memoryVars, TypeOK, TaskTypes, TruthInv, ReportsBacked
<1>4. ASSUME NEW s \in Streams, Resume(s) PROVE StillBacked
  BY <1>4, <1>a, <1>b
     DEF Resume, At, Yield, memoryVars, TypeOK, TaskTypes, TruthInv, ReportsBacked
<1>5. ASSUME NEW s \in Streams, Resumed(s) PROVE StillBacked
  BY <1>5, <1>a, <1>b
     DEF Resumed, At, Yield, memoryVars, TypeOK, TaskTypes, TruthInv, ReportsBacked
<1>6. ASSUME NEW s \in Streams, Reuse(s) PROVE StillBacked
  BY <1>6, <1>a, <1>b
     DEF Reuse, At, Yield, memoryVars, TypeOK, TaskTypes, TruthInv, ReportsBacked
<1>7. ASSUME NEW s \in Streams, DropStale(s) PROVE StillBacked
  BY <1>7, <1>a, <1>b
     DEF DropStale, At, Yield, memoryVars, TypeOK, TaskTypes, TruthInv, ReportsBacked
<1>8. ASSUME NEW s \in Streams, CreateUpload(s) PROVE StillBacked
  <2>1. r # Conn(s) /\ pc[r] = "report" /\ event[r] = "completed" /\ me'[r] = me[r]
    BY <1>8 DEF CreateUpload, Yield, TypeOK, TaskTypes
  <2>2. me[r] # s
    BY <1>8, <2>1, StreamsAssumption
       DEF CreateUpload, At, TruthInv, ReportsBacked, OwnUpload, FreshUpload
  <2>3. sess'[me[r]] = sess[me[r]]
    BY <1>8, <2>2 DEF CreateUpload, TypeOK, TaskTypes, MemoryTypes
  <2> QED
    BY <1>a, <2>1, <2>3
<1>9. ASSUME NEW s \in Streams, CreateFails(s) PROVE StillBacked
  BY <1>9, <1>a, <1>b
     DEF CreateFails, At, Yield, memoryVars, TypeOK, TaskTypes, TruthInv, ReportsBacked
<1>10. ASSUME NEW s \in Streams, Created(s) PROVE StillBacked
  <2>1. event[r] = "completed" /\ UNCHANGED sess
    BY <1>10 DEF Created, memoryVars
  <2>2. r # Started(s)
    BY <2>1 DEF TruthInv, Roles
  <2>3. pc[r] = "report" /\ me'[r] = me[r]
    BY <1>10, <2>2 DEF Created, TypeOK, TaskTypes
  <2> QED
    BY <1>a, <2>1, <2>3
<1>11. ASSUME NEW s \in Streams, RecvAudio(s) PROVE StillBacked
  BY <1>11, <1>a, <1>b
     DEF RecvAudio, At, Yield, memoryVars, TypeOK, TaskTypes, TruthInv, ReportsBacked
<1>12. ASSUME NEW s \in Streams, AppendFrame(s) PROVE StillBacked
  BY <1>12, <1>a, <1>b
     DEF AppendFrame, At, Yield, memoryVars, TypeOK, TaskTypes, TruthInv, ReportsBacked
<1>13. ASSUME NEW s \in Streams, UploadPart(s) PROVE StillBacked
  <2>1. pc[r] = "report" /\ event[r] = "completed" /\ me'[r] = me[r]
    BY <1>13 DEF UploadPart, Yield, Go, TypeOK, TaskTypes
  <2>2. me[r] \in Streams \cup {None} /\ (Stores(Conn(s)) \/ UNCHANGED sess)
    BY <1>13 DEF UploadPart, GivesUp, TypeOK, TaskTypes
  <2> QED
    BY <1>a, <2>1, <2>2, StoresKeepsUpload
<1>14. ASSUME NEW s \in Streams, AppendSaved(s) PROVE StillBacked
  BY <1>14, <1>a, <1>b
     DEF AppendSaved, At, Yield, memoryVars, TypeOK, TaskTypes, TruthInv, ReportsBacked
<1>15. ASSUME NEW s \in Streams, GracefulEnd(s) PROVE StillBacked
  BY <1>15, <1>a, <1>b
     DEF GracefulEnd, At, Yield, Go, memoryVars, TypeOK, TaskTypes, TruthInv, ReportsBacked
<1>16. ASSUME NEW s \in Streams, StopCancelsTimer(s) PROVE StillBacked
  BY <1>16, <1>a, <1>b
     DEF StopCancelsTimer, At, memoryVars, TypeOK, TaskTypes, TruthInv, ReportsBacked
<1>17. ASSUME NEW s \in Streams, BreakReading(s) PROVE StillBacked
  BY <1>17, <1>a, <1>b
     DEF BreakReading, At, Go, memoryVars, TypeOK, TaskTypes, TruthInv, ReportsBacked
<1>18. ASSUME NEW s \in Streams, BreakMidCall(s) PROVE StillBacked
  BY <1>18, <1>a, <1>b
     DEF BreakMidCall, memoryVars, TypeOK, TaskTypes, TruthInv, ReportsBacked
<1>19. ASSUME NEW s \in Streams, Drop(s) PROVE StillBacked
  BY <1>19, <1>a, <1>b
     DEF Drop, At, Yield, memoryVars, TypeOK, TaskTypes, TruthInv, ReportsBacked
<1>20. ASSUME NEW s \in Streams, GraceWait(s) PROVE StillBacked
  BY <1>20, <1>a, <1>b
     DEF GraceWait, At, Yield, memoryVars, TypeOK, TaskTypes, TruthInv, ReportsBacked
<1>21. ASSUME NEW s \in Streams, ArmTimer(s) PROVE StillBacked
  BY <1>21, <1>a, <1>b
     DEF ArmTimer, At, memoryVars, TypeOK, TaskTypes, TruthInv, ReportsBacked
<1>22. ASSUME NEW s \in Streams, TimerFires(s) PROVE StillBacked
  BY <1>22, <1>a, <1>b
     DEF TimerFires, At, Yield, memoryVars, TypeOK, TaskTypes, TruthInv, ReportsBacked
<1>23. ASSUME NEW s \in Streams, Claim(s) PROVE StillBacked
  <2>1. pc[r] = "report" /\ event[r] = "completed" /\ me'[r] = me[r]
    BY <1>23 DEF Claim, Yield, Go, TypeOK, TaskTypes
  <2>2. /\ me[r] \in Streams \cup {None}
        /\ UNCHANGED sess \/ \E st \in Statuses : sess' = [sess EXCEPT ![me[Grace(s)]].status = st]
    BY <1>23 DEF Claim, Statuses, TypeOK, TaskTypes
  <2>3. sess'[me[r]].upload = sess[me[r]].upload
    BY <2>2, StatusKeepsUpload
  <2> QED
    BY <1>a, <2>1, <2>3
<1>24. ASSUME NEW t \in Finalizers, BeginFinalize(t) PROVE StillBacked
  BY <1>24, <1>a, <1>b
     DEF BeginFinalize, At, Yield, memoryVars, TypeOK, TaskTypes, TruthInv, ReportsBacked
<1>25. ASSUME NEW t \in Finalizers, SkipFinalize(t) PROVE StillBacked
  BY <1>25, <1>a, <1>b
     DEF SkipFinalize, At, Yield, memoryVars, TypeOK, TaskTypes, TruthInv, ReportsBacked
<1>26. ASSUME NEW t \in Finalizers, TakeBuffer(t) PROVE StillBacked
  BY <1>26, <1>a, <1>b
     DEF TakeBuffer, At, Yield, memoryVars, TypeOK, TaskTypes, TruthInv, ReportsBacked
<1>27. ASSUME NEW t \in Finalizers, FlushBuffer(t) PROVE StillBacked
  <2>1. pc[r] = "report" /\ event[r] = "completed" /\ me'[r] = me[r]
    BY <1>27 DEF FlushBuffer, Yield, TypeOK, TaskTypes
  <2>2. me[r] \in Streams \cup {None} /\ (Stores(t) \/ UNCHANGED sess)
    BY <1>27 DEF FlushBuffer, GivesUp, TypeOK, TaskTypes
  <2> QED
    BY <1>a, <2>1, <2>2, StoresKeepsUpload
<1>28. ASSUME NEW t \in Finalizers, PopAndReport(t) PROVE StillBacked
  BY <1>28, <1>a, <1>b
     DEF PopAndReport, At, Yield, Outcome, memoryVars, TypeOK, TaskTypes, TruthInv,
         ReportsBacked
<1>29. ASSUME NEW t \in Finalizers \cup {Reconciler}, CompleteOrAbort(t) PROVE StillBacked
  <2>1. pc[r] = "report" /\ event[r] = "completed" /\ me'[r] = me[r]
    BY <1>29 DEF CompleteOrAbort, Yield, TypeOK, TaskTypes
  <2>2. /\ me[r] \in Streams \cup {None}
        /\ \E st \in Statuses : sess' = [sess EXCEPT ![me[t]].status = st]
    BY <1>29 DEF CompleteOrAbort, AfterError, Statuses, TypeOK, TaskTypes
  <2> QED
    BY <1>a, <2>1, <2>2, StatusKeepsUpload
<1>30. ASSUME NEW t \in Tasks, WriteLands(t) PROVE StillBacked
  BY <1>30, <1>a, <1>b
     DEF WriteLands, memoryVars, TypeOK, TaskTypes, TruthInv, ReportsBacked, localVars
<1>31. ASSUME NEW t \in Tasks, Report(t) PROVE StillBacked
  BY <1>31, <1>a, <1>b
     DEF Report, At, Yield, memoryVars, TypeOK, TaskTypes, TruthInv, ReportsBacked
<1>32. ASSUME NEW t \in Tasks, Acked(t) PROVE StillBacked
  BY <1>32, <1>a, <1>b
     DEF Acked, At, Finished, Yield, memoryVars, TypeOK, TaskTypes, TruthInv, ReportsBacked
<1>33. ASSUME NEW t \in Tasks, Unacked(t) PROVE StillBacked
  BY <1>33, <1>a, <1>b
     DEF Unacked, At, Finished, Yield, memoryVars, TypeOK, TaskTypes, TruthInv,
         ReportsBacked
<1>34. ASSUME NEW t \in Tasks, Deleted(t) PROVE StillBacked
  BY <1>34, <1>a, <1>b
     DEF Deleted, At, Finished, Yield, memoryVars, TypeOK, TaskTypes, TruthInv,
         ReportsBacked
<1>35. ASSUME ListUnfinished PROVE StillBacked
  <2>1. r # Reconciler /\ pc[r] = "report" /\ event[r] = "completed" /\ me'[r] = me[r]
    BY <1>35 DEF ListUnfinished, At, Finished, Yield, TypeOK, TaskTypes
  <2>2. me[r] # None
    BY <2>1, StreamsAssumption DEF TruthInv, Roles
  <2>3. sess'[me[r]] = sess[me[r]]
    BY <1>35, <2>2 DEF ListUnfinished, TypeOK, TaskTypes, MemoryTypes
  <2> QED
    BY <1>a, <2>1, <2>3
<1>36. ASSUME SkipLive PROVE StillBacked
  BY <1>36, <1>a, <1>b
     DEF SkipLive, At, Finished, Yield, memoryVars, TypeOK, TaskTypes, TruthInv,
         ReportsBacked
<1>37. ASSUME Recover PROVE StillBacked
  <2>1. UNCHANGED <<me, sess>> /\ me[Reconciler] = None
    BY <1>37 DEF Recover, memoryVars, TruthInv, Roles
  <2>2. r = Reconciler => event' = [event EXCEPT ![Reconciler] = Outcome(sess[None].status)]
    BY <1>37 DEF Recover, Yield, TypeOK, TaskTypes
  <2>3. CASE r = Reconciler
    <3>1. sess[None].status = "completed"
      BY <2>2, <2>3 DEF Outcome, TypeOK, TaskTypes
    <3> QED
      BY <1>b, <2>1, <2>3, <3>1
  <2>4. CASE r # Reconciler
    BY <1>37, <1>a, <2>1, <2>4 DEF Recover, Yield, TypeOK, TaskTypes
  <2> QED
    BY <2>3, <2>4
<1>38. ASSUME RecoveredSaved PROVE StillBacked
  <2>1. UNCHANGED <<me, sess>> /\ me[Reconciler] = None
    BY <1>38 DEF RecoveredSaved, memoryVars, TruthInv, Roles
  <2>2. r = Reconciler => event' = [event EXCEPT ![Reconciler] = Outcome(sess[None].status)]
    BY <1>38 DEF RecoveredSaved, Yield, TypeOK, TaskTypes
  <2>3. CASE r = Reconciler
    <3>1. sess[None].status = "completed"
      BY <2>2, <2>3 DEF Outcome, TypeOK, TaskTypes
    <3> QED
      BY <1>b, <2>1, <2>3, <3>1
  <2>4. CASE r # Reconciler
    BY <1>38, <1>a, <2>1, <2>4 DEF RecoveredSaved, Yield, TypeOK, TaskTypes
  <2> QED
    BY <2>3, <2>4
<1>39. ASSUME Crash PROVE StillBacked
  BY <1>39, <1>a, <1>b DEF Crash, memoryVars, TypeOK, TaskTypes, TruthInv, ReportsBacked
<1> QED
  BY <1>1, <1>2, <1>3, <1>4, <1>5, <1>6, <1>7, <1>8, <1>9, <1>10, <1>11, <1>12, <1>13,
     <1>14, <1>15, <1>16, <1>17, <1>18, <1>19, <1>20, <1>21, <1>22, <1>23, <1>24, <1>25,
     <1>26, <1>27, <1>28, <1>29, <1>30, <1>31, <1>32, <1>33, <1>34, <1>35, <1>36, <1>37,
     <1>38, <1>39
     DEF Next, StartStep, AppendStep, StopStep, FinalizeStep, ReportStep, ReconcilerStep

\* What the orchestrator has been told stays true.
LEMMA ToldStep ==
    ASSUME Inv, TruthInv, Next
    PROVE  CompletedIsTrue'
<1>0. StaysCompleted
  BY CompletedStays
<1>a. UNCHANGED told => CompletedIsTrue'
  BY <1>0 DEF TruthInv, CompletedIsTrue, StaysCompleted
<1> USE <1>0, <1>a, TaskFacts, CallFacts
<1>1. ASSUME NEW s \in Streams, OpenStream(s) PROVE CompletedIsTrue'
  BY <1>1 DEF OpenStream, s3Vars
<1>2. ASSUME NEW s \in Streams, LookUp(s) PROVE CompletedIsTrue'
  BY <1>2 DEF LookUp, s3Vars
<1>3. ASSUME NEW s \in Streams, ResumeCancelsTimer(s) PROVE CompletedIsTrue'
  <2>1. me[Conn(s)] \in Streams /\ graceTask[me[Conn(s)]] \in Streams
    BY <1>3 DEF ResumeCancelsTimer, Holds, Inv, TypeOK, MemoryTypes
  <2>2. Cancelled(Grace(graceTask[me[Conn(s)]])) /\ Grace(graceTask[me[Conn(s)]]) \in Tasks
    BY <1>3, <2>1 DEF ResumeCancelsTimer
  <2> QED
    BY <2>2 DEF Cancelled
<1>4. ASSUME NEW s \in Streams, Resume(s) PROVE CompletedIsTrue'
  BY <1>4 DEF Resume, s3Vars
<1>5. ASSUME NEW s \in Streams, Resumed(s) PROVE CompletedIsTrue'
  BY <1>5 DEF Resumed, s3Vars
<1>6. ASSUME NEW s \in Streams, Reuse(s) PROVE CompletedIsTrue'
  BY <1>6 DEF Reuse, s3Vars
<1>7. ASSUME NEW s \in Streams, DropStale(s) PROVE CompletedIsTrue'
  BY <1>7 DEF DropStale, s3Vars
<1>8. ASSUME NEW s \in Streams, CreateUpload(s) PROVE CompletedIsTrue'
  BY <1>8 DEF CreateUpload, s3Vars
<1>9. ASSUME NEW s \in Streams, CreateFails(s) PROVE CompletedIsTrue'
  BY <1>9 DEF CreateFails, s3Vars
<1>10. ASSUME NEW s \in Streams, Created(s) PROVE CompletedIsTrue'
  BY <1>10 DEF Created, s3Vars
<1>11. ASSUME NEW s \in Streams, RecvAudio(s) PROVE CompletedIsTrue'
  BY <1>11 DEF RecvAudio, s3Vars
<1>12. ASSUME NEW s \in Streams, AppendFrame(s) PROVE CompletedIsTrue'
  BY <1>12 DEF AppendFrame, s3Vars
<1>13. ASSUME NEW s \in Streams, UploadPart(s) PROVE CompletedIsTrue'
  BY <1>13 DEF UploadPart, GivesUp, s3Vars
<1>14. ASSUME NEW s \in Streams, AppendSaved(s) PROVE CompletedIsTrue'
  BY <1>14 DEF AppendSaved, s3Vars
<1>15. ASSUME NEW s \in Streams, GracefulEnd(s) PROVE CompletedIsTrue'
  BY <1>15 DEF GracefulEnd, s3Vars
<1>16. ASSUME NEW s \in Streams, StopCancelsTimer(s) PROVE CompletedIsTrue'
  <2>1. me[Conn(s)] \in Streams /\ graceTask[me[Conn(s)]] \in Streams
    BY <1>16 DEF StopCancelsTimer, At, Inv, CancelInv
  <2>2. Cancelled(Grace(graceTask[me[Conn(s)]])) /\ Grace(graceTask[me[Conn(s)]]) \in Tasks
    BY <1>16, <2>1 DEF StopCancelsTimer
  <2> QED
    BY <2>2 DEF Cancelled
<1>17. ASSUME NEW s \in Streams, BreakReading(s) PROVE CompletedIsTrue'
  BY <1>17 DEF BreakReading, s3Vars
<1>18. ASSUME NEW s \in Streams, BreakMidCall(s) PROVE CompletedIsTrue'
  BY <1>18 DEF BreakMidCall, Cancelled
<1>19. ASSUME NEW s \in Streams, Drop(s) PROVE CompletedIsTrue'
  BY <1>19 DEF Drop, s3Vars
<1>20. ASSUME NEW s \in Streams, GraceWait(s) PROVE CompletedIsTrue'
  BY <1>20 DEF GraceWait, s3Vars
<1>21. ASSUME NEW s \in Streams, ArmTimer(s) PROVE CompletedIsTrue'
  BY <1>21 DEF ArmTimer, s3Vars
<1>22. ASSUME NEW s \in Streams, TimerFires(s) PROVE CompletedIsTrue'
  BY <1>22 DEF TimerFires, s3Vars
<1>23. ASSUME NEW s \in Streams, Claim(s) PROVE CompletedIsTrue'
  BY <1>23 DEF Claim, s3Vars
<1>24. ASSUME NEW t \in Finalizers, BeginFinalize(t) PROVE CompletedIsTrue'
  BY <1>24 DEF BeginFinalize, s3Vars
<1>25. ASSUME NEW t \in Finalizers, SkipFinalize(t) PROVE CompletedIsTrue'
  BY <1>25 DEF SkipFinalize, s3Vars
<1>26. ASSUME NEW t \in Finalizers, TakeBuffer(t) PROVE CompletedIsTrue'
  BY <1>26 DEF TakeBuffer, s3Vars
<1>27. ASSUME NEW t \in Finalizers, FlushBuffer(t) PROVE CompletedIsTrue'
  BY <1>27 DEF FlushBuffer, GivesUp, s3Vars
<1>28. ASSUME NEW t \in Finalizers, PopAndReport(t) PROVE CompletedIsTrue'
  BY <1>28 DEF PopAndReport, s3Vars
<1>29. ASSUME NEW t \in Finalizers \cup {Reconciler}, CompleteOrAbort(t)
       PROVE CompletedIsTrue'
  BY <1>29 DEF CompleteOrAbort, s3Vars
<1>30. ASSUME NEW t \in Tasks, WriteLands(t) PROVE CompletedIsTrue'
  BY <1>30 DEF WriteLands, s3Vars
<1>31. ASSUME NEW t \in Tasks, Report(t) PROVE CompletedIsTrue'
  BY <1>31 DEF Report, s3Vars, At
<1>32. ASSUME NEW t \in Tasks, Acked(t) PROVE CompletedIsTrue'
  BY <1>32 DEF Acked, s3Vars
<1>33. ASSUME NEW t \in Tasks, Unacked(t) PROVE CompletedIsTrue'
  BY <1>33 DEF Unacked, s3Vars
<1>34. ASSUME NEW t \in Tasks, Deleted(t) PROVE CompletedIsTrue'
  BY <1>34 DEF Deleted, s3Vars
<1>35. ASSUME ListUnfinished PROVE CompletedIsTrue'
  BY <1>35 DEF ListUnfinished, s3Vars
<1>36. ASSUME SkipLive PROVE CompletedIsTrue'
  BY <1>36 DEF SkipLive, s3Vars
<1>37. ASSUME Recover PROVE CompletedIsTrue'
  BY <1>37 DEF Recover, s3Vars
<1>38. ASSUME RecoveredSaved PROVE CompletedIsTrue'
  BY <1>38 DEF RecoveredSaved, s3Vars
<1>39. ASSUME Crash PROVE CompletedIsTrue'
  BY <1>39 DEF Crash, s3Vars
<1> QED
  BY <1>1, <1>2, <1>3, <1>4, <1>5, <1>6, <1>7, <1>8, <1>9, <1>10, <1>11, <1>12, <1>13,
     <1>14, <1>15, <1>16, <1>17, <1>18, <1>19, <1>20, <1>21, <1>22, <1>23, <1>24, <1>25,
     <1>26, <1>27, <1>28, <1>29, <1>30, <1>31, <1>32, <1>33, <1>34, <1>35, <1>36, <1>37,
     <1>38, <1>39
     DEF Next, StartStep, AppendStep, StopStep, FinalizeStep, ReportStep, ReconcilerStep

\* Nothing is claimed before the first step.
LEMMA TruthInit == Init => TruthInv
<1> SUFFICES ASSUME Init PROVE TruthInv
  OBVIOUS
<1>1. SessionsBacked /\ FilesBacked /\ OwnUpload /\ FreshUpload /\ CompletedIsTrue
  BY TaskFacts
     DEF Init, SessionsBacked, FilesBacked, Backed, OwnUpload, FreshUpload, CompletedIsTrue,
         NoSession
<1>2. ReportsBacked /\ Roles
  BY TaskFacts DEF Init, ReportsBacked, Roles
<1> QED
  BY <1>1, <1>2 DEF TruthInv

\* Every step keeps a completed report true.
LEMMA TruthStep == Inv /\ TruthInv /\ [Next]_vars => TruthInv'
<1> SUFFICES ASSUME Inv, TruthInv, [Next]_vars PROVE TruthInv'
  OBVIOUS
<1>1. CASE Next
  BY <1>1, SessionsStep, FilesStep, ReportsStep, OwnStep, FreshStep, RolesStep, ToldStep
     DEF TruthInv
<1>2. CASE UNCHANGED vars
  BY <1>2 DEF vars, localVars, memoryVars, s3Vars, TruthInv, SessionsBacked, FilesBacked,
              Backed, ReportsBacked, OwnUpload, FreshUpload, Roles, CompletedIsTrue
<1> QED
  BY <1>1, <1>2

\* recording.completed is only ever told of an upload S3 has completed, whatever fails,
\* whenever the service crashes and however its tasks are interleaved.
THEOREM CompletedIsTrueAlways == Spec => []CompletedIsTrue
<1>1. Init => Inv /\ TruthInv
  BY InvInit, TruthInit
<1>2. (Inv /\ TruthInv) /\ [Next]_vars => (Inv /\ TruthInv)'
  BY InvStep, TruthStep
<1>3. Inv /\ TruthInv => CompletedIsTrue
  BY DEF TruthInv
<1> QED
  BY <1>1, <1>2, <1>3, PTL DEF Spec

--------------------------------------------------------------------------------
(* One stream at a time.  Without Overlap a stream opens only after the earlier ones *)
(* have ended, and without BreakAnywhere a connection breaks between two messages:   *)
(* then a registered session has exactly one task that answers for it.               *)

RecordingPcs == {"resaving", "newsaving", "open", "append", "upload", "appsaving",
                 "broken", "drop"}
WaitingPcs == {"dropsaving", "sleep", "claim"}
EndingPcs  == {"begin", "finalize", "flush", "complete"}
OwnerPcs   == RecordingPcs \cup WaitingPcs \cup EndingPcs \cup {"saving"}

\* Places where a task neither holds a session nor waits for one.
OffPcs == {"idle", "enter", "create", "report", "acked", "unacked", "deleting", "end"}

\* A start that has cancelled the timer of the session it resumes answers for it.
Resuming(t) ==
    /\ pc[t] = "resume"
    /\ sess[me[t]].status = "graceWait" /\ graceTask[me[t]] = None

Owns(t) == pc[t] \in OwnerPcs \/ Resuming(t)

OneConn  == \A r, s \in Streams : ~Detached(r) /\ ~Detached(s) => r = s
NoCancel == \A t \in Finalizers : pc[t] # "cancel"

\* What the task that answers for the registered session has made of it.
OwnerState(t) ==
    /\ registry \in Streams
    /\ pc[t] # "sleep" => me[t] = registry
    /\ pc[t] \in RecordingPcs =>
         sess[registry].status = "recording" /\ graceTask[registry] = None
    /\ pc[t] \in EndingPcs => sess[registry].status \in {"recording", "finalizing"}
    /\ pc[t] \in EndingPcs /\ sess[registry].status = "recording" =>
         \E s \in Streams : t = Conn(s)
    /\ pc[t] \in WaitingPcs => sess[registry].status = "graceWait"
    /\ pc[t] \in {"sleep", "claim"} =>
         graceTask[registry] \in Streams /\ t = Grace(graceTask[registry])
    /\ pc[t] = "saving" => AlreadyFinal(sess[registry].status)
    /\ pc[t] # "saving" => upload[registry] = "open"

OnlyOwner(o) == Owns(o) /\ OwnerState(o) /\ \A t \in Finalizers : Owns(t) => t = o
NoOwner == registry = None /\ \A t \in Finalizers : ~Owns(t)

\* A registered session has exactly one task that answers for it.
Owners == NoOwner \/ \E o \in Finalizers : OnlyOwner(o)

\* A start that waits for a session's lock: the session is registered, or its finalizer
\* has just popped it; a session in its grace period has a free lock.
Waits(t) ==
    /\ me[t] \in Streams
    /\ registry = me[t] \/ (registry = None /\ AlreadyFinal(sess[me[t]].status))
    /\ sess[me[t]].status = "graceWait" => loop = t

Resumes == \A t \in Finalizers : pc[t] = "resume" => Waits(t)

LockPcs == {"resume", "append", "drop", "claim", "finalize"} \cup HoldingPcs

\* Who queues for a session's lock sits at one of the places that take it.
Queues ==
    \A u \in Streams :
        /\ \A i \in DOMAIN lock[u] :
             lock[u][i] \in Finalizers /\ me[lock[u][i]] = u /\ pc[lock[u][i]] \in LockPcs
        /\ \A i, j \in DOMAIN lock[u] : lock[u][i] = lock[u][j] => i = j

\* A timer that fires finds the lock free and runs to its first await.
Timers ==
    \A s \in Streams :
        /\ pc[Grace(s)] \in {"claim", "begin", "finalize"} => loop = Grace(s)
        /\ pc[Grace(s)] \in {"claim", "finalize"} => lock[registry] = <<Grace(s)>>
        /\ pc[Grace(s)] = "begin" => lock[registry] = <<>>

\* Each kind of task is only where its handler or its timer can take it.
Kinds ==
    /\ \A s \in Streams :
        /\ pc[Conn(s)] \notin TimerPcs \cup {"check"}
        /\ pc[Grace(s)] \in 
             {"idle", "end"} \cup TimerPcs \cup (FinalizePcs \ {"cancel"}) \cup ReportPcs
        /\ pc[Started(s)] \in {"idle", "end"} \cup ReportPcs
    /\ pc[Reconciler] \in {"idle", "check", "complete", "saving"} \cup ReportPcs

\* The reconciler only ever completes an upload nobody has registered.
Recoveries ==
    pc[Reconciler] = "complete" /\ registry # None => sess[None].upload # registry

FreshTimer ==
    \A s \in Streams :
        pc[Conn(s)] \in {"idle", "enter", "resume", "create"} => graceTask[s] = None

Known(x, uploads) == x.upload \in Streams => uploads[x.upload] # "none"
KnownSessions == \A u \in Streams \cup {None} : Known(sess[u], upload)
KnownFiles == Known(file, upload) /\ \A t \in Tasks : \A doc \in write[t] : Known(doc, upload)

SeqInv ==
    /\ Kinds /\ OneConn /\ NoCancel /\ Owners /\ Resumes /\ Queues /\ Timers
    /\ Recoveries /\ FreshTimer /\ KnownSessions /\ KnownFiles

AllInv == Inv /\ TruthInv /\ PutNeverClobbers /\ SeqInv

\* A cancelled timer is the timer of a stream.
LEMMA CancelTarget ==
    ASSUME Inv, NEW s \in Streams, ResumeCancelsTimer(s)
    PROVE  me[Conn(s)] \in Streams /\ graceTask[me[Conn(s)]] \in Streams
  BY DEF ResumeCancelsTimer, Holds, Inv, TypeOK, MemoryTypes

\* What a new status leaves as it was ...
LEMMA StatusSet ==
    ASSUME TypeOK, NEW u \in Streams \cup {None}, NEW st,
           sess' = [sess EXCEPT ![u].status = st]
    PROVE  /\ sess'[u].status = st /\ sess'[u].upload = sess[u].upload
           /\ sess'[u].stored = sess[u].stored
           /\ \A o \in Streams \cup {None} : o # u => sess'[o] = sess[o]
  BY DEF TypeOK, MemoryTypes, Session

\* ... and a part that is stored.
LEMMA StoredSet ==
    ASSUME TypeOK, NEW t \in Tasks, Stores(t)
    PROVE  /\ sess'[me[t]].stored = sess[me[t]].stored + payload[t]
           /\ sess'[me[t]].upload = sess[me[t]].upload /\ sess'[me[t]].status = sess[me[t]].status
           /\ \A o \in Streams \cup {None} : o # me[t] => sess'[o] = sess[o]
<1>1. me[t] \in Streams \cup {None} /\ sess[me[t]] \in Session
  BY DEF TypeOK, TaskTypes, MemoryTypes
<1> DEFINE n == sess[me[t]].stored + payload[t]
<1>2. sess' = [sess EXCEPT ![me[t]] = [sess[me[t]] EXCEPT !.stored = n]]
  BY DEF Stores
<1> HIDE DEF n
<1>3. sess'[me[t]] = [sess[me[t]] EXCEPT !.stored = n]
  BY <1>1, <1>2 DEF TypeOK, MemoryTypes
<1>4. sess'[me[t]].stored = n
  BY <1>1, <1>3 DEF Session
<1>5. sess'[me[t]].upload = sess[me[t]].upload /\ sess'[me[t]].status = sess[me[t]].status
  BY <1>1, <1>3 DEF Session
<1>6. \A o \in Streams \cup {None} : o # me[t] => sess'[o] = sess[o]
  BY <1>2 DEF TypeOK, MemoryTypes
<1> QED
  BY <1>4, <1>5, <1>6 DEF n

\* Each kind of task keeps to its own part of the code.
LEMMA KindsStep ==
    ASSUME Inv, Kinds, Next
    PROVE  Kinds'
<1> USE TaskFacts, AcquireMoves DEF Inv, Kinds, TimerPcs, FinalizePcs, ReportPcs
<1>1. ASSUME NEW s \in Streams, OpenStream(s) PROVE Kinds'
  BY <1>1 DEF OpenStream, TypeOK, TaskTypes
<1>2. ASSUME NEW s \in Streams, LookUp(s) PROVE Kinds'
  BY <1>2 DEF LookUp, At, CreationHeld, Yield, TypeOK, TaskTypes
<1>3. ASSUME NEW s \in Streams, ResumeCancelsTimer(s) PROVE Kinds'
  <2> DEFINE g == graceTask[me[Conn(s)]]
  <2>1. g \in Streams
    BY <1>3, CancelTarget
  <2>2. pc' = [pc EXCEPT ![Grace(g)] = "end"]
    BY <1>3 DEF ResumeCancelsTimer
  <2> HIDE DEF g
  <2> QED
    BY <2>1, <2>2 DEF TypeOK, TaskTypes
<1>4. ASSUME NEW s \in Streams, Resume(s) PROVE Kinds'
  BY <1>4 DEF Resume, At, Yield, TypeOK, TaskTypes
<1>5. ASSUME NEW s \in Streams, Resumed(s) PROVE Kinds'
  BY <1>5 DEF Resumed, At, Yield, TypeOK, TaskTypes
<1>6. ASSUME NEW s \in Streams, Reuse(s) PROVE Kinds'
  BY <1>6 DEF Reuse, At, Yield, TypeOK, TaskTypes
<1>7. ASSUME NEW s \in Streams, DropStale(s) PROVE Kinds'
  BY <1>7 DEF DropStale, At, Yield, TypeOK, TaskTypes
<1>8. ASSUME NEW s \in Streams, CreateUpload(s) PROVE Kinds'
  BY <1>8 DEF CreateUpload, At, Yield, TypeOK, TaskTypes
<1>9. ASSUME NEW s \in Streams, CreateFails(s) PROVE Kinds'
  BY <1>9 DEF CreateFails, At, Yield, TypeOK, TaskTypes
<1>10. ASSUME NEW s \in Streams, Created(s) PROVE Kinds'
  BY <1>10 DEF Created, At, TypeOK, TaskTypes
<1>11. ASSUME NEW s \in Streams, RecvAudio(s) PROVE Kinds'
  BY <1>11 DEF RecvAudio, At, Yield, TypeOK, TaskTypes
<1>12. ASSUME NEW s \in Streams, AppendFrame(s) PROVE Kinds'
  BY <1>12 DEF AppendFrame, At, Yield, TypeOK, TaskTypes
<1>13. ASSUME NEW s \in Streams, UploadPart(s) PROVE Kinds'
  BY <1>13 DEF UploadPart, At, Stores, GivesUp, Yield, Go, TypeOK, TaskTypes
<1>14. ASSUME NEW s \in Streams, AppendSaved(s) PROVE Kinds'
  BY <1>14 DEF AppendSaved, At, Yield, TypeOK, TaskTypes
<1>15. ASSUME NEW s \in Streams, GracefulEnd(s) PROVE Kinds'
  BY <1>15 DEF GracefulEnd, At, Yield, Go, TypeOK, TaskTypes
<1>16. ASSUME NEW s \in Streams, StopCancelsTimer(s) PROVE Kinds'
  <2>1. me[Conn(s)] \in Streams /\ graceTask[me[Conn(s)]] \in Streams
    BY <1>16 DEF StopCancelsTimer, At, CancelInv
  <2> QED
    BY <1>16, <2>1 DEF StopCancelsTimer, At, TypeOK, TaskTypes
<1>17. ASSUME NEW s \in Streams, BreakReading(s) PROVE Kinds'
  BY <1>17 DEF BreakReading, At, Go, TypeOK, TaskTypes
<1>18. ASSUME NEW s \in Streams, BreakMidCall(s) PROVE Kinds'
  BY <1>18 DEF BreakMidCall, TypeOK, TaskTypes
<1>19. ASSUME NEW s \in Streams, Drop(s) PROVE Kinds'
  BY <1>19 DEF Drop, At, Yield, TypeOK, TaskTypes
<1>20. ASSUME NEW s \in Streams, GraceWait(s) PROVE Kinds'
  BY <1>20 DEF GraceWait, At, Yield, TypeOK, TaskTypes
<1>21. ASSUME NEW s \in Streams, ArmTimer(s) PROVE Kinds'
  BY <1>21 DEF ArmTimer, At, TypeOK, TaskTypes
<1>22. ASSUME NEW s \in Streams, TimerFires(s) PROVE Kinds'
  BY <1>22 DEF TimerFires, At, Yield, TypeOK, TaskTypes
<1>23. ASSUME NEW s \in Streams, Claim(s) PROVE Kinds'
  BY <1>23 DEF Claim, At, Go, Yield, TypeOK, TaskTypes
<1>24. ASSUME NEW t \in Finalizers, BeginFinalize(t) PROVE Kinds'
  BY <1>24 DEF BeginFinalize, At, Yield, TypeOK, TaskTypes
<1>25. ASSUME NEW t \in Finalizers, SkipFinalize(t) PROVE Kinds'
  BY <1>25 DEF SkipFinalize, At, Yield, TypeOK, TaskTypes
<1>26. ASSUME NEW t \in Finalizers, TakeBuffer(t) PROVE Kinds'
  BY <1>26 DEF TakeBuffer, At, Yield, TypeOK, TaskTypes
<1>27. ASSUME NEW t \in Finalizers, FlushBuffer(t) PROVE Kinds'
  BY <1>27 DEF FlushBuffer, At, Stores, GivesUp, Yield, TypeOK, TaskTypes
<1>28. ASSUME NEW t \in Finalizers, PopAndReport(t) PROVE Kinds'
  BY <1>28 DEF PopAndReport, At, Yield, TypeOK, TaskTypes
<1>29. ASSUME NEW t \in Finalizers \cup {Reconciler}, CompleteOrAbort(t) PROVE Kinds'
  BY <1>29 DEF CompleteOrAbort, At, Yield, TypeOK, TaskTypes
<1>30. ASSUME NEW t \in Tasks, WriteLands(t) PROVE Kinds'
  BY <1>30 DEF WriteLands, localVars, memoryVars, s3Vars, TypeOK, TaskTypes
<1>31. ASSUME NEW t \in Tasks, Report(t) PROVE Kinds'
  BY <1>31 DEF Report, At, Yield, TypeOK, TaskTypes
<1>32. ASSUME NEW t \in Tasks, Acked(t) PROVE Kinds'
  BY <1>32 DEF Acked, At, Saved, Finished, Yield, TypeOK, TaskTypes
<1>33. ASSUME NEW t \in Tasks, Unacked(t) PROVE Kinds'
  BY <1>33 DEF Unacked, At, Finished, Yield, TypeOK, TaskTypes
<1>34. ASSUME NEW t \in Tasks, Deleted(t) PROVE Kinds'
  BY <1>34 DEF Deleted, At, Finished, Yield, TypeOK, TaskTypes
<1>35. ASSUME ListUnfinished PROVE Kinds'
  BY <1>35 DEF ListUnfinished, At, Finished, Yield, TypeOK, TaskTypes
<1>36. ASSUME SkipLive PROVE Kinds'
  BY <1>36 DEF SkipLive, At, Finished, Yield, TypeOK, TaskTypes
<1>37. ASSUME Recover PROVE Kinds'
  BY <1>37 DEF Recover, At, Yield, TypeOK, TaskTypes
<1>38. ASSUME RecoveredSaved PROVE Kinds'
  BY <1>38 DEF RecoveredSaved, At, Yield, TypeOK, TaskTypes
<1>39. ASSUME Crash PROVE Kinds'
  BY <1>39 DEF Crash, TypeOK, TaskTypes
<1> QED
  BY <1>1, <1>2, <1>3, <1>4, <1>5, <1>6, <1>7, <1>8, <1>9, <1>10, <1>11, <1>12, <1>13,
     <1>14, <1>15, <1>16, <1>17, <1>18, <1>19, <1>20, <1>21, <1>22, <1>23, <1>24, <1>25,
     <1>26, <1>27, <1>28, <1>29, <1>30, <1>31, <1>32, <1>33, <1>34, <1>35, <1>36, <1>37,
     <1>38, <1>39
     DEF Next, StartStep, AppendStep, StopStep, FinalizeStep, ReportStep, ReconcilerStep

\* A stream opens only when every other one has ended.
LEMMA OneConnStep ==
    ASSUME ~Overlap, ~BreakAnywhere, AllInv, Next
    PROVE  OneConn'
<1> USE TaskFacts, AcquireMoves DEF AllInv, SeqInv, Inv, OneConn, Detached
<1>1. ASSUME NEW s \in Streams, OpenStream(s) PROVE OneConn'
  BY <1>1 DEF OpenStream, TypeOK, TaskTypes
<1>2. ASSUME NEW s \in Streams, LookUp(s) PROVE OneConn'
  BY <1>2 DEF LookUp, At, CreationHeld, Yield, TypeOK, TaskTypes
<1>3. ASSUME NEW s \in Streams, ResumeCancelsTimer(s) PROVE OneConn'
  BY <1>3, CancelTarget DEF ResumeCancelsTimer, At, TypeOK, TaskTypes
<1>4. ASSUME NEW s \in Streams, Resume(s) PROVE OneConn'
  BY <1>4 DEF Resume, At, Yield, TypeOK, TaskTypes
<1>5. ASSUME NEW s \in Streams, Resumed(s) PROVE OneConn'
  BY <1>5 DEF Resumed, At, Yield, TypeOK, TaskTypes
<1>6. ASSUME NEW s \in Streams, Reuse(s) PROVE OneConn'
  BY <1>6 DEF Reuse, At, Yield, TypeOK, TaskTypes
<1>7. ASSUME NEW s \in Streams, DropStale(s) PROVE OneConn'
  BY <1>7 DEF DropStale, At, Yield, TypeOK, TaskTypes
<1>8. ASSUME NEW s \in Streams, CreateUpload(s) PROVE OneConn'
  BY <1>8 DEF CreateUpload, At, Yield, TypeOK, TaskTypes
<1>9. ASSUME NEW s \in Streams, CreateFails(s) PROVE OneConn'
  BY <1>9 DEF CreateFails, At, Yield, TypeOK, TaskTypes
<1>10. ASSUME NEW s \in Streams, Created(s) PROVE OneConn'
  BY <1>10 DEF Created, At, TypeOK, TaskTypes
<1>11. ASSUME NEW s \in Streams, RecvAudio(s) PROVE OneConn'
  BY <1>11 DEF RecvAudio, At, Yield, TypeOK, TaskTypes
<1>12. ASSUME NEW s \in Streams, AppendFrame(s) PROVE OneConn'
  BY <1>12 DEF AppendFrame, At, Yield, TypeOK, TaskTypes
<1>13. ASSUME NEW s \in Streams, UploadPart(s) PROVE OneConn'
  BY <1>13 DEF UploadPart, At, Stores, GivesUp, Yield, Go, TypeOK, TaskTypes
<1>14. ASSUME NEW s \in Streams, AppendSaved(s) PROVE OneConn'
  BY <1>14 DEF AppendSaved, At, Yield, TypeOK, TaskTypes
<1>15. ASSUME NEW s \in Streams, GracefulEnd(s) PROVE OneConn'
  BY <1>15 DEF GracefulEnd, At, Yield, Go, TypeOK, TaskTypes
<1>16. ASSUME NEW s \in Streams, StopCancelsTimer(s) PROVE OneConn'
  BY <1>16 DEF StopCancelsTimer, At, NoCancel
<1>17. ASSUME NEW s \in Streams, BreakReading(s) PROVE OneConn'
  BY <1>17 DEF BreakReading, At, Go, TypeOK, TaskTypes
<1>18. ASSUME NEW s \in Streams, BreakMidCall(s) PROVE OneConn'
  BY <1>18 DEF BreakMidCall, TypeOK, TaskTypes
<1>19. ASSUME NEW s \in Streams, Drop(s) PROVE OneConn'
  BY <1>19 DEF Drop, At, Yield, TypeOK, TaskTypes
<1>20. ASSUME NEW s \in Streams, GraceWait(s) PROVE OneConn'
  BY <1>20 DEF GraceWait, At, Yield, TypeOK, TaskTypes
<1>21. ASSUME NEW s \in Streams, ArmTimer(s) PROVE OneConn'
  BY <1>21 DEF ArmTimer, At, TypeOK, TaskTypes
<1>22. ASSUME NEW s \in Streams, TimerFires(s) PROVE OneConn'
  BY <1>22 DEF TimerFires, At, Yield, TypeOK, TaskTypes
<1>23. ASSUME NEW s \in Streams, Claim(s) PROVE OneConn'
  BY <1>23 DEF Claim, At, Go, Yield, TypeOK, TaskTypes
<1>24. ASSUME NEW t \in Finalizers, BeginFinalize(t) PROVE OneConn'
  BY <1>24 DEF BeginFinalize, At, Yield, TypeOK, TaskTypes
<1>25. ASSUME NEW t \in Finalizers, SkipFinalize(t) PROVE OneConn'
  BY <1>25 DEF SkipFinalize, At, Yield, TypeOK, TaskTypes
<1>26. ASSUME NEW t \in Finalizers, TakeBuffer(t) PROVE OneConn'
  BY <1>26 DEF TakeBuffer, At, Yield, TypeOK, TaskTypes
<1>27. ASSUME NEW t \in Finalizers, FlushBuffer(t) PROVE OneConn'
  BY <1>27 DEF FlushBuffer, At, Stores, GivesUp, Yield, TypeOK, TaskTypes
<1>28. ASSUME NEW t \in Finalizers, PopAndReport(t) PROVE OneConn'
  BY <1>28 DEF PopAndReport, At, Yield, TypeOK, TaskTypes
<1>29. ASSUME NEW t \in Finalizers \cup {Reconciler}, CompleteOrAbort(t) PROVE OneConn'
  BY <1>29 DEF CompleteOrAbort, At, Yield, TypeOK, TaskTypes
<1>30. ASSUME NEW t \in Tasks, WriteLands(t) PROVE OneConn'
  BY <1>30 DEF WriteLands, localVars, memoryVars, s3Vars, TypeOK, TaskTypes
<1>31. ASSUME NEW t \in Tasks, Report(t) PROVE OneConn'
  BY <1>31 DEF Report, At, Yield, TypeOK, TaskTypes
<1>32. ASSUME NEW t \in Tasks, Acked(t) PROVE OneConn'
  BY <1>32 DEF Acked, At, Saved, Finished, Yield, TypeOK, TaskTypes
<1>33. ASSUME NEW t \in Tasks, Unacked(t) PROVE OneConn'
  BY <1>33 DEF Unacked, At, Finished, Yield, TypeOK, TaskTypes
<1>34. ASSUME NEW t \in Tasks, Deleted(t) PROVE OneConn'
  BY <1>34 DEF Deleted, At, Finished, Yield, TypeOK, TaskTypes
<1>35. ASSUME ListUnfinished PROVE OneConn'
  BY <1>35 DEF ListUnfinished, At, Finished, Yield, TypeOK, TaskTypes
<1>36. ASSUME SkipLive PROVE OneConn'
  BY <1>36 DEF SkipLive, At, Finished, Yield, TypeOK, TaskTypes
<1>37. ASSUME Recover PROVE OneConn'
  BY <1>37 DEF Recover, At, Yield, TypeOK, TaskTypes
<1>38. ASSUME RecoveredSaved PROVE OneConn'
  BY <1>38 DEF RecoveredSaved, At, Yield, TypeOK, TaskTypes
<1>39. ASSUME Crash PROVE OneConn'
  BY <1>39 DEF Crash, TypeOK, TaskTypes
<1> QED
  BY <1>1, <1>2, <1>3, <1>4, <1>5, <1>6, <1>7, <1>8, <1>9, <1>10, <1>11, <1>12, <1>13,
     <1>14, <1>15, <1>16, <1>17, <1>18, <1>19, <1>20, <1>21, <1>22, <1>23, <1>24, <1>25,
     <1>26, <1>27, <1>28, <1>29, <1>30, <1>31, <1>32, <1>33, <1>34, <1>35, <1>36, <1>37,
     <1>38, <1>39
     DEF Next, StartStep, AppendStep, StopStep, FinalizeStep, ReportStep, ReconcilerStep

FreshPcs == {"idle", "enter", "create"}

OffStage ==
    /\ UNCHANGED <<registry, lock, graceTask, buffer, received>>
    /\ \A u \in Streams : sess'[u] = sess[u]
    /\ registry # None => upload'[registry] = upload[registry]
    /\ \A f \in Finalizers :
        /\ me'[f] = me[f] /\ payload'[f] = payload[f]
        /\ pc'[f] = pc[f] \/ (pc[f] \in OffPcs /\ pc'[f] \in OffPcs)
        /\ pc'[f] \in FreshPcs => pc[f] \in FreshPcs
        /\ loop = f /\ pc[f] \notin OffPcs => loop' = f

\* Who answers for a session is known by its place, and a registered session has an owner.
LEMMA OwnerFacts ==
    ASSUME AllInv
    PROVE  /\ \A t \in Finalizers : Owns(t) => OnlyOwner(t)
           /\ registry # None => \E t \in Finalizers : OnlyOwner(t)
           /\ registry = None => \A t \in Finalizers : ~Owns(t)
<1>1. CASE NoOwner
  BY <1>1 DEF NoOwner
<1>2. CASE \E o \in Finalizers : OnlyOwner(o)
  <2>1. PICK o \in Finalizers : OnlyOwner(o)
    BY <1>2
  <2> QED
    BY <2>1, StreamsAssumption DEF OnlyOwner, OwnerState
<1> QED
  BY <1>1, <1>2 DEF AllInv, SeqInv, Owners

\* A start never finds a live session to reuse.
LEMMA NoReuse ==
    ASSUME AllInv, NEW s \in Streams
    PROVE  ~Reuse(s)
<1> SUFFICES ASSUME Reuse(s) PROVE FALSE
  OBVIOUS
<1> USE TaskFacts DEF AllInv, SeqInv
<1>1. /\ pc[Conn(s)] = "resume" /\ me[Conn(s)] \in Streams
      /\ sess[me[Conn(s)]].status = "recording"
  BY DEF Reuse, At, Holds, Reusable
<1>2. registry = me[Conn(s)] /\ registry # None
  BY <1>1, StreamsAssumption DEF Resumes, Waits, AlreadyFinal
<1>3. PICK t \in Finalizers : OnlyOwner(t)
  BY <1>2, OwnerFacts
<1>4. pc[t] \in RecordingPcs \cup EndingPcs /\ (pc[t] \in EndingPcs => \E r \in Streams : t = Conn(r))
  BY <1>1, <1>2, <1>3
     DEF OnlyOwner, OwnerState, Owns, OwnerPcs, WaitingPcs, AlreadyFinal, Resuming
<1>5. PICK r \in Streams : t = Conn(r)
  BY <1>4 DEF Finalizers, Kinds, RecordingPcs, TimerPcs, FinalizePcs, ReportPcs
<1>6. r = s
  BY <1>1, <1>4, <1>5 DEF OneConn, Detached, RecordingPcs, EndingPcs
<1> QED
  BY <1>1, <1>4, <1>5, <1>6 DEF RecordingPcs, EndingPcs

\* A start that gets the lock of a session nobody waits for any more finds it popped.
LEMMA StaleIsPopped ==
    ASSUME AllInv, NEW s \in Streams, DropStale(s)
    PROVE  registry = None
<1> SUFFICES ASSUME registry # None PROVE FALSE
  OBVIOUS
<1> USE TaskFacts DEF AllInv, SeqInv
<1>1. /\ pc[Conn(s)] = "resume" /\ me[Conn(s)] \in Streams /\ Holds(Conn(s))
      /\ sess[me[Conn(s)]].status \notin {"recording", "graceWait"}
      /\ loop \in {Idle, Conn(s)}
  BY DEF DropStale, At, Holds, Reusable, Resumable
<1>2. registry = me[Conn(s)]
  BY <1>1 DEF Resumes, Waits
<1>3. PICK t \in Finalizers : OnlyOwner(t)
  BY OwnerFacts
<1>4. pc[t] \in EndingPcs \cup {"saving"} /\ me[t] = registry
  BY <1>1, <1>2, <1>3
     DEF OnlyOwner, OwnerState, Owns, OwnerPcs, RecordingPcs, WaitingPcs, EndingPcs, Resuming
<1>5. t # Conn(s)
  BY <1>1, <1>4 DEF EndingPcs
<1>6. PICK g \in Streams : t = Grace(g)
  BY <1>1, <1>4, <1>5 DEF OneConn, Detached, EndingPcs, Finalizers
<1>7. pc[t] \notin {"begin", "finalize"}
  BY <1>1, <1>6 DEF Timers
<1>8. Holds(t)
  BY <1>4, <1>7 DEF Inv, LockInv, HoldingPcs, EndingPcs
<1> QED
  BY <1>1, <1>2, <1>4, <1>5, <1>8 DEF Holds, First

\* The steps that are possible, one stream at a time.
StageStep(s) ==
    \/ LookUp(s) /\ registry # None
    \/ ResumeCancelsTimer(s) \/ Resume(s) \/ Resumed(s) \/ DropStale(s) \/ CreateUpload(s)
    \/ Created(s) \/ RecvAudio(s) \/ AppendFrame(s) \/ UploadPart(s) \/ AppendSaved(s)
    \/ GracefulEnd(s) \/ BreakReading(s) \/ Drop(s) \/ GraceWait(s) \/ ArmTimer(s)
    \/ TimerFires(s) \/ Claim(s)

EndStep(t) ==
    \/ BeginFinalize(t) \/ TakeBuffer(t) \/ FlushBuffer(t) \/ CompleteOrAbort(t)
    \/ PopAndReport(t)

\* Every other step is off stage: it neither takes nor gives up a lock, and touches no
\* session that is registered.
LEMMA StageStepOrOff ==
    ASSUME ~Overlap, ~BreakAnywhere, AllInv, Next
    PROVE  OffStage \/ Crash \/ (\E s \in Streams : StageStep(s))
             \/ (\E t \in Finalizers : EndStep(t))
<1> DEFINE Possible ==
      OffStage \/ Crash \/ (\E s \in Streams : StageStep(s)) \/ (\E t \in Finalizers : EndStep(t))
<1> USE TaskFacts DEF AllInv
<1>1. ASSUME NEW s \in Streams, OpenStream(s) PROVE Possible
  BY <1>1
     DEF OpenStream, OffStage, OffPcs, FreshPcs, Inv, TypeOK, TaskTypes, memoryVars, s3Vars
<1>2. ASSUME NEW s \in Streams, LookUp(s) PROVE Possible
  BY <1>2 DEF LookUp, At, Yield, OffStage, OffPcs, FreshPcs, StageStep, Inv, TypeOK, TaskTypes, memoryVars, s3Vars
<1>3. ASSUME NEW s \in Streams, ResumeCancelsTimer(s) PROVE Possible
  BY <1>3 DEF StageStep
<1>4. ASSUME NEW s \in Streams, Resume(s) PROVE Possible
  BY <1>4 DEF StageStep
<1>5. ASSUME NEW s \in Streams, Resumed(s) PROVE Possible
  BY <1>5 DEF StageStep
<1>6. ASSUME NEW s \in Streams, Reuse(s) PROVE Possible
  BY <1>6, NoReuse
<1>7. ASSUME NEW s \in Streams, DropStale(s) PROVE Possible
  BY <1>7 DEF StageStep
<1>8. ASSUME NEW s \in Streams, CreateUpload(s) PROVE Possible
  BY <1>8 DEF StageStep
<1>9. ASSUME NEW s \in Streams, CreateFails(s) PROVE Possible
  BY <1>9
     DEF CreateFails, At, Yield, OffStage, OffPcs, FreshPcs, Inv, TypeOK, TaskTypes,
         memoryVars, s3Vars
<1>10. ASSUME NEW s \in Streams, Created(s) PROVE Possible
  BY <1>10 DEF StageStep
<1>11. ASSUME NEW s \in Streams, RecvAudio(s) PROVE Possible
  BY <1>11 DEF StageStep
<1>12. ASSUME NEW s \in Streams, AppendFrame(s) PROVE Possible
  BY <1>12 DEF StageStep
<1>13. ASSUME NEW s \in Streams, UploadPart(s) PROVE Possible
  BY <1>13 DEF StageStep
<1>14. ASSUME NEW s \in Streams, AppendSaved(s) PROVE Possible
  BY <1>14 DEF StageStep
<1>15. ASSUME NEW s \in Streams, GracefulEnd(s) PROVE Possible
  BY <1>15 DEF StageStep
<1>16. ASSUME NEW s \in Streams, StopCancelsTimer(s) PROVE Possible
  BY <1>16 DEF StopCancelsTimer, At, SeqInv, NoCancel
<1>17. ASSUME NEW s \in Streams, BreakReading(s) PROVE Possible
  BY <1>17 DEF StageStep
<1>18. ASSUME NEW s \in Streams, BreakMidCall(s) PROVE Possible
  BY <1>18 DEF BreakMidCall
<1>19. ASSUME NEW s \in Streams, Drop(s) PROVE Possible
  BY <1>19 DEF StageStep
<1>20. ASSUME NEW s \in Streams, GraceWait(s) PROVE Possible
  BY <1>20 DEF StageStep
<1>21. ASSUME NEW s \in Streams, ArmTimer(s) PROVE Possible
  BY <1>21 DEF StageStep
<1>22. ASSUME NEW s \in Streams, TimerFires(s) PROVE Possible
  BY <1>22 DEF StageStep
<1>23. ASSUME NEW s \in Streams, Claim(s) PROVE Possible
  BY <1>23 DEF StageStep
<1>24. ASSUME NEW t \in Finalizers, BeginFinalize(t) PROVE Possible
  BY <1>24 DEF EndStep
<1>25. ASSUME NEW t \in Finalizers, SkipFinalize(t) PROVE Possible
  <2>1. pc[t] = "finalize" /\ AlreadyFinal(sess[me[t]].status)
    BY <1>25 DEF SkipFinalize, At
  <2>2. Owns(t)
    BY <2>1 DEF Owns, OwnerPcs, EndingPcs
  <2> QED
    BY <1>25, <2>1, <2>2, OwnerFacts
       DEF SkipFinalize, Holds, OnlyOwner, OwnerState, EndingPcs, AlreadyFinal
<1>26. ASSUME NEW t \in Finalizers, TakeBuffer(t) PROVE Possible
  BY <1>26 DEF EndStep
<1>27. ASSUME NEW t \in Finalizers, FlushBuffer(t) PROVE Possible
  BY <1>27 DEF EndStep
<1>28. ASSUME NEW t \in Finalizers, PopAndReport(t) PROVE Possible
  BY <1>28 DEF EndStep
<1>29. ASSUME NEW t \in Finalizers \cup {Reconciler}, CompleteOrAbort(t) PROVE Possible
  <2>1. CASE t \in Finalizers
    BY <1>29, <2>1 DEF EndStep
  <2>2. CASE t = Reconciler
    <3>1. pc[t] = "complete" /\ me[t] = None
      BY <1>29, <2>2 DEF CompleteOrAbort, At, TruthInv, Roles
    <3>2. \A u \in Streams : sess'[u] = sess[u]
      BY <1>29, <3>1, StreamsAssumption DEF CompleteOrAbort, AfterError, Inv, TypeOK, MemoryTypes
    <3>3. registry # None => upload'[registry] = upload[registry]
      BY <1>29, <2>2, <3>1
         DEF CompleteOrAbort, Closes, s3Vars, SeqInv, Recoveries, Inv, TypeOK, LockTypes, WorldTypes
    <3> QED
      BY <1>29, <2>2, <3>2, <3>3
         DEF CompleteOrAbort, At, Yield, OffStage, OffPcs, FreshPcs, Inv, TypeOK, TaskTypes
  <2> QED
    BY <2>1, <2>2
<1>30. ASSUME NEW t \in Tasks, WriteLands(t) PROVE Possible
  BY <1>30
     DEF WriteLands, localVars, memoryVars, s3Vars, OffStage, OffPcs, FreshPcs, Inv, TypeOK,
         TaskTypes
<1>31. ASSUME NEW t \in Tasks, Report(t) PROVE Possible
  BY <1>31
     DEF Report, At, Yield, OffStage, OffPcs, FreshPcs, Inv, TypeOK, TaskTypes, memoryVars,
         s3Vars
<1>32. ASSUME NEW t \in Tasks, Acked(t) PROVE Possible
  BY <1>32
     DEF Acked, At, Saved, Finished, Yield, OffStage, OffPcs, FreshPcs, Inv, TypeOK,
         TaskTypes, memoryVars, s3Vars
<1>33. ASSUME NEW t \in Tasks, Unacked(t) PROVE Possible
  BY <1>33
     DEF Unacked, At, Finished, Yield, OffStage, OffPcs, FreshPcs, Inv, TypeOK, TaskTypes,
         memoryVars, s3Vars
<1>34. ASSUME NEW t \in Tasks, Deleted(t) PROVE Possible
  BY <1>34
     DEF Deleted, At, Finished, Yield, OffStage, OffPcs, FreshPcs, Inv, TypeOK, TaskTypes,
         memoryVars, s3Vars
<1>35. ASSUME ListUnfinished PROVE Possible
  BY <1>35, StreamsAssumption
     DEF ListUnfinished, At, Finished, Yield, OffStage, OffPcs, FreshPcs, Inv, TypeOK,
         TaskTypes, memoryVars, s3Vars, MemoryTypes
<1>36. ASSUME SkipLive PROVE Possible
  BY <1>36, StreamsAssumption
     DEF SkipLive, At, Finished, Yield, OffStage, OffPcs, FreshPcs, Inv, TypeOK, TaskTypes,
         memoryVars, s3Vars
<1>37. ASSUME Recover PROVE Possible
  BY <1>37, StreamsAssumption
     DEF Recover, At, Yield, OffStage, OffPcs, FreshPcs, Inv, TypeOK, TaskTypes, memoryVars,
         s3Vars
<1>38. ASSUME RecoveredSaved PROVE Possible
  BY <1>38, StreamsAssumption
     DEF RecoveredSaved, At, Yield, OffStage, OffPcs, FreshPcs, Inv, TypeOK, TaskTypes,
         memoryVars, s3Vars
<1>39. ASSUME Crash PROVE Possible
  BY <1>39
<1> QED
  BY <1>1, <1>2, <1>3, <1>4, <1>5, <1>6, <1>7, <1>8, <1>9, <1>10, <1>11, <1>12, <1>13,
     <1>14, <1>15, <1>16, <1>17, <1>18, <1>19, <1>20, <1>21, <1>22, <1>23, <1>24, <1>25,
     <1>26, <1>27, <1>28, <1>29, <1>30, <1>31, <1>32, <1>33, <1>34, <1>35, <1>36, <1>37,
     <1>38, <1>39
     DEF Next, StartStep, AppendStep, StopStep, FinalizeStep, ReportStep, ReconcilerStep

\* A step of one task leaves the others where they are: nobody becomes the owner of a
\* session by what another task does.
LEMMA OthersStay ==
    ASSUME AllInv, NEW c \in Finalizers, loop \in {Idle, c}, NEW d \in Finalizers, d # c,
           pc'[d] = pc[d], me'[d] = me[d],
           \/ \E s \in Streams : c = Conn(s) /\ ~Detached(s)
           \/ \A u \in Streams : sess'[u].status = "graceWait" => sess[u].status = "graceWait"
    PROVE  (Owns(d) => pc[d] \in OwnerPcs) /\ (Owns(d)' <=> Owns(d))
<1> USE TaskFacts DEF AllInv, SeqInv
<1>1. ASSUME pc[d] = "resume"
      PROVE  ~Resuming(d) /\ ~Resuming(d)'
  <2>1. me[d] \in Streams /\ (sess[me[d]].status = "graceWait" => loop = d)
    BY <1>1 DEF Resumes, Waits
  <2>2. sess[me[d]].status # "graceWait"
    BY <2>1
  <2>3. CASE \E s \in Streams : c = Conn(s) /\ ~Detached(s)
    <3>1. PICK r \in Streams : d = Conn(r)
      BY <1>1 DEF Finalizers, Kinds, TimerPcs, FinalizePcs, ReportPcs
    <3> QED
      BY <1>1, <2>3, <3>1 DEF OneConn, Detached
  <2>4. CASE \A u \in Streams : sess'[u].status = "graceWait" => sess[u].status = "graceWait"
    BY <2>1, <2>2, <2>4 DEF Resuming
  <2> QED
    BY <2>3, <2>4
<1>2. CASE pc[d] = "resume"
  BY <1>1, <1>2 DEF Owns
<1>3. CASE pc[d] # "resume"
  BY <1>3 DEF Owns, Resuming
<1> QED
  BY <1>2, <1>3

\* The owner makes a step and stays the owner.
LEMMA OwnerGoesOn ==
    ASSUME AllInv, NEW c \in Finalizers, Owns(c), loop \in {Idle, c},
           \A d \in Finalizers : d # c => pc'[d] = pc[d] /\ me'[d] = me[d],
           \/ \E s \in Streams : c = Conn(s) /\ ~Detached(s)
           \/ \A u \in Streams : sess'[u].status = "graceWait" => sess[u].status = "graceWait",
           pc'[c] \in OwnerPcs, OwnerState(c)'
    PROVE  Owners'
<1>1. ASSUME NEW d \in Finalizers, Owns(d)' PROVE d = c
  <2> SUFFICES ASSUME d # c PROVE FALSE
    OBVIOUS
  <2>1. Owns(d)
    BY <1>1, OthersStay
  <2> QED
    BY <2>1, OwnerFacts DEF OnlyOwner
<1> QED
  BY <1>1 DEF Owners, OnlyOwner, Owns

\* A task in one of an owner's places is the owner ...
LEMMA OwnerAt ==
    ASSUME AllInv, NEW c \in Finalizers, pc[c] \in OwnerPcs
    PROVE  Owns(c) /\ OwnerState(c) /\ registry # None /\ registry \in Streams
  BY OwnerFacts DEF Owns, OnlyOwner, OwnerState

\* ... and stays it when it moves on within a phase and leaves the session as it was.
LEMMA SamePhase ==
    ASSUME AllInv, NEW c \in Finalizers, loop \in {Idle, c},
           NEW l, pc' = [pc EXCEPT ![c] = l],
           me' = [me EXCEPT ![c] = registry] \/ (me' = me /\ pc[c] # "sleep"),
           UNCHANGED <<registry, graceTask, upload>>,
           \A u \in Streams : sess'[u].status = sess[u].status,
           \/ pc[c] \in RecordingPcs /\ l \in RecordingPcs
           \/ pc[c] \in EndingPcs /\ l \in EndingPcs
           \/ pc[c] = "sleep" /\ l = "claim"
    PROVE  Owners'
<1>1. pc[c] \in OwnerPcs /\ l \in OwnerPcs
  BY DEF OwnerPcs, WaitingPcs
<1>2. Owns(c) /\ OwnerState(c) /\ registry \in Streams
  BY <1>1, OwnerAt
<1>3. /\ pc'[c] = l /\ me'[c] = registry
      /\ \A d \in Finalizers : d # c => pc'[d] = pc[d] /\ me'[d] = me[d]
  BY <1>2, TaskFacts DEF OwnerState, AllInv, Inv, TypeOK, TaskTypes
<1>4. OwnerState(c)'
  BY <1>2, <1>3 DEF OwnerState, RecordingPcs, WaitingPcs, EndingPcs
<1> QED
  BY <1>1, <1>2, <1>3, <1>4, OwnerGoesOn

\* Owners is inductive.
LEMMA OwnersStep ==
    ASSUME ~Overlap, ~BreakAnywhere, AllInv, Next
    PROVE  Owners'
<1> USE TaskFacts, AcquireMoves, StreamsAssumption DEF AllInv
<1>2. ASSUME NEW s \in Streams, LookUp(s), registry # None PROVE Owners'
  <2>1. PICK o \in Finalizers : OnlyOwner(o)
    BY <1>2, OwnerFacts
  <2>2. /\ pc[Conn(s)] = "enter" /\ ~Detached(s) /\ loop \in {Idle, Conn(s)} /\ o # Conn(s)
        /\ pc'[Conn(s)] = "resume" /\ me'[Conn(s)] = registry /\ registry \in Streams
        /\ \A d \in Finalizers : d # Conn(s) => pc'[d] = pc[d] /\ me'[d] = me[d]
        /\ UNCHANGED <<registry, sess, graceTask, upload>>
    <3>1. /\ pc[Conn(s)] = "enter" /\ loop \in {Idle, Conn(s)} /\ registry \in Streams
          /\ UNCHANGED <<registry, sess, graceTask, upload>>
      BY <1>2 DEF LookUp, At, memoryVars, s3Vars, Inv, TypeOK, LockTypes
    <3>2. ~Detached(s) /\ o # Conn(s)
      BY <2>1, <3>1
         DEF Detached, OnlyOwner, Owns, Resuming, OwnerPcs, RecordingPcs, WaitingPcs, EndingPcs
    <3>3. /\ pc'[Conn(s)] = "resume" /\ me'[Conn(s)] = registry
          /\ \A d \in Finalizers : d # Conn(s) => pc'[d] = pc[d] /\ me'[d] = me[d]
      BY <1>2 DEF LookUp, Acquire, Inv, TypeOK, TaskTypes
    <3> QED
      BY <3>1, <3>2, <3>3
  <2>3. sess[registry].status = "graceWait" => graceTask[registry] # None
    <3> SUFFICES ASSUME sess[registry].status = "graceWait", graceTask[registry] = None
                 PROVE  FALSE
      OBVIOUS
    <3>1. pc[o] \in {"dropsaving", "resume"}
      BY <2>1
         DEF OnlyOwner, OwnerState, Owns, Resuming, OwnerPcs, RecordingPcs, WaitingPcs, EndingPcs,
             AlreadyFinal
    <3>2. PICK r \in Streams : o = Conn(r)
      BY <3>1 DEF Finalizers, SeqInv, Kinds, TimerPcs, FinalizePcs, ReportPcs
    <3> QED
      BY <2>2, <3>1, <3>2 DEF SeqInv, OneConn, Detached
  <2>4. ~Owns(Conn(s))'
    BY <2>2, <2>3 DEF Owns, Resuming, OwnerPcs, RecordingPcs, WaitingPcs, EndingPcs
  <2>5. \A d \in Finalizers : Owns(d)' => d = o
    BY <2>1, <2>2, <2>4, OthersStay DEF OnlyOwner
  <2>6. Owns(o)' /\ OwnerState(o)'
    BY <2>1, <2>2, OthersStay DEF OnlyOwner, OwnerState
  <2> QED
    BY <2>5, <2>6 DEF Owners, OnlyOwner
<1>3. ASSUME NEW s \in Streams, ResumeCancelsTimer(s) PROVE Owners'
  <2> DEFINE g == Grace(graceTask[me[Conn(s)]])
  <2>1. /\ pc[Conn(s)] = "resume" /\ ~Detached(s) /\ loop \in {Idle, Conn(s)}
        /\ me[Conn(s)] \in Streams /\ sess[me[Conn(s)]].status = "graceWait"
        /\ graceTask[me[Conn(s)]] \in Streams
    BY <1>3, CancelTarget DEF ResumeCancelsTimer, At, Resumable, Detached
  <2>2. registry = me[Conn(s)]
    BY <2>1 DEF SeqInv, Resumes, Waits, AlreadyFinal
  <2>3. PICK o \in Finalizers : OnlyOwner(o)
    BY <2>1, <2>2, OwnerFacts
  <2>4. o # Conn(s)
    BY <2>1, <2>3 DEF OnlyOwner, Owns, Resuming, OwnerPcs, RecordingPcs, WaitingPcs, EndingPcs
  <2>5. pc[o] \in {"sleep", "claim"}
    <3>1. pc[o] \in {"dropsaving", "resume", "sleep", "claim"}
      BY <2>1, <2>2, <2>3
         DEF OnlyOwner, OwnerState, Owns, Resuming, OwnerPcs, RecordingPcs, WaitingPcs, EndingPcs,
             AlreadyFinal
    <3> QED
      BY <2>1, <2>4, <3>1
         DEF Finalizers, SeqInv, Kinds, TimerPcs, FinalizePcs, ReportPcs, OneConn, Detached
  <2>6. o = g /\ upload[registry] = "open"
    BY <2>2, <2>3, <2>5 DEF OnlyOwner, OwnerState
  <2>7. /\ pc'[g] = "end" /\ pc'[Conn(s)] = "resume" /\ me'[Conn(s)] = me[Conn(s)]
        /\ \A d \in Finalizers : d \notin {g, Conn(s)} => pc'[d] = pc[d] /\ me'[d] = me[d]
        /\ UNCHANGED <<registry, sess, upload>> /\ graceTask'[registry] = None
    BY <1>3, <2>1, <2>2, <2>5, <2>6
       DEF ResumeCancelsTimer, Cancelled, CallOutlives, s3Vars, Inv, TypeOK, TaskTypes, MemoryTypes
  <2>8. Owns(Conn(s))' /\ OwnerState(Conn(s))'
    BY <2>1, <2>2, <2>6, <2>7
       DEF Owns, Resuming, OwnerState, RecordingPcs, WaitingPcs, EndingPcs
  <2>9. ASSUME NEW d \in Finalizers, Owns(d)' PROVE d = Conn(s)
    <3>1. d # g
      BY <2>7, <2>9 DEF Owns, Resuming, OwnerPcs, RecordingPcs, WaitingPcs, EndingPcs
    <3> QED
      BY <2>1, <2>3, <2>6, <2>7, <2>9, <3>1, OthersStay DEF OnlyOwner
  <2> QED
    BY <2>8, <2>9 DEF Owners, OnlyOwner
<1>4. ASSUME NEW s \in Streams, Resume(s) PROVE Owners'
  <2>1. Owns(Conn(s)) /\ loop \in {Idle, Conn(s)}
    BY <1>4 DEF Resume, At, Resuming, Resumable, Owns, OwnerPcs, RecordingPcs, WaitingPcs, EndingPcs
  <2>2. OwnerState(Conn(s))
    BY <2>1, OwnerFacts DEF OnlyOwner
  <2>3. /\ pc'[Conn(s)] \in OwnerPcs
        /\ \A d \in Finalizers : d # Conn(s) => pc'[d] = pc[d] /\ me'[d] = me[d]
    BY <1>4
       DEF Resume, At, Yield, Acquire, OwnerPcs, RecordingPcs, WaitingPcs, EndingPcs, Inv,
           TypeOK, TaskTypes
  <2>4. \E r \in Streams : Conn(s) = Conn(r) /\ ~Detached(r)
    BY <1>4 DEF Resume, At, Detached
  <2>5. OwnerState(Conn(s))'
    BY <1>4, <2>2, StatusSet
       DEF Resume, At, Yield, OwnerState, Acquire, OwnerPcs, RecordingPcs, WaitingPcs,
           EndingPcs, Holds, memoryVars, s3Vars, Inv, TypeOK, TaskTypes, LockTypes,
           MemoryTypes
  <2> QED
    BY <2>1, <2>3, <2>4, <2>5, OwnerGoesOn
<1>5. ASSUME NEW s \in Streams, Resumed(s) PROVE Owners'
  <2>1. pc[Conn(s)] = "resaving" /\ loop \in {Idle, Conn(s)} /\ registry # None
    BY <1>5, OwnerAt DEF Resumed, At, OwnerPcs, RecordingPcs
  <2>2. /\ pc' = [pc EXCEPT ![Conn(s)] = "open"] /\ me' = me
        /\ sess' = sess /\ UNCHANGED <<registry, graceTask, upload>>
    BY <1>5, <2>1 DEF Resumed, Yield, memoryVars, s3Vars
  <2> QED
    BY <2>1, <2>2, SamePhase DEF RecordingPcs
<1>7. ASSUME NEW s \in Streams, DropStale(s) PROVE Owners'
  <2>1. registry = None /\ \A d \in Finalizers : ~Owns(d)
    BY <1>7, StaleIsPopped, OwnerFacts
  <2>2. /\ ~Detached(s) /\ loop \in {Idle, Conn(s)} /\ registry' = None
        /\ pc'[Conn(s)] = "create"
        /\ \A d \in Finalizers : d # Conn(s) => pc'[d] = pc[d] /\ me'[d] = me[d]
    BY <1>7 DEF DropStale, At, Yield, Detached, Inv, TypeOK, TaskTypes
  <2>3. \A d \in Finalizers : ~Owns(d)'
    BY <2>1, <2>2, OthersStay
       DEF Owns, Resuming, OwnerPcs, RecordingPcs, WaitingPcs, EndingPcs
  <2> QED
    BY <2>2, <2>3 DEF Owners, NoOwner
<1>8. ASSUME NEW s \in Streams, CreateUpload(s) PROVE Owners'
  <2>1. registry = None /\ \A d \in Finalizers : ~Owns(d)
    BY <1>8, OwnerFacts DEF CreateUpload, At, PutNeverClobbers
  <2>2. /\ ~Detached(s) /\ loop \in {Idle, Conn(s)} /\ registry' = s
        /\ pc'[Conn(s)] = "newsaving" /\ me'[Conn(s)] = s
        /\ \A d \in Finalizers : d # Conn(s) => pc'[d] = pc[d] /\ me'[d] = me[d]
        /\ sess'[s] = NewSession(s) /\ upload'[s] = "open" /\ graceTask'[s] = None
    BY <1>8
       DEF CreateUpload, At, Yield, Detached, SeqInv, FreshTimer, Inv, TypeOK, TaskTypes,
           MemoryTypes, WorldTypes
  <2>3. \A d \in Finalizers : d # Conn(s) => ~Owns(d)'
    BY <2>1, <2>2, OthersStay
  <2>4. Owns(Conn(s))' /\ OwnerState(Conn(s))'
    BY <2>2
       DEF Owns, OwnerState, OwnerPcs, RecordingPcs, WaitingPcs, EndingPcs, NewSession
  <2> QED
    BY <2>3, <2>4 DEF Owners, OnlyOwner
<1>10. ASSUME NEW s \in Streams, Created(s) PROVE Owners'
  <2>1. Owns(Conn(s)) /\ loop \in {Idle, Conn(s)}
    BY <1>10 DEF Created, At, Owns, OwnerPcs, RecordingPcs, WaitingPcs, EndingPcs
  <2>2. OwnerState(Conn(s))
    BY <2>1, OwnerFacts DEF OnlyOwner
  <2>3. /\ pc'[Conn(s)] \in OwnerPcs
        /\ \A d \in Finalizers : d # Conn(s) => pc'[d] = pc[d] /\ me'[d] = me[d]
    BY <1>10
       DEF Created, At, Acquire, OwnerPcs, RecordingPcs, WaitingPcs, EndingPcs, Inv, TypeOK,
           TaskTypes
  <2>4. \E r \in Streams : Conn(s) = Conn(r) /\ ~Detached(r)
    BY <1>10 DEF Created, At, Detached
  <2>5. OwnerState(Conn(s))'
    BY <1>10, <2>2
       DEF Created, At, OwnerState, Acquire, OwnerPcs, RecordingPcs, WaitingPcs, EndingPcs,
           memoryVars, s3Vars, Inv, TypeOK, TaskTypes, LockTypes, MemoryTypes
  <2> QED
    BY <2>1, <2>3, <2>4, <2>5, OwnerGoesOn
<1>11. ASSUME NEW s \in Streams, RecvAudio(s) PROVE Owners'
  <2>1. pc[Conn(s)] = "open" /\ loop \in {Idle, Conn(s)} /\ registry # None
    BY <1>11, OwnerAt DEF RecvAudio, At, OwnerPcs, RecordingPcs
  <2>2. /\ pc' = [pc EXCEPT ![Conn(s)] = "append"] /\ me' = [me EXCEPT ![Conn(s)] = registry]
        /\ sess' = sess /\ UNCHANGED <<registry, graceTask, upload>>
    BY <1>11, <2>1 DEF RecvAudio, Acquire, memoryVars, s3Vars
  <2> QED
    BY <2>1, <2>2, SamePhase DEF RecordingPcs
<1>12. ASSUME NEW s \in Streams, AppendFrame(s) PROVE Owners'
  <2>1. /\ pc[Conn(s)] = "append" /\ loop \in {Idle, Conn(s)}
        /\ UNCHANGED <<me, registry, graceTask, upload>>
    BY <1>12 DEF AppendFrame, At, s3Vars
  <2>2. PICK l \in {"upload", "appsaving"} : pc' = [pc EXCEPT ![Conn(s)] = l]
    BY <1>12 DEF AppendFrame, Yield
  <2>3. \A u \in Streams : sess'[u].status = sess[u].status
    BY <1>12 DEF AppendFrame
  <2> QED
    BY <2>1, <2>2, <2>3, SamePhase DEF RecordingPcs
<1>13. ASSUME NEW s \in Streams, UploadPart(s) PROVE Owners'
  <2>1. /\ pc[Conn(s)] = "upload" /\ loop \in {Idle, Conn(s)}
        /\ UNCHANGED <<me, registry, graceTask, upload>>
    BY <1>13 DEF UploadPart, At, s3Vars
  <2>2. PICK l \in {"appsaving", "broken"} : pc' = [pc EXCEPT ![Conn(s)] = l]
    BY <1>13 DEF UploadPart, Yield, Go
  <2>3. \A u \in Streams : sess'[u].status = sess[u].status
    BY <1>13, StoredSet DEF UploadPart, GivesUp, Inv, TypeOK, TaskTypes
  <2> QED
    BY <2>1, <2>2, <2>3, SamePhase DEF RecordingPcs
<1>14. ASSUME NEW s \in Streams, AppendSaved(s) PROVE Owners'
  <2>1. pc[Conn(s)] = "appsaving" /\ loop \in {Idle, Conn(s)} /\ registry # None
    BY <1>14, OwnerAt DEF AppendSaved, At, OwnerPcs, RecordingPcs
  <2>2. /\ pc' = [pc EXCEPT ![Conn(s)] = "open"] /\ me' = me
        /\ sess' = sess /\ UNCHANGED <<registry, graceTask, upload>>
    BY <1>14, <2>1 DEF AppendSaved, Yield, memoryVars, s3Vars
  <2> QED
    BY <2>1, <2>2, SamePhase DEF RecordingPcs
<1>15. ASSUME NEW s \in Streams, GracefulEnd(s) PROVE Owners'
  <2>1. Owns(Conn(s)) /\ loop \in {Idle, Conn(s)}
    BY <1>15 DEF GracefulEnd, At, Owns, OwnerPcs, RecordingPcs, WaitingPcs, EndingPcs
  <2>2. OwnerState(Conn(s))
    BY <2>1, OwnerFacts DEF OnlyOwner
  <2>3. /\ pc'[Conn(s)] \in OwnerPcs
        /\ \A d \in Finalizers : d # Conn(s) => pc'[d] = pc[d] /\ me'[d] = me[d]
    BY <1>15, <2>2
       DEF GracefulEnd, At, Yield, Go, Acquire, OwnerPcs, RecordingPcs, WaitingPcs,
           EndingPcs, Inv, TypeOK, TaskTypes, OwnerState
  <2>4. \E r \in Streams : Conn(s) = Conn(r) /\ ~Detached(r)
    BY <1>15 DEF GracefulEnd, At, Detached
  <2>5. /\ registry \in Streams /\ pc[Conn(s)] = "open"
        /\ UNCHANGED <<registry, sess, graceTask, upload>>
    BY <1>15, <2>2 DEF GracefulEnd, At, OwnerState, memoryVars, s3Vars
  <2>6. /\ me'[Conn(s)] = registry
        /\ pc'[Conn(s)] = IF graceTask[registry] = None THEN "begin" ELSE "cancel"
    BY <1>15, <2>5 DEF GracefulEnd, Go, Inv, TypeOK, TaskTypes
  <2>7. OwnerState(Conn(s))'
    BY <2>2, <2>5, <2>6 DEF OwnerState, RecordingPcs, WaitingPcs, EndingPcs
  <2> QED
    BY <2>1, <2>3, <2>4, <2>7, OwnerGoesOn
<1>17. ASSUME NEW s \in Streams, BreakReading(s) PROVE Owners'
  <2>1. pc[Conn(s)] = "open" /\ loop \in {Idle, Conn(s)} /\ registry # None
    BY <1>17, OwnerAt DEF BreakReading, At, OwnerPcs, RecordingPcs
  <2>2. /\ pc' = [pc EXCEPT ![Conn(s)] = "broken"] /\ me' = me
        /\ sess' = sess /\ UNCHANGED <<registry, graceTask, upload>>
    BY <1>17, <2>1 DEF BreakReading, Go, memoryVars, s3Vars
  <2> QED
    BY <2>1, <2>2, SamePhase DEF RecordingPcs
<1>19. ASSUME NEW s \in Streams, Drop(s) PROVE Owners'
  <2>1. pc[Conn(s)] = "broken" /\ loop \in {Idle, Conn(s)} /\ registry # None
    BY <1>19, OwnerAt DEF Drop, At, OwnerPcs, RecordingPcs
  <2>2. /\ pc' = [pc EXCEPT ![Conn(s)] = "drop"] /\ me' = [me EXCEPT ![Conn(s)] = registry]
        /\ sess' = sess /\ UNCHANGED <<registry, graceTask, upload>>
    BY <1>19, <2>1 DEF Drop, Acquire, memoryVars, s3Vars
  <2> QED
    BY <2>1, <2>2, SamePhase DEF RecordingPcs
<1>20. ASSUME NEW s \in Streams, GraceWait(s) PROVE Owners'
  <2>1. Owns(Conn(s)) /\ loop \in {Idle, Conn(s)}
    BY <1>20 DEF GraceWait, At, Owns, OwnerPcs, RecordingPcs, WaitingPcs, EndingPcs
  <2>2. OwnerState(Conn(s))
    BY <2>1, OwnerFacts DEF OnlyOwner
  <2>3. /\ pc'[Conn(s)] \in OwnerPcs
        /\ \A d \in Finalizers : d # Conn(s) => pc'[d] = pc[d] /\ me'[d] = me[d]
    BY <1>20
       DEF GraceWait, At, Yield, Acquire, OwnerPcs, RecordingPcs, WaitingPcs, EndingPcs,
           Inv, TypeOK, TaskTypes
  <2>4. \E r \in Streams : Conn(s) = Conn(r) /\ ~Detached(r)
    BY <1>20 DEF GraceWait, At, Detached
  <2>5. OwnerState(Conn(s))'
    BY <1>20, <2>2, StatusSet
       DEF GraceWait, At, Yield, OwnerState, Acquire, OwnerPcs, RecordingPcs, WaitingPcs,
           EndingPcs, memoryVars, s3Vars, Inv, TypeOK, TaskTypes, LockTypes, MemoryTypes
  <2> QED
    BY <2>1, <2>3, <2>4, <2>5, OwnerGoesOn
<1>21. ASSUME NEW s \in Streams, ArmTimer(s) PROVE Owners'
  <2>1. Owns(Conn(s)) /\ loop \in {Idle, Conn(s)} /\ ~Detached(s)
    BY <1>21
       DEF ArmTimer, At, Detached, Owns, OwnerPcs, RecordingPcs, WaitingPcs, EndingPcs
  <2>2. OnlyOwner(Conn(s))
    BY <2>1, OwnerFacts
  <2>3. /\ pc'[Conn(s)] = "end" /\ pc'[Grace(s)] = "sleep"
        /\ \A d \in Finalizers : d \notin {Grace(s), Conn(s)} => pc'[d] = pc[d] /\ me'[d] = me[d]
        /\ me[Conn(s)] = registry /\ registry \in Streams /\ sess[registry].status = "graceWait"
        /\ upload[registry] = "open"
        /\ UNCHANGED <<registry, sess, upload>> /\ graceTask'[registry] = s
    BY <1>21, <2>2
       DEF ArmTimer, At, OnlyOwner, OwnerState, WaitingPcs, s3Vars, Inv, TypeOK, TaskTypes,
           MemoryTypes
  <2>4. ASSUME NEW d \in Finalizers, Owns(d)' PROVE d = Grace(s)
    <3>1. d # Conn(s)
      BY <2>3, <2>4 DEF Owns, Resuming, OwnerPcs, RecordingPcs, WaitingPcs, EndingPcs
    <3> QED
      BY <2>1, <2>2, <2>3, <2>4, <3>1, OthersStay DEF OnlyOwner
  <2>5. Owns(Grace(s))' /\ OwnerState(Grace(s))'
    BY <2>3
       DEF Owns, OwnerState, OwnerPcs, RecordingPcs, WaitingPcs, EndingPcs
  <2> QED
    BY <2>4, <2>5 DEF Owners, OnlyOwner
<1>22. ASSUME NEW s \in Streams, TimerFires(s) PROVE Owners'
  <2>1. pc[Grace(s)] = "sleep" /\ loop \in {Idle, Grace(s)} /\ registry # None
    BY <1>22, OwnerAt DEF TimerFires, At, OwnerPcs, WaitingPcs
  <2>2. /\ pc' = [pc EXCEPT ![Grace(s)] = "claim"] /\ me' = [me EXCEPT ![Grace(s)] = registry]
        /\ sess' = sess /\ UNCHANGED <<registry, graceTask, upload>>
    BY <1>22, <2>1 DEF TimerFires, Acquire, memoryVars, s3Vars
  <2> QED
    BY <2>1, <2>2, SamePhase DEF WaitingPcs
<1>23. ASSUME NEW s \in Streams, Claim(s) PROVE Owners'
  <2>1. Owns(Grace(s)) /\ loop \in {Idle, Grace(s)}
    BY <1>23 DEF Claim, At, Owns, OwnerPcs, RecordingPcs, WaitingPcs, EndingPcs
  <2>2. OwnerState(Grace(s))
    BY <2>1, OwnerFacts DEF OnlyOwner
  <2>3. /\ pc'[Grace(s)] \in OwnerPcs
        /\ \A d \in Finalizers : d # Grace(s) => pc'[d] = pc[d] /\ me'[d] = me[d]
    BY <1>23, <2>2
       DEF Claim, At, Go, Yield, Acquire, OwnerPcs, RecordingPcs, WaitingPcs, EndingPcs,
           Inv, TypeOK, TaskTypes, OwnerState, StillWaiting
  <2>4. \A u \in Streams : sess'[u].status = "graceWait" => sess[u].status = "graceWait"
    BY <1>23, StatusSet DEF Claim, StillWaiting, Holds, Inv, TypeOK, MemoryTypes, Session
  <2>5. /\ pc[Grace(s)] = "claim" /\ pc'[Grace(s)] = "begin" /\ me[Grace(s)] = registry
        /\ sess' = [sess EXCEPT ![registry].status = "finalizing"]
        /\ UNCHANGED <<registry, graceTask, upload, me>>
    BY <1>23, <2>2
       DEF Claim, At, Go, StillWaiting, OwnerState, WaitingPcs, s3Vars, Inv, TypeOK, TaskTypes
  <2>6. sess'[registry].status = "finalizing"
    BY <2>2, <2>5 DEF OwnerState, Inv, TypeOK, MemoryTypes, Session
  <2>7. OwnerState(Grace(s))'
    BY <2>2, <2>5, <2>6 DEF OwnerState, RecordingPcs, WaitingPcs, EndingPcs
  <2> QED
    BY <2>1, <2>3, <2>4, <2>7, OwnerGoesOn
<1>24. ASSUME NEW t \in Finalizers, BeginFinalize(t) PROVE Owners'
  <2>1. pc[t] = "begin" /\ loop \in {Idle, t} /\ registry # None
    BY <1>24, OwnerAt DEF BeginFinalize, At, OwnerPcs, EndingPcs
  <2>2. /\ pc' = [pc EXCEPT ![t] = "finalize"] /\ me' = [me EXCEPT ![t] = registry]
        /\ sess' = sess /\ UNCHANGED <<registry, graceTask, upload>>
    BY <1>24, <2>1 DEF BeginFinalize, Acquire, memoryVars, s3Vars
  <2> QED
    BY <2>1, <2>2, SamePhase DEF EndingPcs
<1>26. ASSUME NEW t \in Finalizers, TakeBuffer(t) PROVE Owners'
  <2>1. /\ pc[t] = "finalize" /\ loop \in {Idle, t}
        /\ UNCHANGED <<me, registry, graceTask, upload>>
    BY <1>26 DEF TakeBuffer, At, s3Vars
  <2>2. PICK l \in {"flush", "complete"} : pc' = [pc EXCEPT ![t] = l]
    BY <1>26 DEF TakeBuffer, Yield
  <2>3. \A u \in Streams : sess'[u].status = sess[u].status
    BY <1>26 DEF TakeBuffer
  <2> QED
    BY <2>1, <2>2, <2>3, SamePhase DEF EndingPcs
<1>27. ASSUME NEW t \in Finalizers, FlushBuffer(t) PROVE Owners'
  <2>1. /\ pc[t] = "flush" /\ loop \in {Idle, t}
        /\ UNCHANGED <<me, registry, graceTask, upload>>
    BY <1>27 DEF FlushBuffer, At, s3Vars
  <2>2. PICK l \in {"complete"} : pc' = [pc EXCEPT ![t] = l]
    BY <1>27 DEF FlushBuffer, Yield
  <2>3. \A u \in Streams : sess'[u].status = sess[u].status
    BY <1>27, StoredSet DEF FlushBuffer, GivesUp, Inv, TypeOK, TaskTypes
  <2> QED
    BY <2>1, <2>2, <2>3, SamePhase DEF EndingPcs
<1>28. ASSUME NEW t \in Finalizers, PopAndReport(t) PROVE Owners'
  <2>1. Owns(t) /\ loop \in {Idle, t}
    BY <1>28 DEF PopAndReport, At, Owns, OwnerPcs
  <2>2. /\ registry' = None /\ pc'[t] = "report" /\ UNCHANGED sess
        /\ \A d \in Finalizers : d # t => pc'[d] = pc[d] /\ me'[d] = me[d]
    BY <1>28 DEF PopAndReport, At, Yield, memoryVars, Inv, TypeOK, TaskTypes
  <2>3. \A d \in Finalizers : d # t => ~Owns(d)'
    BY <2>1, <2>2, OthersStay, OwnerFacts DEF OnlyOwner
  <2> QED
    BY <2>2, <2>3
       DEF Owners, NoOwner, Owns, Resuming, OwnerPcs, RecordingPcs, WaitingPcs, EndingPcs
<1>29. ASSUME NEW t \in Finalizers, CompleteOrAbort(t) PROVE Owners'
  <2>1. Owns(t) /\ loop \in {Idle, t}
    BY <1>29 DEF CompleteOrAbort, At, Owns, OwnerPcs, RecordingPcs, WaitingPcs, EndingPcs
  <2>2. OwnerState(t)
    BY <2>1, OwnerFacts DEF OnlyOwner
  <2>3. /\ pc'[t] \in OwnerPcs
        /\ \A d \in Finalizers : d # t => pc'[d] = pc[d] /\ me'[d] = me[d]
    BY <1>29
       DEF CompleteOrAbort, At, Yield, Acquire, OwnerPcs, RecordingPcs, WaitingPcs,
           EndingPcs, Inv, TypeOK, TaskTypes
  <2>4. PICK st \in {"completed", "failed"} :
            sess' = [sess EXCEPT ![registry].status = st]
    BY <1>29, <2>2 DEF CompleteOrAbort, At, OwnerState, AfterError
  <2>5. /\ pc[t] = "complete" /\ pc'[t] = "saving" /\ me[t] = registry /\ registry \in Streams
        /\ UNCHANGED <<registry, graceTask, me>>
    BY <1>29, <2>2 DEF CompleteOrAbort, At, Yield, OwnerState, Inv, TypeOK, TaskTypes
  <2>6. /\ sess'[registry].status = st
        /\ \A u \in Streams \cup {None} : u # registry => sess'[u] = sess[u]
    BY <2>4, <2>5 DEF Inv, TypeOK, MemoryTypes, Session
  <2>7. \A u \in Streams : sess'[u].status = "graceWait" => sess[u].status = "graceWait"
    BY <2>6
  <2>8. OwnerState(t)'
    BY <2>5, <2>6 DEF OwnerState, RecordingPcs, WaitingPcs, EndingPcs, AlreadyFinal
  <2> QED
    BY <2>1, <2>3, <2>7, <2>8, OwnerGoesOn
<1>39. ASSUME Crash PROVE Owners'
  <2>1. registry' = None /\ \A d \in Finalizers : pc'[d] \in {"idle", "end"}
    BY <1>39 DEF Crash
  <2> QED
    BY <2>1
       DEF Owners, NoOwner, Owns, Resuming, OwnerPcs, RecordingPcs, WaitingPcs, EndingPcs
<1>o. ASSUME OffStage PROVE Owners'
  <2>1. ASSUME NEW d \in Finalizers
        PROVE  (Owns(d)' <=> Owns(d)) /\ (Owns(d) => pc'[d] = pc[d] /\ me'[d] = me[d])
    <3>1. CASE pc[d] \in OffPcs /\ pc'[d] \in OffPcs
      BY <3>1
         DEF OffPcs, Owns, Resuming, OwnerPcs, RecordingPcs, WaitingPcs, EndingPcs
    <3>2. CASE pc'[d] = pc[d]
      <4>1. pc[d] = "resume" => sess'[me[d]] = sess[me[d]]
        BY <1>o DEF OffStage, SeqInv, Resumes, Waits
      <4> QED
        BY <1>o, <3>2, <4>1 DEF OffStage, Owns, Resuming
    <3> QED
      BY <1>o, <3>1, <3>2 DEF OffStage
  <2>2. CASE registry = None
    BY <1>o, <2>1, <2>2, OwnerFacts DEF OffStage, Owners, NoOwner
  <2>3. CASE registry # None
    <3>1. PICK o \in Finalizers : OnlyOwner(o)
      BY <2>3, OwnerFacts
    <3>2. OwnerState(o)'
      BY <1>o, <2>1, <2>3, <3>1 DEF OffStage, OnlyOwner, OwnerState
    <3> QED
      BY <2>1, <3>1, <3>2 DEF Owners, OnlyOwner
  <2> QED
    BY <2>2, <2>3
<1> QED
  BY <1>2, <1>3, <1>4, <1>5, <1>7, <1>8, <1>10, <1>11, <1>12, <1>13, <1>14, <1>15, <1>17,
     <1>19, <1>20, <1>21, <1>22, <1>23, <1>24, <1>26, <1>27, <1>28, <1>29, <1>39, <1>o,
     StageStepOrOff DEF StageStep, EndStep

\* No end ever meets a timer to cancel: a timer exists only while its stream is gone.
LEMMA NoCancelStep ==
    ASSUME ~Overlap, ~BreakAnywhere, AllInv, Next
    PROVE  NoCancel'
<1> USE TaskFacts, AcquireMoves, StreamsAssumption DEF AllInv, SeqInv, NoCancel
<1>2. ASSUME NEW s \in Streams, LookUp(s), registry # None PROVE NoCancel'
  BY <1>2 DEF LookUp, At, CreationHeld, Yield, TypeOK, TaskTypes, Inv
<1>3. ASSUME NEW s \in Streams, ResumeCancelsTimer(s) PROVE NoCancel'
  BY <1>3, CancelTarget DEF ResumeCancelsTimer, At, TypeOK, TaskTypes, Inv
<1>4. ASSUME NEW s \in Streams, Resume(s) PROVE NoCancel'
  BY <1>4 DEF Resume, At, Yield, TypeOK, TaskTypes, Inv
<1>5. ASSUME NEW s \in Streams, Resumed(s) PROVE NoCancel'
  BY <1>5 DEF Resumed, At, Yield, TypeOK, TaskTypes, Inv
<1>7. ASSUME NEW s \in Streams, DropStale(s) PROVE NoCancel'
  BY <1>7, StaleIsPopped DEF DropStale, At, Yield, TypeOK, TaskTypes, Inv
<1>8. ASSUME NEW s \in Streams, CreateUpload(s) PROVE NoCancel'
  BY <1>8 DEF CreateUpload, At, Yield, TypeOK, TaskTypes, Inv
<1>10. ASSUME NEW s \in Streams, Created(s) PROVE NoCancel'
  BY <1>10 DEF Created, At, TypeOK, TaskTypes, Inv
<1>11. ASSUME NEW s \in Streams, RecvAudio(s) PROVE NoCancel'
  BY <1>11 DEF RecvAudio, At, Yield, TypeOK, TaskTypes, Inv
<1>12. ASSUME NEW s \in Streams, AppendFrame(s) PROVE NoCancel'
  BY <1>12 DEF AppendFrame, At, Yield, TypeOK, TaskTypes, Inv
<1>13. ASSUME NEW s \in Streams, UploadPart(s) PROVE NoCancel'
  BY <1>13 DEF UploadPart, At, Stores, GivesUp, Yield, Go, TypeOK, TaskTypes, Inv
<1>14. ASSUME NEW s \in Streams, AppendSaved(s) PROVE NoCancel'
  BY <1>14 DEF AppendSaved, At, Yield, TypeOK, TaskTypes, Inv
<1>15. ASSUME NEW s \in Streams, GracefulEnd(s) PROVE NoCancel'
  <2>1. At(Conn(s), "open") /\ OnlyOwner(Conn(s))
    BY <1>15, OwnerFacts DEF GracefulEnd, At, Owns, OwnerPcs, RecordingPcs
  <2>2. registry \in Streams /\ graceTask[registry] = None
    BY <2>1 DEF OnlyOwner, OwnerState, RecordingPcs, At
  <2> QED
    BY <1>15, <2>2 DEF GracefulEnd, At, Go, Yield, TypeOK, TaskTypes, Inv
<1>17. ASSUME NEW s \in Streams, BreakReading(s) PROVE NoCancel'
  BY <1>17 DEF BreakReading, At, Go, TypeOK, TaskTypes, Inv
<1>19. ASSUME NEW s \in Streams, Drop(s) PROVE NoCancel'
  BY <1>19 DEF Drop, At, Yield, TypeOK, TaskTypes, Inv
<1>20. ASSUME NEW s \in Streams, GraceWait(s) PROVE NoCancel'
  BY <1>20 DEF GraceWait, At, Yield, TypeOK, TaskTypes, Inv
<1>21. ASSUME NEW s \in Streams, ArmTimer(s) PROVE NoCancel'
  BY <1>21 DEF ArmTimer, At, TypeOK, TaskTypes, Inv
<1>22. ASSUME NEW s \in Streams, TimerFires(s) PROVE NoCancel'
  BY <1>22 DEF TimerFires, At, Yield, TypeOK, TaskTypes, Inv
<1>23. ASSUME NEW s \in Streams, Claim(s) PROVE NoCancel'
  BY <1>23 DEF Claim, At, Go, Yield, TypeOK, TaskTypes, Inv
<1>24. ASSUME NEW t \in Finalizers, BeginFinalize(t) PROVE NoCancel'
  BY <1>24 DEF BeginFinalize, At, Yield, TypeOK, TaskTypes, Inv
<1>26. ASSUME NEW t \in Finalizers, TakeBuffer(t) PROVE NoCancel'
  BY <1>26 DEF TakeBuffer, At, Yield, TypeOK, TaskTypes, Inv
<1>27. ASSUME NEW t \in Finalizers, FlushBuffer(t) PROVE NoCancel'
  BY <1>27 DEF FlushBuffer, At, Stores, GivesUp, Yield, TypeOK, TaskTypes, Inv
<1>28. ASSUME NEW t \in Finalizers, PopAndReport(t) PROVE NoCancel'
  BY <1>28 DEF PopAndReport, At, Yield, TypeOK, TaskTypes, Inv
<1>29. ASSUME NEW t \in Finalizers, CompleteOrAbort(t) PROVE NoCancel'
  BY <1>29 DEF CompleteOrAbort, At, Yield, TypeOK, TaskTypes, Inv
<1>39. ASSUME Crash PROVE NoCancel'
  BY <1>39 DEF Crash, TypeOK, TaskTypes, Inv
<1>o. ASSUME OffStage PROVE NoCancel'
  BY <1>o DEF OffStage, OffPcs
<1> QED
  BY <1>2, <1>3, <1>4, <1>5, <1>7, <1>8, <1>10, <1>11, <1>12, <1>13, <1>14, <1>15, <1>17,
     <1>19, <1>20, <1>21, <1>22, <1>23, <1>24, <1>26, <1>27, <1>28, <1>29, <1>39, <1>o,
     StageStepOrOff DEF StageStep, EndStep

\* A stream that has not opened its upload has no timer.
LEMMA FreshTimerStep ==
    ASSUME ~Overlap, ~BreakAnywhere, AllInv, Next
    PROVE  FreshTimer'
<1> SUFFICES ASSUME NEW c \in Streams,
                    pc'[Conn(c)] \in {"idle", "enter", "resume", "create"}
             PROVE  graceTask'[c] = None
  BY DEF FreshTimer
<1> USE TaskFacts, AcquireMoves, StreamsAssumption DEF AllInv, SeqInv, FreshTimer
<1>2. ASSUME NEW s \in Streams, LookUp(s), registry # None PROVE graceTask'[c] = None
  BY <1>2
     DEF LookUp, At, CreationHeld, Yield, memoryVars, TypeOK, TaskTypes, LockTypes,
         MemoryTypes, Inv
<1>3. ASSUME NEW s \in Streams, ResumeCancelsTimer(s) PROVE graceTask'[c] = None
  BY <1>3, CancelTarget
     DEF ResumeCancelsTimer, At, memoryVars, TypeOK, TaskTypes, LockTypes, MemoryTypes, Inv
<1>4. ASSUME NEW s \in Streams, Resume(s) PROVE graceTask'[c] = None
  BY <1>4 DEF Resume, At, Yield, memoryVars, TypeOK, TaskTypes, LockTypes, MemoryTypes, Inv
<1>5. ASSUME NEW s \in Streams, Resumed(s) PROVE graceTask'[c] = None
  BY <1>5 DEF Resumed, At, Yield, memoryVars, TypeOK, TaskTypes, LockTypes, MemoryTypes, Inv
<1>7. ASSUME NEW s \in Streams, DropStale(s) PROVE graceTask'[c] = None
  BY <1>7, StaleIsPopped
     DEF DropStale, At, Yield, memoryVars, TypeOK, TaskTypes, LockTypes, MemoryTypes, Inv
<1>8. ASSUME NEW s \in Streams, CreateUpload(s) PROVE graceTask'[c] = None
  BY <1>8
     DEF CreateUpload, At, Yield, memoryVars, TypeOK, TaskTypes, LockTypes, MemoryTypes, Inv
<1>10. ASSUME NEW s \in Streams, Created(s) PROVE graceTask'[c] = None
  BY <1>10 DEF Created, At, memoryVars, TypeOK, TaskTypes, LockTypes, MemoryTypes, Inv
<1>11. ASSUME NEW s \in Streams, RecvAudio(s) PROVE graceTask'[c] = None
  BY <1>11 DEF RecvAudio, At, Yield, Acquire, memoryVars, TypeOK, TaskTypes, Inv
<1>12. ASSUME NEW s \in Streams, AppendFrame(s) PROVE graceTask'[c] = None
  <2>1. graceTask' = graceTask
    BY <1>12 DEF AppendFrame, memoryVars
  <2>2. pc[Conn(c)] \in {"idle", "enter", "resume", "create"}
    BY <1>12 DEF AppendFrame, At, Yield, TypeOK, TaskTypes, Inv
  <2> QED
    BY <2>1, <2>2
<1>13. ASSUME NEW s \in Streams, UploadPart(s) PROVE graceTask'[c] = None
  <2>1. graceTask' = graceTask
    BY <1>13 DEF UploadPart, memoryVars
  <2>2. pc[Conn(c)] \in {"idle", "enter", "resume", "create"}
    BY <1>13 DEF UploadPart, At, Yield, Go, TypeOK, TaskTypes, Inv
  <2> QED
    BY <2>1, <2>2
<1>14. ASSUME NEW s \in Streams, AppendSaved(s) PROVE graceTask'[c] = None
  BY <1>14
     DEF AppendSaved, At, Yield, memoryVars, TypeOK, TaskTypes, LockTypes, MemoryTypes, Inv
<1>15. ASSUME NEW s \in Streams, GracefulEnd(s) PROVE graceTask'[c] = None
  <2>1. graceTask' = graceTask
    BY <1>15 DEF GracefulEnd, memoryVars
  <2>2. pc[Conn(c)] \in {"idle", "enter", "resume", "create"}
    BY <1>15 DEF GracefulEnd, At, Yield, Go, TypeOK, TaskTypes, Inv
  <2> QED
    BY <2>1, <2>2
<1>17. ASSUME NEW s \in Streams, BreakReading(s) PROVE graceTask'[c] = None
  BY <1>17
     DEF BreakReading, At, Go, memoryVars, TypeOK, TaskTypes, LockTypes, MemoryTypes, Inv
<1>19. ASSUME NEW s \in Streams, Drop(s) PROVE graceTask'[c] = None
  BY <1>19 DEF Drop, At, Yield, Acquire, memoryVars, TypeOK, TaskTypes, Inv
<1>20. ASSUME NEW s \in Streams, GraceWait(s) PROVE graceTask'[c] = None
  BY <1>20
     DEF GraceWait, At, Yield, memoryVars, TypeOK, TaskTypes, LockTypes, MemoryTypes, Inv
<1>21. ASSUME NEW s \in Streams, ArmTimer(s) PROVE graceTask'[c] = None
  <2>1. At(Conn(s), "dropsaving") /\ OnlyOwner(Conn(s))
    BY <1>21, OwnerFacts DEF ArmTimer, At, Owns, OwnerPcs, WaitingPcs
  <2>2. upload[me[Conn(s)]] = "open"
    BY <2>1 DEF OnlyOwner, OwnerState, At
  <2>3. c # s /\ c # me[Conn(s)]
    BY <1>21, <2>1, <2>2 DEF ArmTimer, At, TruthInv, FreshUpload, TypeOK, TaskTypes, Inv
  <2> QED
    BY <1>21, <2>3 DEF ArmTimer, TypeOK, TaskTypes, MemoryTypes, Inv
<1>22. ASSUME NEW s \in Streams, TimerFires(s) PROVE graceTask'[c] = None
  <2>1. graceTask' = graceTask
    BY <1>22 DEF TimerFires, memoryVars
  <2>2. pc[Conn(c)] \in {"idle", "enter", "resume", "create"}
    BY <1>22 DEF TimerFires, At, Yield, Acquire, TypeOK, TaskTypes, Inv
  <2> QED
    BY <2>1, <2>2
<1>23. ASSUME NEW s \in Streams, Claim(s) PROVE graceTask'[c] = None
  <2>1. graceTask' = graceTask
    BY <1>23 DEF Claim
  <2>2. pc[Conn(c)] \in {"idle", "enter", "resume", "create"}
    BY <1>23 DEF Claim, At, Go, Yield, TypeOK, TaskTypes, Inv
  <2> QED
    BY <2>1, <2>2
<1>24. ASSUME NEW t \in Finalizers, BeginFinalize(t) PROVE graceTask'[c] = None
  BY <1>24 DEF BeginFinalize, At, Yield, Acquire, memoryVars, TypeOK, TaskTypes, Inv
<1>26. ASSUME NEW t \in Finalizers, TakeBuffer(t) PROVE graceTask'[c] = None
  BY <1>26
     DEF TakeBuffer, At, Yield, memoryVars, TypeOK, TaskTypes, LockTypes, MemoryTypes, Inv
<1>27. ASSUME NEW t \in Finalizers, FlushBuffer(t) PROVE graceTask'[c] = None
  BY <1>27
     DEF FlushBuffer, At, Stores, GivesUp, Yield, memoryVars, TypeOK, TaskTypes, LockTypes,
         MemoryTypes, Inv
<1>28. ASSUME NEW t \in Finalizers, PopAndReport(t) PROVE graceTask'[c] = None
  BY <1>28
     DEF PopAndReport, At, Yield, memoryVars, TypeOK, TaskTypes, LockTypes, MemoryTypes, Inv
<1>29. ASSUME NEW t \in Finalizers, CompleteOrAbort(t) PROVE graceTask'[c] = None
  BY <1>29
     DEF CompleteOrAbort, At, Yield, memoryVars, TypeOK, TaskTypes, LockTypes, MemoryTypes,
         Inv
<1>39. ASSUME Crash PROVE graceTask'[c] = None
  BY <1>39 DEF Crash
<1>o. ASSUME OffStage PROVE graceTask'[c] = None
  BY <1>o DEF OffStage, OffPcs, FreshPcs, FreshTimer
<1> QED
  BY <1>2, <1>3, <1>4, <1>5, <1>7, <1>8, <1>10, <1>11, <1>12, <1>13, <1>14, <1>15, <1>17,
     <1>19, <1>20, <1>21, <1>22, <1>23, <1>24, <1>26, <1>27, <1>28, <1>29, <1>39, <1>o,
     StageStepOrOff DEF StageStep, EndStep

\* Joining the queue of a lock ...
LEMMA QueueJoined ==
    ASSUME AllInv, NEW t \in Finalizers, pc[t] \notin LockPcs, NEW u \in Streams,
           NEW l \in LockPcs, Acquire(t, u, l)
    PROVE  Queues'
<1> USE TaskFacts, AcquireMoves DEF AllInv, SeqInv, Inv, Queues
<1>1. /\ lock[u] \in Seq(Tasks) /\ lock'[u] = Append(lock[u], t)
      /\ \A v \in Streams : v # u => lock'[v] = lock[v]
  BY DEF Acquire, TypeOK, LockTypes
<1>2. \A v \in Streams : \A i \in DOMAIN lock[v] : lock[v][i] # t
  OBVIOUS
<1>3. /\ pc'[t] = l /\ me'[t] = u
      /\ \A d \in Finalizers : d # t => pc'[d] = pc[d] /\ me'[d] = me[d]
  BY DEF Acquire, TypeOK, TaskTypes
<1>4. ASSUME NEW v \in Streams, v # u
      PROVE  /\ \A i \in DOMAIN lock'[v] :
                  lock'[v][i] \in Finalizers /\ me'[lock'[v][i]] = v
                  /\ pc'[lock'[v][i]] \in LockPcs
             /\ \A i, j \in DOMAIN lock'[v] : lock'[v][i] = lock'[v][j] => i = j
  BY <1>1, <1>2, <1>3, <1>4
<1>5. /\ \A i \in DOMAIN lock'[u] :
           lock'[u][i] \in Finalizers /\ me'[lock'[u][i]] = u /\ pc'[lock'[u][i]] \in LockPcs
      /\ \A i, j \in DOMAIN lock'[u] : lock'[u][i] = lock'[u][j] => i = j
  <2>1. /\ DOMAIN lock[u] = 1 .. Len(lock[u]) /\ Len(lock[u]) \in Nat
        /\ DOMAIN lock'[u] = 1 .. Len(lock[u]) + 1
        /\ lock'[u][Len(lock[u]) + 1] = t
        /\ \A i \in 1 .. Len(lock[u]) : lock'[u][i] = lock[u][i]
    BY <1>1
  <2>2. \A i \in DOMAIN lock'[u] : i \in DOMAIN lock[u] \/ i = Len(lock[u]) + 1
    BY <2>1
  <2>3. \A i \in DOMAIN lock[u] : lock'[u][i] = lock[u][i] /\ lock[u][i] # t
    BY <2>1, <1>2
  <2>4. \A i, j \in DOMAIN lock'[u] : lock'[u][i] = lock'[u][j] => i = j
    BY <2>1, <2>2, <2>3
  <2>5. ASSUME NEW i \in DOMAIN lock'[u]
        PROVE  lock'[u][i] \in Finalizers /\ me'[lock'[u][i]] = u /\ pc'[lock'[u][i]] \in LockPcs
    BY <2>1, <2>2, <2>3, <1>3
  <2> QED
    BY <2>4, <2>5
<1> QED
  BY <1>4, <1>5

\* ... leaving it from the front ...
LEMMA QueueLeft ==
    ASSUME AllInv, NEW t \in Finalizers, Holds(t), Release(t),
           \A d \in Finalizers : d # t => \/ pc[d] \notin LockPcs
                                          \/ pc'[d] = pc[d] /\ me'[d] = me[d]
    PROVE  Queues'
<1> USE TaskFacts DEF AllInv, SeqInv, Inv, Queues
<1> DEFINE u == me[t]
<1>1. /\ u \in Streams /\ lock[u] \in Seq(Tasks) /\ lock[u] # <<>> /\ lock[u][1] = t
      /\ lock'[u] = Tail(lock[u]) /\ \A v \in Streams : v # u => lock'[v] = lock[v]
  BY DEF Holds, First, Release, TypeOK, LockTypes
<1>2. ASSUME NEW v \in Streams, v # u
      PROVE  /\ \A i \in DOMAIN lock'[v] :
                  lock'[v][i] \in Finalizers /\ me'[lock'[v][i]] = v
                  /\ pc'[lock'[v][i]] \in LockPcs
             /\ \A i, j \in DOMAIN lock'[v] : lock'[v][i] = lock'[v][j] => i = j
  BY <1>1, <1>2
<1>3. /\ \A i \in DOMAIN lock'[u] :
           lock'[u][i] \in Finalizers /\ me'[lock'[u][i]] = u /\ pc'[lock'[u][i]] \in LockPcs
      /\ \A i, j \in DOMAIN lock'[u] : lock'[u][i] = lock'[u][j] => i = j
  <2>1. /\ DOMAIN lock[u] = 1 .. Len(lock[u]) /\ Len(lock[u]) \in Nat \ {0}
        /\ DOMAIN lock'[u] = 1 .. Len(lock[u]) - 1
        /\ \A i \in 1 .. Len(lock[u]) - 1 : lock'[u][i] = lock[u][i + 1]
    BY <1>1
  <2>2. \A i \in DOMAIN lock'[u] : i + 1 \in DOMAIN lock[u] /\ i + 1 # 1 /\ i \in Nat
    BY <2>1
  <2>3. \A i \in DOMAIN lock'[u] : lock'[u][i] # t /\ lock'[u][i] = lock[u][i + 1]
    BY <1>1, <2>1, <2>2
  <2>4. \A i, j \in DOMAIN lock'[u] : lock'[u][i] = lock'[u][j] => i + 1 = j + 1
    BY <1>1, <2>2, <2>3
  <2>5. \A i, j \in DOMAIN lock'[u] : i + 1 = j + 1 => i = j
    BY <2>2
  <2>6. \A i, j \in DOMAIN lock'[u] : lock'[u][i] = lock'[u][j] => i = j
    BY <2>4, <2>5
  <2>7. ASSUME NEW i \in DOMAIN lock'[u]
        PROVE  lock'[u][i] \in Finalizers /\ me'[lock'[u][i]] = u /\ pc'[lock'[u][i]] \in LockPcs
    <3> DEFINE d == lock[u][i + 1]
    <3>1. d \in Finalizers /\ me[d] = u /\ pc[d] \in LockPcs
      BY <1>1, <2>2
    <3>2. lock'[u][i] = d /\ d # t
      BY <2>3
    <3> HIDE DEF d
    <3> QED
      BY <3>1, <3>2
  <2> QED
    BY <2>6, <2>7
<1> QED
  BY <1>2, <1>3

\* ... and a step that leaves the queues alone.
LEMMA QueueKept ==
    ASSUME AllInv, UNCHANGED lock,
           \A d \in Finalizers :
               \/ pc[d] \notin LockPcs
               \/ pc'[d] \in LockPcs /\ me'[d] = me[d]
    PROVE  Queues'
  BY DEF AllInv, SeqInv, Queues

\* A session whose timer sleeps has a free lock.
LEMMA LockIsFree ==
    ASSUME AllInv, NEW g \in Finalizers, pc[g] = "sleep", OnlyOwner(g),
           \A s \in Streams : pc[Conn(s)] # "resume"
    PROVE  lock[registry] = <<>>
<1> USE TaskFacts DEF AllInv, SeqInv, Inv
<1>1. registry \in Streams /\ lock[registry] \in Seq(Tasks)
  BY DEF OnlyOwner, OwnerState, TypeOK, LockTypes
<1> SUFFICES ASSUME lock[registry] # <<>> PROVE FALSE
  OBVIOUS
<1> DEFINE t == lock[registry][1]
<1>2. t \in Finalizers /\ pc[t] \in LockPcs
  BY <1>1 DEF Queues
<1>3. pc[t] \in OwnerPcs \cup {"resume"} /\ pc[t] # "sleep"
  BY <1>2
     DEF LockPcs, HoldingPcs, OwnerPcs, RecordingPcs, WaitingPcs, EndingPcs
<1>4. pc[t] # "resume"
  BY <1>2 DEF Finalizers, Kinds, TimerPcs, FinalizePcs, ReportPcs
<1> QED
  BY <1>2, <1>3, <1>4 DEF OnlyOwner, Owns

\* The timer a start cancels is asleep: it is the owner of the session, alone.
LEMMA CancelledSleeps ==
    ASSUME AllInv, NEW s \in Streams, ResumeCancelsTimer(s)
    PROVE  /\ registry = me[Conn(s)] /\ registry \in Streams
           /\ pc[Grace(graceTask[registry])] = "sleep"
           /\ OnlyOwner(Grace(graceTask[registry]))
<1> USE TaskFacts, StreamsAssumption DEF AllInv, SeqInv
<1>1. /\ pc[Conn(s)] = "resume" /\ ~Detached(s) /\ loop \in {Idle, Conn(s)}
      /\ me[Conn(s)] \in Streams /\ sess[me[Conn(s)]].status = "graceWait"
      /\ graceTask[me[Conn(s)]] \in Streams
  BY CancelTarget DEF ResumeCancelsTimer, At, Resumable, Detached
<1>2. registry = me[Conn(s)]
  BY <1>1 DEF Resumes, Waits, AlreadyFinal
<1>3. PICK o \in Finalizers : OnlyOwner(o)
  BY <1>1, <1>2, OwnerFacts
<1>4. o # Conn(s)
  BY <1>1, <1>3 DEF OnlyOwner, Owns, Resuming, OwnerPcs, RecordingPcs, WaitingPcs, EndingPcs
<1>5. pc[o] \in {"sleep", "claim"}
  <2>1. pc[o] \in {"dropsaving", "resume", "sleep", "claim"}
    BY <1>1, <1>2, <1>3
       DEF OnlyOwner, OwnerState, Owns, Resuming, OwnerPcs, RecordingPcs, WaitingPcs, EndingPcs,
           AlreadyFinal
  <2> QED
    BY <1>1, <1>4, <2>1
       DEF Finalizers, Kinds, TimerPcs, FinalizePcs, ReportPcs, OneConn, Detached
<1>6. o = Grace(graceTask[registry])
  BY <1>2, <1>3, <1>5 DEF OnlyOwner, OwnerState
<1>7. pc[o] # "claim"
  BY <1>1, <1>2, <1>6 DEF Timers
<1> QED
  BY <1>1, <1>2, <1>3, <1>5, <1>6, <1>7

\* Queues is inductive.
LEMMA QueuesStep ==
    ASSUME ~Overlap, ~BreakAnywhere, AllInv, Next
    PROVE  Queues'
<1> USE TaskFacts, StreamsAssumption DEF AllInv, SeqInv
<1>2. ASSUME NEW s \in Streams, LookUp(s), registry # None PROVE Queues'
  BY <1>2, QueueJoined DEF LookUp, At, LockPcs, HoldingPcs, Inv, TypeOK, LockTypes
<1>3. ASSUME NEW s \in Streams, ResumeCancelsTimer(s) PROVE Queues'
  <2> DEFINE g == Grace(graceTask[me[Conn(s)]])
  <2>1. g \in Finalizers /\ pc[g] = "sleep" /\ UNCHANGED me
        /\ \A d \in Finalizers : d # g => pc'[d] = pc[d]
    BY <1>3, CancelledSleeps, CancelTarget DEF ResumeCancelsTimer, Inv, TypeOK, TaskTypes
  <2>2. ASSUME NEW u \in Streams PROVE lock'[u] = lock[u]
    <3>1. \A i \in DOMAIN lock[u] : lock[u][i] # g
      BY <2>1 DEF Queues, LockPcs, HoldingPcs
    <3> QED
      BY <1>3, <3>1 DEF ResumeCancelsTimer, Cancelled, Without
  <2> QED
    BY <2>1, <2>2 DEF Queues, LockPcs, HoldingPcs
<1>4. ASSUME NEW s \in Streams, Resume(s) PROVE Queues'
  BY <1>4, QueueKept DEF Resume, At, Yield, LockPcs, HoldingPcs, Inv, TypeOK, TaskTypes
<1>5. ASSUME NEW s \in Streams, Resumed(s) PROVE Queues'
  BY <1>5, QueueLeft
     DEF Resumed, At, Yield, Go, LockInv, HoldingPcs, Inv, TypeOK, TaskTypes
<1>7. ASSUME NEW s \in Streams, DropStale(s) PROVE Queues'
  BY <1>7, QueueLeft
     DEF DropStale, At, Yield, Go, LockInv, HoldingPcs, Inv, TypeOK, TaskTypes
<1>8. ASSUME NEW s \in Streams, CreateUpload(s) PROVE Queues'
  BY <1>8, QueueKept
     DEF CreateUpload, At, Yield, LockPcs, HoldingPcs, Inv, TypeOK, TaskTypes
<1>10. ASSUME NEW s \in Streams, Created(s) PROVE Queues'
  BY <1>10, QueueKept DEF Created, At, LockPcs, HoldingPcs, Inv, TypeOK, TaskTypes
<1>11. ASSUME NEW s \in Streams, RecvAudio(s) PROVE Queues'
  <2>1. CASE registry = None
    BY <1>11, <2>1, QueueKept
       DEF RecvAudio, At, Yield, LockPcs, HoldingPcs, Inv, TypeOK, TaskTypes
  <2>2. CASE registry # None
    BY <1>11, <2>2, QueueJoined DEF RecvAudio, At, LockPcs, HoldingPcs, Inv, TypeOK, LockTypes
  <2> QED
    BY <2>1, <2>2
<1>12. ASSUME NEW s \in Streams, AppendFrame(s) PROVE Queues'
  BY <1>12, QueueKept
     DEF AppendFrame, At, Yield, LockPcs, HoldingPcs, Inv, TypeOK, TaskTypes
<1>13. ASSUME NEW s \in Streams, UploadPart(s) PROVE Queues'
  <2>1. CASE GivesUp(Conn(s)) /\ Release(Conn(s))
    BY <1>13, <2>1, QueueLeft
       DEF UploadPart, At, Yield, Go, LockInv, HoldingPcs, Inv, TypeOK, TaskTypes
  <2>2. CASE Yield(Conn(s), "appsaving") /\ UNCHANGED lock
    BY <1>13, <2>2, QueueKept
       DEF UploadPart, At, Yield, Go, LockPcs, HoldingPcs, Inv, TypeOK, TaskTypes
  <2> QED
    BY <1>13, <2>1, <2>2 DEF UploadPart
<1>14. ASSUME NEW s \in Streams, AppendSaved(s) PROVE Queues'
  BY <1>14, QueueLeft
     DEF AppendSaved, At, Yield, Go, LockInv, HoldingPcs, Inv, TypeOK, TaskTypes
<1>15. ASSUME NEW s \in Streams, GracefulEnd(s) PROVE Queues'
  BY <1>15, QueueKept
     DEF GracefulEnd, At, Yield, Go, LockPcs, HoldingPcs, Inv, TypeOK, TaskTypes
<1>17. ASSUME NEW s \in Streams, BreakReading(s) PROVE Queues'
  BY <1>17, QueueKept DEF BreakReading, At, Go, LockPcs, HoldingPcs, Inv, TypeOK, TaskTypes
<1>19. ASSUME NEW s \in Streams, Drop(s) PROVE Queues'
  <2>1. CASE registry = None
    BY <1>19, <2>1, QueueKept
       DEF Drop, At, Yield, LockPcs, HoldingPcs, Inv, TypeOK, TaskTypes
  <2>2. CASE registry # None
    BY <1>19, <2>2, QueueJoined DEF Drop, At, LockPcs, HoldingPcs, Inv, TypeOK, LockTypes
  <2> QED
    BY <2>1, <2>2
<1>20. ASSUME NEW s \in Streams, GraceWait(s) PROVE Queues'
  BY <1>20, QueueKept DEF GraceWait, At, Yield, LockPcs, HoldingPcs, Inv, TypeOK, TaskTypes
<1>21. ASSUME NEW s \in Streams, ArmTimer(s) PROVE Queues'
  <2>1. Owns(Conn(s)) /\ pc[Conn(s)] = "dropsaving"
    BY <1>21 DEF ArmTimer, At, Owns, OwnerPcs, WaitingPcs
  <2>2. ~Owns(Grace(s))
    BY <2>1, OwnerFacts DEF OnlyOwner
  <2>3. pc[Grace(s)] \notin LockPcs
    BY <2>2
       DEF Kinds, Owns, LockPcs, HoldingPcs, OwnerPcs, RecordingPcs, WaitingPcs, EndingPcs,
           TimerPcs, FinalizePcs, ReportPcs
  <2>4. Holds(Conn(s))
    BY <2>1 DEF Inv, LockInv, HoldingPcs
  <2> QED
    BY <1>21, <2>3, <2>4, QueueLeft DEF ArmTimer, Inv, TypeOK, TaskTypes
<1>22. ASSUME NEW s \in Streams, TimerFires(s) PROVE Queues'
  <2>1. CASE registry = None
    BY <1>22, <2>1, QueueKept
       DEF TimerFires, At, Yield, LockPcs, HoldingPcs, Inv, TypeOK, TaskTypes
  <2>2. CASE registry # None
    BY <1>22, <2>2, QueueJoined DEF TimerFires, At, LockPcs, HoldingPcs, Inv, TypeOK, LockTypes
  <2> QED
    BY <2>1, <2>2
<1>23. ASSUME NEW s \in Streams, Claim(s) PROVE Queues'
  BY <1>23, QueueLeft
     DEF Claim, At, Yield, Go, LockInv, HoldingPcs, Inv, TypeOK, TaskTypes
<1>24. ASSUME NEW t \in Finalizers, BeginFinalize(t) PROVE Queues'
  <2>1. CASE registry = None
    BY <1>24, <2>1, QueueKept
       DEF BeginFinalize, At, Yield, LockPcs, HoldingPcs, Inv, TypeOK, TaskTypes
  <2>2. CASE registry # None
    BY <1>24, <2>2, QueueJoined DEF BeginFinalize, At, LockPcs, HoldingPcs, Inv, TypeOK, LockTypes
  <2> QED
    BY <2>1, <2>2
<1>26. ASSUME NEW t \in Finalizers, TakeBuffer(t) PROVE Queues'
  BY <1>26, QueueKept DEF TakeBuffer, At, Yield, LockPcs, HoldingPcs, Inv, TypeOK, TaskTypes
<1>27. ASSUME NEW t \in Finalizers, FlushBuffer(t) PROVE Queues'
  BY <1>27, QueueKept
     DEF FlushBuffer, At, Stores, GivesUp, Yield, LockPcs, HoldingPcs, Inv, TypeOK,
         TaskTypes
<1>28. ASSUME NEW t \in Finalizers, PopAndReport(t) PROVE Queues'
  BY <1>28, QueueLeft
     DEF PopAndReport, At, Yield, Go, LockInv, HoldingPcs, Inv, TypeOK, TaskTypes
<1>29. ASSUME NEW t \in Finalizers, CompleteOrAbort(t) PROVE Queues'
  BY <1>29, QueueKept
     DEF CompleteOrAbort, At, Yield, LockPcs, HoldingPcs, Inv, TypeOK, TaskTypes
<1>39. ASSUME Crash PROVE Queues'
  BY <1>39 DEF Crash, Queues
<1>o. ASSUME OffStage PROVE Queues'
  BY <1>o, QueueKept DEF OffStage, OffPcs, LockPcs, HoldingPcs
<1> QED
  BY <1>2, <1>3, <1>4, <1>5, <1>7, <1>8, <1>10, <1>11, <1>12, <1>13, <1>14, <1>15, <1>17,
     <1>19, <1>20, <1>21, <1>22, <1>23, <1>24, <1>26, <1>27, <1>28, <1>29, <1>39, <1>o,
     StageStepOrOff DEF StageStep, EndStep

\* Timers is inductive.
LEMMA TimersStep ==
    ASSUME ~Overlap, ~BreakAnywhere, AllInv, Next
    PROVE  Timers'
<1> SUFFICES ASSUME NEW g \in Streams, pc'[Grace(g)] \in {"claim", "begin", "finalize"}
             PROVE  /\ loop' = Grace(g)
                    /\ pc'[Grace(g)] \in {"claim", "finalize"} => lock'[registry'] = <<Grace(g)>>
                    /\ pc'[Grace(g)] = "begin" => lock'[registry'] = <<>>
  BY DEF Timers
<1> DEFINE Goal ==
      /\ loop' = Grace(g)
      /\ pc'[Grace(g)] \in {"claim", "finalize"} => lock'[registry'] = <<Grace(g)>>
      /\ pc'[Grace(g)] = "begin" => lock'[registry'] = <<>>
<1> USE TaskFacts, AcquireMoves, StreamsAssumption DEF AllInv, SeqInv
<1>a. pc[Grace(g)] \in {"claim", "begin", "finalize"} => loop = Grace(g)
  BY DEF Timers
<1>2. ASSUME NEW s \in Streams, LookUp(s), registry # None PROVE Goal
  BY <1>2, <1>a DEF LookUp, At, CreationHeld, Yield, Acquire, Inv, TypeOK, TaskTypes
<1>3. ASSUME NEW s \in Streams, ResumeCancelsTimer(s) PROVE Goal
  BY <1>3, <1>a, CancelTarget DEF ResumeCancelsTimer, At, Inv, TypeOK, TaskTypes
<1>4. ASSUME NEW s \in Streams, Resume(s) PROVE Goal
  BY <1>4, <1>a DEF Resume, At, Yield, Acquire, Inv, TypeOK, TaskTypes
<1>5. ASSUME NEW s \in Streams, Resumed(s) PROVE Goal
  BY <1>5, <1>a DEF Resumed, At, Yield, Acquire, Inv, TypeOK, TaskTypes
<1>7. ASSUME NEW s \in Streams, DropStale(s) PROVE Goal
  BY <1>7, StaleIsPopped, <1>a DEF DropStale, At, Yield, Acquire, Inv, TypeOK, TaskTypes
<1>8. ASSUME NEW s \in Streams, CreateUpload(s) PROVE Goal
  BY <1>8, <1>a DEF CreateUpload, At, Yield, Acquire, Inv, TypeOK, TaskTypes
<1>10. ASSUME NEW s \in Streams, Created(s) PROVE Goal
  BY <1>10, <1>a DEF Created, At, Acquire, Inv, TypeOK, TaskTypes
<1>11. ASSUME NEW s \in Streams, RecvAudio(s) PROVE Goal
  BY <1>11, <1>a DEF RecvAudio, At, Yield, Acquire, Inv, TypeOK, TaskTypes
<1>12. ASSUME NEW s \in Streams, AppendFrame(s) PROVE Goal
  BY <1>12, <1>a DEF AppendFrame, At, Yield, Acquire, Inv, TypeOK, TaskTypes
<1>13. ASSUME NEW s \in Streams, UploadPart(s) PROVE Goal
  BY <1>13, <1>a
     DEF UploadPart, At, Stores, GivesUp, Yield, Go, Acquire, Inv, TypeOK, TaskTypes
<1>14. ASSUME NEW s \in Streams, AppendSaved(s) PROVE Goal
  BY <1>14, <1>a DEF AppendSaved, At, Yield, Acquire, Inv, TypeOK, TaskTypes
<1>15. ASSUME NEW s \in Streams, GracefulEnd(s) PROVE Goal
  BY <1>15, <1>a DEF GracefulEnd, At, Yield, Go, Acquire, Inv, TypeOK, TaskTypes
<1>17. ASSUME NEW s \in Streams, BreakReading(s) PROVE Goal
  BY <1>17, <1>a DEF BreakReading, At, Go, Acquire, Inv, TypeOK, TaskTypes
<1>19. ASSUME NEW s \in Streams, Drop(s) PROVE Goal
  BY <1>19, <1>a DEF Drop, At, Yield, Acquire, Inv, TypeOK, TaskTypes
<1>20. ASSUME NEW s \in Streams, GraceWait(s) PROVE Goal
  BY <1>20, <1>a DEF GraceWait, At, Yield, Acquire, Inv, TypeOK, TaskTypes
<1>21. ASSUME NEW s \in Streams, ArmTimer(s) PROVE Goal
  BY <1>21, <1>a DEF ArmTimer, At, Acquire, Inv, TypeOK, TaskTypes
<1>22. ASSUME NEW s \in Streams, TimerFires(s) PROVE Goal
  <2>1. CASE registry = None
    BY <1>22, <2>1, <1>a DEF TimerFires, At, Yield, Inv, TypeOK, TaskTypes
  <2>2. CASE registry # None
    <3>1. pc[Grace(s)] = "sleep" /\ OnlyOwner(Grace(s)) /\ registry \in Streams
      BY <1>22, <2>2, OwnerFacts
         DEF TimerFires, At, Owns, OwnerPcs, WaitingPcs, Inv, TypeOK, LockTypes
    <3>5. loop \in {Idle, Grace(s)} /\ sess[registry].status = "graceWait"
      BY <1>22, <3>1 DEF TimerFires, At, OnlyOwner, OwnerState, WaitingPcs
    <3>6. \A r \in Streams : pc[Conn(r)] # "resume"
      BY <3>5, <3>1 DEF Resumes, Waits
    <3>2. lock[registry] = <<>>
      BY <3>1, <3>6, LockIsFree
    <3>3. /\ loop' = Grace(s) /\ lock'[registry] = <<Grace(s)>> /\ UNCHANGED registry
          /\ pc'[Grace(s)] = "claim"
      <4>1. Acquire(Grace(s), registry, "claim") /\ UNCHANGED registry
        BY <1>22, <2>2 DEF TimerFires
      <4>2. loop' = Grace(s) /\ lock' = [lock EXCEPT ![registry] = <<Grace(s)>>]
        BY <4>1, <3>1, <3>2 DEF Acquire
      <4>3. pc'[Grace(s)] = "claim"
        BY <4>1 DEF Acquire, Inv, TypeOK, TaskTypes
      <4> QED
        BY <4>1, <4>2, <4>3, <3>1 DEF Inv, TypeOK, LockTypes
    <3>4. g = s
      BY <1>22, <2>2, <1>a DEF TimerFires, At, Acquire, Inv, TypeOK, TaskTypes
    <3> QED
      BY <3>3, <3>4
  <2> QED
    BY <2>1, <2>2
<1>23. ASSUME NEW s \in Streams, Claim(s) PROVE Goal
  <2>1. g = s /\ pc[Grace(s)] = "claim" /\ OnlyOwner(Grace(s))
    BY <1>23, <1>a, OwnerFacts
       DEF Claim, At, Go, Yield, Owns, OwnerPcs, WaitingPcs, Inv, TypeOK, TaskTypes
  <2>2. lock[registry] = <<Grace(s)>> /\ me[Grace(s)] = registry /\ registry \in Streams
    BY <2>1 DEF Timers, OnlyOwner, OwnerState
  <2>3. lock'[registry] = <<>> /\ UNCHANGED registry
    BY <1>23, <2>2 DEF Claim, Release, Inv, TypeOK, LockTypes
  <2>4. pc'[Grace(s)] = "begin" /\ loop' = Grace(s)
    BY <1>23, <2>1 DEF Claim, Go, Yield, Inv, TypeOK, TaskTypes
  <2> QED
    BY <2>1, <2>3, <2>4
<1>24. ASSUME NEW t \in Finalizers, BeginFinalize(t) PROVE Goal
  <2>1. t = Grace(g) /\ pc[t] = "begin" /\ OnlyOwner(t)
    BY <1>24, <1>a, OwnerFacts
       DEF BeginFinalize, At, Acquire, Yield, Owns, OwnerPcs, EndingPcs, Inv, TypeOK, TaskTypes
  <2>2. lock[registry] = <<>> /\ registry \in Streams
    BY <2>1 DEF Timers, OnlyOwner, OwnerState
  <2>3. /\ loop' = t /\ lock'[registry] = <<t>> /\ UNCHANGED registry /\ pc'[t] = "finalize"
    BY <1>24, <2>1, <2>2, StreamsAssumption
       DEF BeginFinalize, Acquire, Inv, TypeOK, LockTypes, TaskTypes
  <2> QED
    BY <2>1, <2>3
<1>26. ASSUME NEW t \in Finalizers, TakeBuffer(t) PROVE Goal
  BY <1>26, <1>a DEF TakeBuffer, At, Yield, Acquire, Inv, TypeOK, TaskTypes
<1>27. ASSUME NEW t \in Finalizers, FlushBuffer(t) PROVE Goal
  BY <1>27, <1>a
     DEF FlushBuffer, At, Stores, GivesUp, Yield, Acquire, Inv, TypeOK, TaskTypes
<1>28. ASSUME NEW t \in Finalizers, PopAndReport(t) PROVE Goal
  BY <1>28, <1>a DEF PopAndReport, At, Yield, Acquire, Inv, TypeOK, TaskTypes
<1>29. ASSUME NEW t \in Finalizers, CompleteOrAbort(t) PROVE Goal
  BY <1>29, <1>a DEF CompleteOrAbort, At, Yield, Acquire, Inv, TypeOK, TaskTypes
<1>39. ASSUME Crash PROVE Goal
  BY <1>39 DEF Crash
<1>o. ASSUME OffStage PROVE Goal
  <2>1. pc'[Grace(g)] = pc[Grace(g)]
    BY <1>o DEF OffStage, OffPcs
  <2>2. loop = Grace(g) /\ loop' = Grace(g)
    BY <1>o, <1>a, <2>1 DEF OffStage, OffPcs
  <2> QED
    BY <1>o, <2>1, <2>2 DEF OffStage, Timers
<1> QED
  BY <1>2, <1>3, <1>4, <1>5, <1>7, <1>8, <1>10, <1>11, <1>12, <1>13, <1>14, <1>15, <1>17,
     <1>19, <1>20, <1>21, <1>22, <1>23, <1>24, <1>26, <1>27, <1>28, <1>29, <1>39, <1>o,
     StageStepOrOff DEF StageStep, EndStep

\* Resumes is inductive.
LEMMA ResumesStep ==
    ASSUME ~Overlap, ~BreakAnywhere, AllInv, Next
    PROVE  Resumes'
<1> SUFFICES ASSUME NEW r \in Streams, pc'[Conn(r)] = "resume"
             PROVE  Waits(Conn(r))'
  BY KindsStep
     DEF Resumes, Waits, AllInv, SeqInv, Kinds, Finalizers, TimerPcs, FinalizePcs, ReportPcs
<1> USE TaskFacts, AcquireMoves, StreamsAssumption DEF AllInv, SeqInv
<1>a. pc[Conn(r)] = "resume" => Waits(Conn(r))
  BY DEF Resumes, Waits
<1>b. \A s \in Streams : pc[Conn(r)] = "resume" /\ ~Detached(s) => s = r
  BY DEF OneConn, Detached
<1>2. ASSUME NEW s \in Streams, LookUp(s), registry # None PROVE Waits(Conn(r))'
  <2>1. /\ pc[Conn(s)] = "enter" /\ loop \in {Idle, Conn(s)} /\ registry \in Streams
        /\ me'[Conn(s)] = registry /\ UNCHANGED <<registry, sess>>
        /\ loop' = (IF lock[registry] = <<>> THEN Conn(s) ELSE Idle) /\ r = s
    BY <1>2, <1>b DEF LookUp, At, Acquire, memoryVars, Detached, Inv, TypeOK, TaskTypes, LockTypes
  <2>2. ASSUME sess[registry].status = "graceWait" PROVE lock[registry] = <<>>
    <3>1. PICK o \in Finalizers : OnlyOwner(o)
      BY <2>1, OwnerFacts
    <3>2. pc[o] \in {"dropsaving", "resume", "sleep", "claim"}
      BY <2>2, <3>1
         DEF OnlyOwner, OwnerState, Owns, Resuming, OwnerPcs, RecordingPcs, WaitingPcs, EndingPcs,
             AlreadyFinal
    <3>3. \A c \in Streams : pc[Conn(c)] \notin {"resume", "dropsaving"}
      BY <2>1 DEF OneConn, Detached
    <3>4. PICK g \in Streams : o = Grace(g)
      BY <3>2, <3>3 DEF Finalizers, Kinds, TimerPcs
    <3>5. pc[o] = "sleep"
      BY <2>1, <3>2, <3>4 DEF Timers, Kinds, TimerPcs, FinalizePcs, ReportPcs
    <3> QED
      BY <3>1, <3>3, <3>5, LockIsFree
  <2> QED
    BY <2>1, <2>2 DEF Waits
<1>3. ASSUME NEW s \in Streams, ResumeCancelsTimer(s) PROVE Waits(Conn(r))'
  BY <1>3, <1>a, <1>b, CancelTarget
     DEF ResumeCancelsTimer, At, Detached, Waits, Inv, TypeOK, TaskTypes
<1>4. ASSUME NEW s \in Streams, Resume(s) PROVE Waits(Conn(r))'
  BY <1>4, <1>b DEF Resume, At, Yield, Go, Detached, Inv, TypeOK, TaskTypes
<1>5. ASSUME NEW s \in Streams, Resumed(s) PROVE Waits(Conn(r))'
  BY <1>5, <1>b DEF Resumed, At, Yield, Go, Detached, Inv, TypeOK, TaskTypes
<1>7. ASSUME NEW s \in Streams, DropStale(s) PROVE Waits(Conn(r))'
  BY <1>7, <1>b DEF DropStale, At, Yield, Go, Detached, Inv, TypeOK, TaskTypes
<1>8. ASSUME NEW s \in Streams, CreateUpload(s) PROVE Waits(Conn(r))'
  BY <1>8, <1>b DEF CreateUpload, At, Yield, Go, Detached, Inv, TypeOK, TaskTypes
<1>10. ASSUME NEW s \in Streams, Created(s) PROVE Waits(Conn(r))'
  BY <1>10, <1>b DEF Created, At, Yield, Go, Detached, Inv, TypeOK, TaskTypes
<1>11. ASSUME NEW s \in Streams, RecvAudio(s) PROVE Waits(Conn(r))'
  BY <1>11, <1>b DEF RecvAudio, Acquire, At, Yield, Go, Detached, Inv, TypeOK, TaskTypes
<1>12. ASSUME NEW s \in Streams, AppendFrame(s) PROVE Waits(Conn(r))'
  BY <1>12, <1>b DEF AppendFrame, At, Yield, Go, Detached, Inv, TypeOK, TaskTypes
<1>13. ASSUME NEW s \in Streams, UploadPart(s) PROVE Waits(Conn(r))'
  BY <1>13, <1>b DEF UploadPart, Acquire, At, Yield, Go, Detached, Inv, TypeOK, TaskTypes
<1>14. ASSUME NEW s \in Streams, AppendSaved(s) PROVE Waits(Conn(r))'
  BY <1>14, <1>b DEF AppendSaved, At, Yield, Go, Detached, Inv, TypeOK, TaskTypes
<1>15. ASSUME NEW s \in Streams, GracefulEnd(s) PROVE Waits(Conn(r))'
  BY <1>15, <1>b DEF GracefulEnd, At, Yield, Go, Detached, Inv, TypeOK, TaskTypes
<1>17. ASSUME NEW s \in Streams, BreakReading(s) PROVE Waits(Conn(r))'
  BY <1>17, <1>b DEF BreakReading, At, Yield, Go, Detached, Inv, TypeOK, TaskTypes
<1>19. ASSUME NEW s \in Streams, Drop(s) PROVE Waits(Conn(r))'
  BY <1>19, <1>b DEF Drop, Acquire, At, Yield, Go, Detached, Inv, TypeOK, TaskTypes
<1>20. ASSUME NEW s \in Streams, GraceWait(s) PROVE Waits(Conn(r))'
  BY <1>20, <1>b DEF GraceWait, At, Yield, Go, Detached, Inv, TypeOK, TaskTypes
<1>21. ASSUME NEW s \in Streams, ArmTimer(s) PROVE Waits(Conn(r))'
  BY <1>21, <1>b DEF ArmTimer, At, Yield, Go, Detached, Inv, TypeOK, TaskTypes
<1>22. ASSUME NEW s \in Streams, TimerFires(s) PROVE Waits(Conn(r))'
  <2>1. pc[Conn(r)] = "resume" /\ me'[Conn(r)] = me[Conn(r)] /\ loop \in {Idle, Grace(s)} /\ Grace(s) # Conn(r)
    BY <1>22 DEF TimerFires, At, Acquire, Yield, Inv, TypeOK, TaskTypes
  <2>2. UNCHANGED <<registry, sess>>
    BY <1>22 DEF TimerFires, memoryVars
  <2> QED
    BY <1>a, <2>1, <2>2 DEF Waits
<1>23. ASSUME NEW s \in Streams, Claim(s) PROVE Waits(Conn(r))'
  <2>1. /\ pc[Conn(r)] = "resume" /\ me'[Conn(r)] = me[Conn(r)] /\ loop \in {Idle, Grace(s)}
        /\ UNCHANGED registry
    BY <1>23 DEF Claim, At, Go, Yield, Inv, TypeOK, TaskTypes
  <2>2. me[Grace(s)] \in Streams /\ sess[me[Grace(s)]].status = "graceWait"
    <3>1. OnlyOwner(Grace(s))
      BY <1>23, OwnerFacts DEF Claim, At, Owns, OwnerPcs, WaitingPcs
    <3> QED
      BY <1>23, <3>1 DEF Claim, At, OnlyOwner, OwnerState, WaitingPcs
  <2>3. sess' = [sess EXCEPT ![me[Grace(s)]].status = "finalizing"]
    BY <1>23, <2>2 DEF Claim, StillWaiting
  <2>4. \A u \in Streams : sess'[u].status = (IF u = me[Grace(s)] THEN "finalizing" ELSE sess[u].status)
    BY <2>2, <2>3 DEF Inv, TypeOK, MemoryTypes, Session
  <2> QED
    BY <1>a, <2>1, <2>2, <2>4 DEF Waits, AlreadyFinal
<1>24. ASSUME NEW t \in Finalizers, BeginFinalize(t) PROVE Waits(Conn(r))'
  <2>1. pc[Conn(r)] = "resume" /\ me'[Conn(r)] = me[Conn(r)] /\ loop \in {Idle, t} /\ t # Conn(r)
    BY <1>24 DEF BeginFinalize, At, Acquire, Yield, Inv, TypeOK, TaskTypes
  <2>2. UNCHANGED <<registry, sess>>
    BY <1>24 DEF BeginFinalize, memoryVars
  <2> QED
    BY <1>a, <2>1, <2>2 DEF Waits
<1>26. ASSUME NEW t \in Finalizers, TakeBuffer(t) PROVE Waits(Conn(r))'
  <2>1. pc[Conn(r)] = "resume" /\ me'[Conn(r)] = me[Conn(r)] /\ loop \in {Idle, t} /\ t # Conn(r)
    BY <1>26 DEF TakeBuffer, At, Acquire, Yield, Inv, TypeOK, TaskTypes
  <2>2. UNCHANGED <<registry, sess>>
    BY <1>26 DEF TakeBuffer, memoryVars
  <2> QED
    BY <1>a, <2>1, <2>2 DEF Waits
<1>27. ASSUME NEW t \in Finalizers, FlushBuffer(t) PROVE Waits(Conn(r))'
  <2>1. /\ pc[Conn(r)] = "resume" /\ me'[Conn(r)] = me[Conn(r)] /\ loop \in {Idle, t}
        /\ UNCHANGED registry /\ t # Conn(r)
    BY <1>27 DEF FlushBuffer, At, Yield, Inv, TypeOK, TaskTypes
  <2>2. \A u \in Streams : sess'[u].status = sess[u].status
    BY <1>27, StoredSet DEF FlushBuffer, GivesUp, Inv
  <2> QED
    BY <1>a, <2>1, <2>2 DEF Waits
<1>28. ASSUME NEW t \in Finalizers, PopAndReport(t) PROVE Waits(Conn(r))'
  <2>1. /\ pc[Conn(r)] = "resume" /\ me'[Conn(r)] = me[Conn(r)] /\ loop \in {Idle, t}
        /\ registry' = None /\ UNCHANGED sess /\ pc[t] = "saving"
    BY <1>28 DEF PopAndReport, At, Yield, memoryVars, Inv, TypeOK, TaskTypes
  <2>2. OnlyOwner(t)
    BY <2>1, OwnerFacts DEF Owns, OwnerPcs
  <2>3. me[t] = registry /\ registry \in Streams /\ AlreadyFinal(sess[registry].status)
    BY <2>1, <2>2 DEF OnlyOwner, OwnerState
  <2> QED
    BY <1>a, <2>1, <2>3 DEF Waits, AlreadyFinal
<1>29. ASSUME NEW t \in Finalizers, CompleteOrAbort(t) PROVE Waits(Conn(r))'
  <2>1. /\ pc[Conn(r)] = "resume" /\ me'[Conn(r)] = me[Conn(r)] /\ loop \in {Idle, t}
        /\ UNCHANGED registry /\ t # Conn(r)
    BY <1>29 DEF CompleteOrAbort, At, Yield, Inv, TypeOK, TaskTypes
  <2>2. PICK st \in {"completed", "failed"} : sess' = [sess EXCEPT ![me[t]].status = st]
    BY <1>29 DEF CompleteOrAbort, AfterError
  <2>3. \A u \in Streams : sess'[u].status = (IF u = me[t] THEN st ELSE sess[u].status)
    BY <2>2 DEF Inv, TypeOK, TaskTypes, MemoryTypes, Session
  <2> QED
    BY <1>a, <2>1, <2>3 DEF Waits, AlreadyFinal
<1>39. ASSUME Crash PROVE Waits(Conn(r))'
  BY <1>39 DEF Crash
<1>o. ASSUME OffStage PROVE Waits(Conn(r))'
  <2>1. pc[Conn(r)] = "resume"
    BY <1>o DEF OffStage, OffPcs
  <2> QED
    BY <1>o, <1>a, <2>1 DEF OffStage, Waits, OffPcs
<1> QED
  BY <1>2, <1>3, <1>4, <1>5, <1>7, <1>8, <1>10, <1>11, <1>12, <1>13, <1>14, <1>15, <1>17,
     <1>19, <1>20, <1>21, <1>22, <1>23, <1>24, <1>26, <1>27, <1>28, <1>29, <1>39, <1>o,
     StageStepOrOff DEF StageStep, EndStep

\* Where documents come from: the file takes one that was being written, and what is
\* written is a session object of memory, or the removal.
LEMMA DocumentMoves ==
    ASSUME Inv, Next
    PROVE  /\ file' = file \/ \E t \in Tasks : file' \in write[t]
           /\ \A t \in Tasks : \A doc \in write'[t] :
                \/ doc \in write[t] \/ doc = NoSession
                \/ \E o \in Streams \cup {None} : doc = sess'[o]
<1> DEFINE Goal ==
      /\ file' = file \/ \E t \in Tasks : file' \in write[t]
      /\ \A t \in Tasks : \A doc \in write'[t] :
           \/ doc \in write[t] \/ doc = NoSession
           \/ \E o \in Streams \cup {None} : doc = sess'[o]
<1> USE TaskFacts DEF Inv
<1>1. ASSUME NEW s \in Streams, OpenStream(s) PROVE Goal
  BY <1>1 DEF OpenStream, TypeOK, TaskTypes, Save
<1>2. ASSUME NEW s \in Streams, LookUp(s) PROVE Goal
  BY <1>2 DEF LookUp, At, CreationHeld, Yield, TypeOK, TaskTypes, Save
<1>3. ASSUME NEW s \in Streams, ResumeCancelsTimer(s) PROVE Goal
  BY <1>3 DEF ResumeCancelsTimer, At, TypeOK, TaskTypes, Save
<1>4. ASSUME NEW s \in Streams, Resume(s) PROVE Goal
  BY <1>4 DEF Resume, At, Yield, TypeOK, TaskTypes, Save
<1>5. ASSUME NEW s \in Streams, Resumed(s) PROVE Goal
  BY <1>5 DEF Resumed, At, Yield, TypeOK, TaskTypes, Save
<1>6. ASSUME NEW s \in Streams, Reuse(s) PROVE Goal
  BY <1>6 DEF Reuse, At, Yield, TypeOK, TaskTypes, Save
<1>7. ASSUME NEW s \in Streams, DropStale(s) PROVE Goal
  BY <1>7 DEF DropStale, At, Yield, TypeOK, TaskTypes, Save
<1>8. ASSUME NEW s \in Streams, CreateUpload(s) PROVE Goal
  BY <1>8 DEF CreateUpload, At, Yield, TypeOK, TaskTypes, MemoryTypes, Save
<1>9. ASSUME NEW s \in Streams, CreateFails(s) PROVE Goal
  BY <1>9 DEF CreateFails, At, Yield, TypeOK, TaskTypes, Save
<1>10. ASSUME NEW s \in Streams, Created(s) PROVE Goal
  BY <1>10 DEF Created, At, TypeOK, TaskTypes, Save
<1>11. ASSUME NEW s \in Streams, RecvAudio(s) PROVE Goal
  BY <1>11 DEF RecvAudio, At, Yield, TypeOK, TaskTypes, Save
<1>12. ASSUME NEW s \in Streams, AppendFrame(s) PROVE Goal
  BY <1>12 DEF AppendFrame, At, Yield, TypeOK, TaskTypes, Save
<1>13. ASSUME NEW s \in Streams, UploadPart(s) PROVE Goal
  BY <1>13 DEF UploadPart, At, Stores, GivesUp, Yield, Go, TypeOK, TaskTypes, Save
<1>14. ASSUME NEW s \in Streams, AppendSaved(s) PROVE Goal
  BY <1>14 DEF AppendSaved, At, Yield, TypeOK, TaskTypes, Save
<1>15. ASSUME NEW s \in Streams, GracefulEnd(s) PROVE Goal
  BY <1>15 DEF GracefulEnd, At, Yield, Go, TypeOK, TaskTypes, Save
<1>16. ASSUME NEW s \in Streams, StopCancelsTimer(s) PROVE Goal
  BY <1>16 DEF StopCancelsTimer, At, TypeOK, TaskTypes, Save
<1>17. ASSUME NEW s \in Streams, BreakReading(s) PROVE Goal
  BY <1>17 DEF BreakReading, At, Go, TypeOK, TaskTypes, Save
<1>18. ASSUME NEW s \in Streams, BreakMidCall(s) PROVE Goal
  BY <1>18 DEF BreakMidCall, TypeOK, TaskTypes, Save
<1>19. ASSUME NEW s \in Streams, Drop(s) PROVE Goal
  BY <1>19 DEF Drop, At, Yield, TypeOK, TaskTypes, Save
<1>20. ASSUME NEW s \in Streams, GraceWait(s) PROVE Goal
  BY <1>20 DEF GraceWait, At, Yield, TypeOK, TaskTypes, Save
<1>21. ASSUME NEW s \in Streams, ArmTimer(s) PROVE Goal
  BY <1>21 DEF ArmTimer, At, TypeOK, TaskTypes, Save
<1>22. ASSUME NEW s \in Streams, TimerFires(s) PROVE Goal
  BY <1>22 DEF TimerFires, At, Yield, TypeOK, TaskTypes, Save
<1>23. ASSUME NEW s \in Streams, Claim(s) PROVE Goal
  BY <1>23 DEF Claim, At, Go, Yield, TypeOK, TaskTypes, Save
<1>24. ASSUME NEW t \in Finalizers, BeginFinalize(t) PROVE Goal
  BY <1>24 DEF BeginFinalize, At, Yield, TypeOK, TaskTypes, Save
<1>25. ASSUME NEW t \in Finalizers, SkipFinalize(t) PROVE Goal
  BY <1>25 DEF SkipFinalize, At, Yield, TypeOK, TaskTypes, Save
<1>26. ASSUME NEW t \in Finalizers, TakeBuffer(t) PROVE Goal
  BY <1>26 DEF TakeBuffer, At, Yield, TypeOK, TaskTypes, Save
<1>27. ASSUME NEW t \in Finalizers, FlushBuffer(t) PROVE Goal
  BY <1>27 DEF FlushBuffer, At, Stores, GivesUp, Yield, TypeOK, TaskTypes, Save
<1>28. ASSUME NEW t \in Finalizers, PopAndReport(t) PROVE Goal
  BY <1>28 DEF PopAndReport, At, Yield, TypeOK, TaskTypes, Save
<1>29. ASSUME NEW t \in Finalizers \cup {Reconciler}, CompleteOrAbort(t) PROVE Goal
  BY <1>29 DEF CompleteOrAbort, At, Yield, TypeOK, TaskTypes, Save
<1>30. ASSUME NEW t \in Tasks, WriteLands(t) PROVE Goal
  BY <1>30 DEF WriteLands, localVars, memoryVars, s3Vars, TypeOK, TaskTypes, Save
<1>31. ASSUME NEW t \in Tasks, Report(t) PROVE Goal
  BY <1>31 DEF Report, At, Yield, memoryVars, TypeOK, TaskTypes, Save
<1>32. ASSUME NEW t \in Tasks, Acked(t) PROVE Goal
  BY <1>32 DEF Acked, At, Saved, Finished, Yield, TypeOK, TaskTypes, Save
<1>33. ASSUME NEW t \in Tasks, Unacked(t) PROVE Goal
  BY <1>33 DEF Unacked, At, Finished, Yield, TypeOK, TaskTypes, Save
<1>34. ASSUME NEW t \in Tasks, Deleted(t) PROVE Goal
  BY <1>34 DEF Deleted, At, Finished, Yield, TypeOK, TaskTypes, Save
<1>35. ASSUME ListUnfinished PROVE Goal
  BY <1>35 DEF ListUnfinished, At, Finished, Yield, TypeOK, TaskTypes, Save
<1>36. ASSUME SkipLive PROVE Goal
  BY <1>36 DEF SkipLive, At, Finished, Yield, TypeOK, TaskTypes, Save
<1>37. ASSUME Recover PROVE Goal
  BY <1>37 DEF Recover, At, Yield, TypeOK, TaskTypes, Save
<1>38. ASSUME RecoveredSaved PROVE Goal
  BY <1>38 DEF RecoveredSaved, At, Yield, TypeOK, TaskTypes, Save
<1>39. ASSUME Crash PROVE Goal
  BY <1>39 DEF Crash, TypeOK, TaskTypes, Save
<1> QED
  BY <1>1, <1>2, <1>3, <1>4, <1>5, <1>6, <1>7, <1>8, <1>9, <1>10, <1>11, <1>12, <1>13,
     <1>14, <1>15, <1>16, <1>17, <1>18, <1>19, <1>20, <1>21, <1>22, <1>23, <1>24, <1>25,
     <1>26, <1>27, <1>28, <1>29, <1>30, <1>31, <1>32, <1>33, <1>34, <1>35, <1>36, <1>37,
     <1>38, <1>39
     DEF Next, StartStep, AppendStep, StopStep, FinalizeStep, ReportStep, ReconcilerStep

\* Where session objects come from, and that no upload is forgotten.
LEMMA SessionMoves ==
    ASSUME Inv, Next
    PROVE  /\ \A u \in Streams : upload[u] # "none" => upload'[u] # "none"
           /\ \A o \in Streams \cup {None} :
                \/ sess'[o].upload = sess[o].upload
                \/ sess'[o] = NoSession
                \/ sess'[o] = file
                \/ o \in Streams /\ sess'[o].upload = o /\ upload'[o] = "open"
<1> DEFINE Goal ==
      /\ \A u \in Streams : upload[u] # "none" => upload'[u] # "none"
      /\ \A o \in Streams \cup {None} :
           \/ sess'[o].upload = sess[o].upload
           \/ sess'[o] = NoSession
           \/ sess'[o] = file
           \/ o \in Streams /\ sess'[o].upload = o /\ upload'[o] = "open"
<1> USE TaskFacts DEF Inv
<1>1. ASSUME NEW s \in Streams, OpenStream(s) PROVE Goal
  BY <1>1 DEF OpenStream, memoryVars, s3Vars, TypeOK, TaskTypes
<1>2. ASSUME NEW s \in Streams, LookUp(s) PROVE Goal
  BY <1>2 DEF LookUp, At, CreationHeld, Yield, memoryVars, s3Vars, TypeOK, TaskTypes
<1>3. ASSUME NEW s \in Streams, ResumeCancelsTimer(s) PROVE Goal
  BY <1>3
     DEF ResumeCancelsTimer, At, Cancelled, CallOutlives, Closes, s3Vars, memoryVars,
         TypeOK, TaskTypes, WorldTypes
<1>4. ASSUME NEW s \in Streams, Resume(s) PROVE Goal
  <2>1. \A o \in Streams \cup {None} : sess'[o].upload = sess[o].upload
    BY <1>4, StatusKeepsUpload DEF Resume
  <2>2. \A u \in Streams : upload[u] # "none" => upload'[u] # "none"
    BY <1>4 DEF Resume, Closes, s3Vars, TypeOK, WorldTypes
  <2> QED
    BY <2>1, <2>2
<1>5. ASSUME NEW s \in Streams, Resumed(s) PROVE Goal
  BY <1>5 DEF Resumed, At, Yield, memoryVars, s3Vars, TypeOK, TaskTypes
<1>6. ASSUME NEW s \in Streams, Reuse(s) PROVE Goal
  BY <1>6 DEF Reuse, At, Yield, memoryVars, s3Vars, TypeOK, TaskTypes
<1>7. ASSUME NEW s \in Streams, DropStale(s) PROVE Goal
  BY <1>7 DEF DropStale, At, Yield, memoryVars, s3Vars, TypeOK, TaskTypes
<1>8. ASSUME NEW s \in Streams, CreateUpload(s) PROVE Goal
  BY <1>8 DEF CreateUpload, At, Yield, NewSession, TypeOK, MemoryTypes, WorldTypes
<1>9. ASSUME NEW s \in Streams, CreateFails(s) PROVE Goal
  BY <1>9 DEF CreateFails, At, Yield, memoryVars, s3Vars, TypeOK, TaskTypes
<1>10. ASSUME NEW s \in Streams, Created(s) PROVE Goal
  BY <1>10 DEF Created, At, memoryVars, s3Vars, TypeOK, TaskTypes
<1>11. ASSUME NEW s \in Streams, RecvAudio(s) PROVE Goal
  BY <1>11 DEF RecvAudio, At, Yield, memoryVars, s3Vars, TypeOK, TaskTypes
<1>12. ASSUME NEW s \in Streams, AppendFrame(s) PROVE Goal
  BY <1>12 DEF AppendFrame, At, Yield, memoryVars, s3Vars, TypeOK, TaskTypes
<1>13. ASSUME NEW s \in Streams, UploadPart(s) PROVE Goal
  BY <1>13, StoresKeepsUpload DEF UploadPart, GivesUp, s3Vars
<1>14. ASSUME NEW s \in Streams, AppendSaved(s) PROVE Goal
  BY <1>14 DEF AppendSaved, At, Yield, memoryVars, s3Vars, TypeOK, TaskTypes
<1>15. ASSUME NEW s \in Streams, GracefulEnd(s) PROVE Goal
  BY <1>15 DEF GracefulEnd, At, Yield, Go, memoryVars, s3Vars, TypeOK, TaskTypes
<1>16. ASSUME NEW s \in Streams, StopCancelsTimer(s) PROVE Goal
  BY <1>16
     DEF StopCancelsTimer, At, Cancelled, CallOutlives, Closes, s3Vars, memoryVars, TypeOK,
         TaskTypes, WorldTypes
<1>17. ASSUME NEW s \in Streams, BreakReading(s) PROVE Goal
  BY <1>17 DEF BreakReading, At, Go, memoryVars, s3Vars, TypeOK, TaskTypes
<1>18. ASSUME NEW s \in Streams, BreakMidCall(s) PROVE Goal
  BY <1>18
     DEF BreakMidCall, Cancelled, CallOutlives, Closes, s3Vars, memoryVars, TypeOK,
         TaskTypes, WorldTypes
<1>19. ASSUME NEW s \in Streams, Drop(s) PROVE Goal
  BY <1>19 DEF Drop, At, Yield, memoryVars, s3Vars, TypeOK, TaskTypes
<1>20. ASSUME NEW s \in Streams, GraceWait(s) PROVE Goal
  <2>1. \A o \in Streams \cup {None} : sess'[o].upload = sess[o].upload
    BY <1>20, StatusKeepsUpload DEF GraceWait
  <2>2. \A u \in Streams : upload[u] # "none" => upload'[u] # "none"
    BY <1>20 DEF GraceWait, Closes, s3Vars, TypeOK, WorldTypes
  <2> QED
    BY <2>1, <2>2
<1>21. ASSUME NEW s \in Streams, ArmTimer(s) PROVE Goal
  BY <1>21 DEF ArmTimer, At, memoryVars, s3Vars, TypeOK, TaskTypes
<1>22. ASSUME NEW s \in Streams, TimerFires(s) PROVE Goal
  BY <1>22 DEF TimerFires, At, Yield, memoryVars, s3Vars, TypeOK, TaskTypes
<1>23. ASSUME NEW s \in Streams, Claim(s) PROVE Goal
  <2>1. \A o \in Streams \cup {None} : sess'[o].upload = sess[o].upload
    BY <1>23, StatusKeepsUpload DEF Claim
  <2>2. \A u \in Streams : upload[u] # "none" => upload'[u] # "none"
    BY <1>23 DEF Claim, Closes, s3Vars, TypeOK, WorldTypes
  <2> QED
    BY <2>1, <2>2
<1>24. ASSUME NEW t \in Finalizers, BeginFinalize(t) PROVE Goal
  BY <1>24 DEF BeginFinalize, At, Yield, memoryVars, s3Vars, TypeOK, TaskTypes
<1>25. ASSUME NEW t \in Finalizers, SkipFinalize(t) PROVE Goal
  BY <1>25 DEF SkipFinalize, At, Yield, memoryVars, s3Vars, TypeOK, TaskTypes
<1>26. ASSUME NEW t \in Finalizers, TakeBuffer(t) PROVE Goal
  BY <1>26 DEF TakeBuffer, At, Yield, memoryVars, s3Vars, TypeOK, TaskTypes
<1>27. ASSUME NEW t \in Finalizers, FlushBuffer(t) PROVE Goal
  BY <1>27, StoresKeepsUpload DEF FlushBuffer, GivesUp, s3Vars
<1>28. ASSUME NEW t \in Finalizers, PopAndReport(t) PROVE Goal
  BY <1>28 DEF PopAndReport, At, Yield, memoryVars, s3Vars, TypeOK, TaskTypes
<1>29. ASSUME NEW t \in Finalizers \cup {Reconciler}, CompleteOrAbort(t) PROVE Goal
  <2>1. \A o \in Streams \cup {None} : sess'[o].upload = sess[o].upload
    BY <1>29, StatusKeepsUpload DEF CompleteOrAbort
  <2>2. \A u \in Streams : upload[u] # "none" => upload'[u] # "none"
    BY <1>29 DEF CompleteOrAbort, Closes, s3Vars, TypeOK, WorldTypes
  <2> QED
    BY <2>1, <2>2
<1>30. ASSUME NEW t \in Tasks, WriteLands(t) PROVE Goal
  BY <1>30 DEF WriteLands, localVars, memoryVars, s3Vars, TypeOK, TaskTypes
<1>31. ASSUME NEW t \in Tasks, Report(t) PROVE Goal
  BY <1>31 DEF Report, At, Yield, memoryVars, s3Vars, TypeOK, TaskTypes
<1>32. ASSUME NEW t \in Tasks, Acked(t) PROVE Goal
  BY <1>32 DEF Acked, At, Saved, Finished, Yield, memoryVars, s3Vars, TypeOK, TaskTypes
<1>33. ASSUME NEW t \in Tasks, Unacked(t) PROVE Goal
  BY <1>33 DEF Unacked, At, Finished, Yield, memoryVars, s3Vars, TypeOK, TaskTypes
<1>34. ASSUME NEW t \in Tasks, Deleted(t) PROVE Goal
  BY <1>34 DEF Deleted, At, Finished, Yield, memoryVars, s3Vars, TypeOK, TaskTypes
<1>35. ASSUME ListUnfinished PROVE Goal
  BY <1>35 DEF ListUnfinished, At, Finished, Yield, s3Vars, TypeOK, MemoryTypes
<1>36. ASSUME SkipLive PROVE Goal
  BY <1>36 DEF SkipLive, At, Finished, Yield, memoryVars, s3Vars, TypeOK, TaskTypes
<1>37. ASSUME Recover PROVE Goal
  BY <1>37 DEF Recover, At, Yield, memoryVars, s3Vars, TypeOK, TaskTypes
<1>38. ASSUME RecoveredSaved PROVE Goal
  BY <1>38 DEF RecoveredSaved, At, Yield, memoryVars, s3Vars, TypeOK, TaskTypes
<1>39. ASSUME Crash PROVE Goal
  BY <1>39 DEF Crash, memoryVars, s3Vars, TypeOK, TaskTypes
<1> QED
  BY <1>1, <1>2, <1>3, <1>4, <1>5, <1>6, <1>7, <1>8, <1>9, <1>10, <1>11, <1>12, <1>13,
     <1>14, <1>15, <1>16, <1>17, <1>18, <1>19, <1>20, <1>21, <1>22, <1>23, <1>24, <1>25,
     <1>26, <1>27, <1>28, <1>29, <1>30, <1>31, <1>32, <1>33, <1>34, <1>35, <1>36, <1>37,
     <1>38, <1>39
     DEF Next, StartStep, AppendStep, StopStep, FinalizeStep, ReportStep, ReconcilerStep

\* A document that names an upload names one that was opened.
LEMMA KnownStep ==
    ASSUME Inv, KnownSessions, KnownFiles, Next
    PROVE  KnownSessions' /\ KnownFiles'
<1>1. NoSession.upload = None /\ None \notin Streams
  BY StreamsAssumption DEF NoSession
<1>2. KnownSessions'
  BY <1>1, SessionMoves DEF KnownSessions, KnownFiles, Known
<1>3. KnownFiles'
  <2>1. \A t \in Tasks : \A doc \in write'[t] : Known(doc, upload')
    BY <1>1, <1>2, SessionMoves, DocumentMoves DEF KnownSessions, KnownFiles, Known
  <2>2. Known(file, upload)'
    BY SessionMoves, DocumentMoves DEF KnownFiles, Known
  <2> QED
    BY <2>1, <2>2 DEF KnownFiles
<1> QED
  BY <1>2, <1>3

\* Recoveries is inductive: a session is registered with an upload of its own.
LEMMA RecoveriesStep ==
    ASSUME AllInv, Next
    PROVE  Recoveries'
<1> USE TaskFacts, AcquireMoves, StreamsAssumption DEF AllInv, SeqInv, Inv, Recoveries
<1>1. ASSUME NEW s \in Streams, OpenStream(s) PROVE Recoveries'
  BY <1>1 DEF OpenStream, memoryVars, TypeOK, TaskTypes
<1>2. ASSUME NEW s \in Streams, LookUp(s) PROVE Recoveries'
  BY <1>2 DEF LookUp, At, CreationHeld, Yield, memoryVars, TypeOK, TaskTypes
<1>3. ASSUME NEW s \in Streams, ResumeCancelsTimer(s) PROVE Recoveries'
  BY <1>3, CancelTarget DEF ResumeCancelsTimer, At, TypeOK, TaskTypes
<1>4. ASSUME NEW s \in Streams, Resume(s) PROVE Recoveries'
  BY <1>4, StatusKeepsUpload DEF Resume, At, Yield, TypeOK, TaskTypes
<1>5. ASSUME NEW s \in Streams, Resumed(s) PROVE Recoveries'
  BY <1>5 DEF Resumed, At, Yield, memoryVars, TypeOK, TaskTypes
<1>6. ASSUME NEW s \in Streams, Reuse(s) PROVE Recoveries'
  BY <1>6 DEF Reuse, At, Yield, memoryVars, TypeOK, TaskTypes
<1>7. ASSUME NEW s \in Streams, DropStale(s) PROVE Recoveries'
  BY <1>7 DEF DropStale, At, Yield, memoryVars, TypeOK, TaskTypes
<1>8. ASSUME NEW s \in Streams, CreateUpload(s) PROVE Recoveries'
  BY <1>8
     DEF CreateUpload, At, Yield, NewSession, TypeOK, TaskTypes, MemoryTypes, TruthInv,
         FreshUpload, KnownSessions, Known
<1>9. ASSUME NEW s \in Streams, CreateFails(s) PROVE Recoveries'
  BY <1>9 DEF CreateFails, At, Yield, memoryVars, TypeOK, TaskTypes
<1>10. ASSUME NEW s \in Streams, Created(s) PROVE Recoveries'
  BY <1>10 DEF Created, At, memoryVars, TypeOK, TaskTypes
<1>11. ASSUME NEW s \in Streams, RecvAudio(s) PROVE Recoveries'
  BY <1>11 DEF RecvAudio, At, Yield, memoryVars, TypeOK, TaskTypes
<1>12. ASSUME NEW s \in Streams, AppendFrame(s) PROVE Recoveries'
  BY <1>12 DEF AppendFrame, At, Yield, memoryVars, TypeOK, TaskTypes
<1>13. ASSUME NEW s \in Streams, UploadPart(s) PROVE Recoveries'
  BY <1>13, StoresKeepsUpload
     DEF UploadPart, At, Stores, GivesUp, Yield, Go, TypeOK, TaskTypes
<1>14. ASSUME NEW s \in Streams, AppendSaved(s) PROVE Recoveries'
  BY <1>14 DEF AppendSaved, At, Yield, memoryVars, TypeOK, TaskTypes
<1>15. ASSUME NEW s \in Streams, GracefulEnd(s) PROVE Recoveries'
  BY <1>15 DEF GracefulEnd, At, Yield, Go, memoryVars, TypeOK, TaskTypes
<1>16. ASSUME NEW s \in Streams, StopCancelsTimer(s) PROVE Recoveries'
  BY <1>16 DEF StopCancelsTimer, At, NoCancel
<1>17. ASSUME NEW s \in Streams, BreakReading(s) PROVE Recoveries'
  BY <1>17 DEF BreakReading, At, Go, memoryVars, TypeOK, TaskTypes
<1>18. ASSUME NEW s \in Streams, BreakMidCall(s) PROVE Recoveries'
  BY <1>18 DEF BreakMidCall, memoryVars, TypeOK, TaskTypes
<1>19. ASSUME NEW s \in Streams, Drop(s) PROVE Recoveries'
  BY <1>19 DEF Drop, At, Yield, memoryVars, TypeOK, TaskTypes
<1>20. ASSUME NEW s \in Streams, GraceWait(s) PROVE Recoveries'
  BY <1>20, StatusKeepsUpload DEF GraceWait, At, Yield, TypeOK, TaskTypes
<1>21. ASSUME NEW s \in Streams, ArmTimer(s) PROVE Recoveries'
  BY <1>21 DEF ArmTimer, At, memoryVars, TypeOK, TaskTypes
<1>22. ASSUME NEW s \in Streams, TimerFires(s) PROVE Recoveries'
  BY <1>22 DEF TimerFires, At, Yield, memoryVars, TypeOK, TaskTypes
<1>23. ASSUME NEW s \in Streams, Claim(s) PROVE Recoveries'
  <2>1. \A o \in Streams \cup {None} : sess'[o].upload = sess[o].upload
    BY <1>23, StatusKeepsUpload DEF Claim
  <2> QED
    BY <1>23, <2>1 DEF Claim, At, Go, Yield, TypeOK, TaskTypes
<1>24. ASSUME NEW t \in Finalizers, BeginFinalize(t) PROVE Recoveries'
  BY <1>24 DEF BeginFinalize, At, Yield, memoryVars, TypeOK, TaskTypes
<1>25. ASSUME NEW t \in Finalizers, SkipFinalize(t) PROVE Recoveries'
  BY <1>25 DEF SkipFinalize, At, Yield, memoryVars, TypeOK, TaskTypes
<1>26. ASSUME NEW t \in Finalizers, TakeBuffer(t) PROVE Recoveries'
  BY <1>26 DEF TakeBuffer, At, Yield, memoryVars, TypeOK, TaskTypes
<1>27. ASSUME NEW t \in Finalizers, FlushBuffer(t) PROVE Recoveries'
  BY <1>27, StoresKeepsUpload DEF FlushBuffer, At, Stores, GivesUp, Yield, TypeOK, TaskTypes
<1>28. ASSUME NEW t \in Finalizers, PopAndReport(t) PROVE Recoveries'
  BY <1>28 DEF PopAndReport, At, Yield, memoryVars, TypeOK, TaskTypes
<1>29. ASSUME NEW t \in Finalizers \cup {Reconciler}, CompleteOrAbort(t) PROVE Recoveries'
  <2>1. \A o \in Streams \cup {None} : sess'[o].upload = sess[o].upload
    BY <1>29, StatusKeepsUpload DEF CompleteOrAbort
  <2> QED
    BY <1>29, <2>1 DEF CompleteOrAbort, At, Go, Yield, TypeOK, TaskTypes
<1>30. ASSUME NEW t \in Tasks, WriteLands(t) PROVE Recoveries'
  BY <1>30 DEF WriteLands, localVars, memoryVars, s3Vars, TypeOK, TaskTypes
<1>31. ASSUME NEW t \in Tasks, Report(t) PROVE Recoveries'
  BY <1>31 DEF Report, At, Yield, memoryVars, TypeOK, TaskTypes
<1>32. ASSUME NEW t \in Tasks, Acked(t) PROVE Recoveries'
  BY <1>32 DEF Acked, At, Saved, Finished, Yield, memoryVars, TypeOK, TaskTypes
<1>33. ASSUME NEW t \in Tasks, Unacked(t) PROVE Recoveries'
  BY <1>33 DEF Unacked, At, Finished, Yield, memoryVars, TypeOK, TaskTypes
<1>34. ASSUME NEW t \in Tasks, Deleted(t) PROVE Recoveries'
  BY <1>34 DEF Deleted, At, Finished, Yield, memoryVars, TypeOK, TaskTypes
<1>35. ASSUME ListUnfinished PROVE Recoveries'
  BY <1>35 DEF ListUnfinished, At, Finished, Yield, memoryVars, TypeOK, TaskTypes
<1>36. ASSUME SkipLive PROVE Recoveries'
  BY <1>36 DEF SkipLive, At, Finished, Yield, memoryVars, TypeOK, TaskTypes
<1>37. ASSUME Recover PROVE Recoveries'
  BY <1>37 DEF Recover, At, Yield, OwnedHere, TypeOK, TaskTypes
<1>38. ASSUME RecoveredSaved PROVE Recoveries'
  BY <1>38 DEF RecoveredSaved, At, Yield, memoryVars, TypeOK, TaskTypes
<1>39. ASSUME Crash PROVE Recoveries'
  BY <1>39 DEF Crash, memoryVars, TypeOK, TaskTypes
<1> QED
  BY <1>1, <1>2, <1>3, <1>4, <1>5, <1>6, <1>7, <1>8, <1>9, <1>10, <1>11, <1>12, <1>13,
     <1>14, <1>15, <1>16, <1>17, <1>18, <1>19, <1>20, <1>21, <1>22, <1>23, <1>24, <1>25,
     <1>26, <1>27, <1>28, <1>29, <1>30, <1>31, <1>32, <1>33, <1>34, <1>35, <1>36, <1>37,
     <1>38, <1>39
     DEF Next, StartStep, AppendStep, StopStep, FinalizeStep, ReportStep, ReconcilerStep

\* A fresh process has no session and no task at work.
LEMMA SeqInit == Init => PutNeverClobbers /\ SeqInv
<1> SUFFICES ASSUME Init PROVE PutNeverClobbers /\ SeqInv
  OBVIOUS
<1> USE TaskFacts, StreamsAssumption DEF Init
<1>1. PutNeverClobbers /\ Kinds /\ OneConn /\ NoCancel
  BY DEF PutNeverClobbers, Kinds, TimerPcs, FinalizePcs, ReportPcs, OneConn, Detached,
         NoCancel
<1>2. Owners /\ Resumes /\ Queues /\ Timers
  BY DEF Owners, NoOwner, Owns, Resuming, OwnerPcs, RecordingPcs, WaitingPcs, EndingPcs,
         Resumes, Queues, Timers
<1>3. Recoveries /\ FreshTimer /\ KnownSessions /\ KnownFiles
  BY DEF Recoveries, FreshTimer, KnownSessions, KnownFiles, Known, NoSession
<1> QED
  BY <1>1, <1>2, <1>3 DEF SeqInv

\* A stuttering step keeps every part.
LEMMA SeqUnchanged ==
    ASSUME SeqInv, UNCHANGED vars
    PROVE  SeqInv'
<1> USE DEF vars, localVars, memoryVars, s3Vars, SeqInv
<1>1. Kinds' /\ OneConn' /\ NoCancel'
  BY DEF Kinds, OneConn, Detached, NoCancel
<1>2. Owners'
  BY DEF Owners, NoOwner, OnlyOwner, OwnerState, Owns, Resuming
<1>3. Resumes' /\ Queues' /\ Timers'
  BY DEF Resumes, Waits, Queues, Timers
<1>4. Recoveries' /\ FreshTimer' /\ KnownSessions' /\ KnownFiles'
  BY DEF Recoveries, FreshTimer, KnownSessions, KnownFiles, Known
<1> QED
  BY <1>1, <1>2, <1>3, <1>4

\* The whole invariant holds at first ...
LEMMA AllInit == Init => AllInv
  BY InvInit, TruthInit, SeqInit DEF AllInv

\* ... and every step keeps it.
LEMMA AllStep ==
    ASSUME ~Overlap, ~BreakAnywhere, AllInv, [Next]_vars
    PROVE  AllInv'
<1>1. Inv' /\ TruthInv' /\ PutNeverClobbers'
  BY InvStep, TruthStep, PutStep DEF AllInv
<1>2. SeqInv'
  <2>1. CASE Next
    <3>1. Kinds' /\ OneConn' /\ NoCancel' /\ Owners' /\ Resumes' /\ Queues'
      BY <2>1, KindsStep, OneConnStep, NoCancelStep, OwnersStep, ResumesStep, QueuesStep
         DEF AllInv, SeqInv
    <3>2. Timers' /\ Recoveries' /\ FreshTimer' /\ KnownSessions' /\ KnownFiles'
      BY <2>1, TimersStep, RecoveriesStep, FreshTimerStep, KnownStep DEF AllInv, SeqInv
    <3> QED
      BY <3>1, <3>2 DEF SeqInv
  <2>2. CASE UNCHANGED vars
    BY <2>2, SeqUnchanged DEF AllInv
  <2> QED
    BY <2>1, <2>2
<1> QED
  BY <1>1, <1>2 DEF AllInv

\* The stream that is being read is the owner of the session, and its upload is open.
LEMMA NeverClosedFollows == AllInv => NeverClosedWhileFed
<1> SUFFICES ASSUME AllInv, NEW s \in Streams, NEW u \in Streams, Feeds(s, u)
             PROVE  upload[u] = "open"
  BY DEF NeverClosedWhileFed
<1>1. Owns(Conn(s)) /\ pc[Conn(s)] \in RecordingPcs /\ me[Conn(s)] = u
  BY DEF Feeds, Owns, OwnerPcs, RecordingPcs, AppendPcs
<1>2. OnlyOwner(Conn(s))
  BY <1>1, OwnerFacts, TaskFacts
<1> QED
  BY <1>1, <1>2 DEF OnlyOwner, OwnerState, RecordingPcs

\* An upload is never closed under a stream that is still being read into it, whatever
\* fails and whenever the service crashes, as long as a room's streams come one after
\* the other and a connection breaks between two messages.
THEOREM NeverClosedWhileFedAlways ==
    ASSUME ~Overlap, ~BreakAnywhere
    PROVE  Spec => []NeverClosedWhileFed
<1>1. Init => AllInv
  BY AllInit
<1>2. AllInv /\ [Next]_vars => AllInv'
  BY AllStep
<1>3. AllInv => NeverClosedWhileFed
  BY NeverClosedFollows
<1> QED
  BY <1>1, <1>2, <1>3, PTL DEF Spec

--------------------------------------------------------------------------------
(* The documents: what is being written, reported and recovered             *)

\* Places where a task may still have a write under way.
SavePcs == {"resaving", "newsaving", "appsaving", "dropsaving", "saving", "acked", "unacked",
            "deleting"}

\* A task waits for its write before it goes on, and what it writes is the session object
\* it works on, or the removal of the file.
Quiet   == \A t \in Tasks : write[t] # {} => pc[t] \in SavePcs
Written ==
    \A t \in Tasks : \A doc \in write[t] :
        doc = IF pc[t] = "deleting" THEN NoSession ELSE sess[me[t]]

\* While recording.started is posted its stream waits.
StartedWaits ==
    \A s \in Streams :
        /\ pc[Started(s)] \notin {"idle", "end"} =>
             /\ pc[Started(s)] # "deleting" /\ me[Started(s)] = s
             /\ pc[Conn(s)] = "open" /\ me[Conn(s)] = s
        /\ pc[Conn(s)] = "newsaving" => me[Conn(s)] = s

\* A timer is armed when its stream ends.
Unarmed == \A s \in Streams : pc[Grace(s)] # "idle" => pc[Conn(s)] = "end"

\* A registered session is about its own upload, and whoever reports an outcome reports
\* that of a session which is final and no longer registered.
OwnDoc == registry # None => sess[registry].upload = registry
Reporters ==
    \A t \in Finalizers : pc[t] \in ReportPcs =>
        /\ me[t] \in Streams \ {registry}
        /\ sess[me[t]].upload = me[t] /\ AlreadyFinal(sess[me[t]].status)
        /\ event[t] = Outcome(sess[me[t]].status)

\* Before the server opens only the reconciler is at work.
Restarting ==
    up = "starting" =>
        /\ registry = None
        /\ \A t \in Finalizers : pc[t] \in {"idle", "end"}
        /\ \A s \in Streams : pc[Started(s)] \in {"idle", "end"}
        /\ \A u \in Streams : sess[u] = NoSession

\* What the reconciler works on: only after a crash, before the server opens, does it
\* find a session to finish; what it reports of any other is final already.
Scanned ==
    pc[Reconciler] = "check" =>
        /\ loop = Reconciler
        /\ up = "starting" => sess[None] = file
        /\ registry = None /\ (up = "serving" \/ crashes = 0) => AlreadyFinal(sess[None].status)
Repaired ==
    /\ pc[Reconciler] \in {"complete", "saving"} => up = "starting" /\ crashes # 0
    /\ pc[Reconciler] = "complete" => sess[None] = file /\ ~AlreadyFinal(file.status)
    /\ pc[Reconciler] = "saving" /\ write[Reconciler] = {} => sess[None] = file
    /\ pc[Reconciler] \in ReportPcs \cup {"saving"} => AlreadyFinal(sess[None].status)
    /\ pc[Reconciler] \in ReportPcs => event[Reconciler] = Outcome(sess[None].status)
    /\ registry # None /\ sess[None].upload = registry => pc[Reconciler] \in {"idle", "check"}

\* The state file says how the last session ended once nobody is registered.
Ended ==
    registry = None /\ (up = "serving" \/ pc[Reconciler] \in ReportPcs \/ crashes = 0) =>
        AlreadyFinal(file.status)
Saving ==
    \A t \in Finalizers : pc[t] = "saving" /\ write[t] = {} =>
        /\ AlreadyFinal(file.status)
        /\ file.upload = registry => file = sess[registry]

FileInv ==
    /\ Quiet /\ Written /\ StartedWaits /\ Unarmed /\ OwnDoc /\ Reporters /\ Restarting
    /\ Scanned /\ Repaired /\ Ended /\ Saving

\* Quiet is inductive: a task that has saved looks at its write before it goes on.
LEMMA QuietStep ==
    ASSUME ~BreakAnywhere, AllInv, FileInv, Next
    PROVE  Quiet'
<1> USE TaskFacts DEF AllInv, Inv, FileInv, Quiet, SavePcs
<1>1. ASSUME NEW s \in Streams, OpenStream(s) PROVE Quiet'
  BY <1>1 DEF OpenStream, TypeOK, TaskTypes
<1>2. ASSUME NEW s \in Streams, LookUp(s) PROVE Quiet'
  BY <1>2 DEF LookUp, At, CreationHeld, Yield, Acquire, TypeOK, TaskTypes
<1>3. ASSUME NEW s \in Streams, ResumeCancelsTimer(s) PROVE Quiet'
  BY <1>3, CancelledSleeps DEF ResumeCancelsTimer, At, TypeOK, TaskTypes
<1>4. ASSUME NEW s \in Streams, Resume(s) PROVE Quiet'
  BY <1>4 DEF Resume, At, Yield, Save, TypeOK, TaskTypes
<1>5. ASSUME NEW s \in Streams, Resumed(s) PROVE Quiet'
  BY <1>5 DEF Resumed, At, Yield, Saved, TypeOK, TaskTypes
<1>6. ASSUME NEW s \in Streams, Reuse(s) PROVE Quiet'
  BY <1>6 DEF Reuse, At, Yield, TypeOK, TaskTypes
<1>7. ASSUME NEW s \in Streams, DropStale(s) PROVE Quiet'
  BY <1>7 DEF DropStale, At, Yield, TypeOK, TaskTypes
<1>8. ASSUME NEW s \in Streams, CreateUpload(s) PROVE Quiet'
  BY <1>8 DEF CreateUpload, At, Yield, Save, TypeOK, TaskTypes
<1>9. ASSUME NEW s \in Streams, CreateFails(s) PROVE Quiet'
  BY <1>9 DEF CreateFails, At, Yield, TypeOK, TaskTypes
<1>10. ASSUME NEW s \in Streams, Created(s) PROVE Quiet'
  BY <1>10 DEF Created, At, Saved, StartedWaits, TypeOK, TaskTypes
<1>11. ASSUME NEW s \in Streams, RecvAudio(s) PROVE Quiet'
  BY <1>11 DEF RecvAudio, At, Yield, Acquire, TypeOK, TaskTypes
<1>12. ASSUME NEW s \in Streams, AppendFrame(s) PROVE Quiet'
  BY <1>12 DEF AppendFrame, At, Yield, Save, TypeOK, TaskTypes
<1>13. ASSUME NEW s \in Streams, UploadPart(s) PROVE Quiet'
  BY <1>13 DEF UploadPart, At, Stores, GivesUp, Yield, Go, Save, TypeOK, TaskTypes
<1>14. ASSUME NEW s \in Streams, AppendSaved(s) PROVE Quiet'
  BY <1>14 DEF AppendSaved, At, Yield, Saved, TypeOK, TaskTypes
<1>15. ASSUME NEW s \in Streams, GracefulEnd(s) PROVE Quiet'
  BY <1>15 DEF GracefulEnd, At, Yield, Go, TypeOK, TaskTypes
<1>16. ASSUME NEW s \in Streams, StopCancelsTimer(s) PROVE Quiet'
  BY <1>16 DEF StopCancelsTimer, At, SeqInv, NoCancel
<1>17. ASSUME NEW s \in Streams, BreakReading(s) PROVE Quiet'
  BY <1>17 DEF BreakReading, At, Go, TypeOK, TaskTypes
<1>18. ASSUME NEW s \in Streams, BreakMidCall(s) PROVE Quiet'
  BY <1>18 DEF BreakMidCall
<1>19. ASSUME NEW s \in Streams, Drop(s) PROVE Quiet'
  BY <1>19 DEF Drop, At, Yield, Acquire, TypeOK, TaskTypes
<1>20. ASSUME NEW s \in Streams, GraceWait(s) PROVE Quiet'
  BY <1>20 DEF GraceWait, At, Yield, Save, TypeOK, TaskTypes
<1>21. ASSUME NEW s \in Streams, ArmTimer(s) PROVE Quiet'
  BY <1>21 DEF ArmTimer, At, Saved, Unarmed, TypeOK, TaskTypes
<1>22. ASSUME NEW s \in Streams, TimerFires(s) PROVE Quiet'
  BY <1>22 DEF TimerFires, At, Yield, Acquire, TypeOK, TaskTypes
<1>23. ASSUME NEW s \in Streams, Claim(s) PROVE Quiet'
  BY <1>23 DEF Claim, At, Go, Yield, TypeOK, TaskTypes
<1>24. ASSUME NEW t \in Finalizers, BeginFinalize(t) PROVE Quiet'
  BY <1>24 DEF BeginFinalize, At, Yield, Acquire, TypeOK, TaskTypes
<1>25. ASSUME NEW t \in Finalizers, SkipFinalize(t) PROVE Quiet'
  BY <1>25 DEF SkipFinalize, At, Yield, TypeOK, TaskTypes
<1>26. ASSUME NEW t \in Finalizers, TakeBuffer(t) PROVE Quiet'
  BY <1>26 DEF TakeBuffer, At, Yield, TypeOK, TaskTypes
<1>27. ASSUME NEW t \in Finalizers, FlushBuffer(t) PROVE Quiet'
  BY <1>27 DEF FlushBuffer, At, Stores, GivesUp, Yield, TypeOK, TaskTypes
<1>28. ASSUME NEW t \in Finalizers, PopAndReport(t) PROVE Quiet'
  BY <1>28 DEF PopAndReport, At, Yield, Saved, TypeOK, TaskTypes
<1>29. ASSUME NEW t \in Finalizers \cup {Reconciler}, CompleteOrAbort(t) PROVE Quiet'
  BY <1>29 DEF CompleteOrAbort, At, Yield, Save, TypeOK, TaskTypes
<1>30. ASSUME NEW t \in Tasks, WriteLands(t) PROVE Quiet'
  BY <1>30 DEF WriteLands, localVars, memoryVars, s3Vars, TypeOK, TaskTypes
<1>31. ASSUME NEW t \in Tasks, Report(t) PROVE Quiet'
  BY <1>31 DEF Report, At, Yield, Save, TypeOK, TaskTypes
<1>32. ASSUME NEW t \in Tasks, Acked(t) PROVE Quiet'
  BY <1>32 DEF Acked, At, Saved, Finished, Yield, Save, TypeOK, TaskTypes
<1>33. ASSUME NEW t \in Tasks, Unacked(t) PROVE Quiet'
  BY <1>33 DEF Unacked, At, Finished, Yield, Saved, TypeOK, TaskTypes
<1>34. ASSUME NEW t \in Tasks, Deleted(t) PROVE Quiet'
  BY <1>34 DEF Deleted, At, Finished, Yield, Saved, TypeOK, TaskTypes
<1>35. ASSUME ListUnfinished PROVE Quiet'
  BY <1>35 DEF ListUnfinished, At, Finished, Yield, TypeOK, TaskTypes
<1>36. ASSUME SkipLive PROVE Quiet'
  BY <1>36 DEF SkipLive, At, Finished, Yield, TypeOK, TaskTypes
<1>37. ASSUME Recover PROVE Quiet'
  BY <1>37 DEF Recover, At, Yield, TypeOK, TaskTypes
<1>38. ASSUME RecoveredSaved PROVE Quiet'
  BY <1>38 DEF RecoveredSaved, At, Yield, Saved, TypeOK, TaskTypes
<1>39. ASSUME Crash PROVE Quiet'
  BY <1>39 DEF Crash, TypeOK, TaskTypes
<1> QED
  BY <1>1, <1>2, <1>3, <1>4, <1>5, <1>6, <1>7, <1>8, <1>9, <1>10, <1>11, <1>12, <1>13,
     <1>14, <1>15, <1>16, <1>17, <1>18, <1>19, <1>20, <1>21, <1>22, <1>23, <1>24, <1>25,
     <1>26, <1>27, <1>28, <1>29, <1>30, <1>31, <1>32, <1>33, <1>34, <1>35, <1>36, <1>37,
     <1>38, <1>39
     DEF Next, StartStep, AppendStep, StopStep, FinalizeStep, ReportStep, ReconcilerStep

\* Every finalizer is a stream or a timer.
LEMMA FinalizerKinds ==
    /\ \A t \in Finalizers : \E s \in Streams : t = Conn(s) \/ t = Grace(s)
    /\ \A t \in Tasks \ Finalizers : t = Reconciler \/ \E s \in Streams : t = Started(s)
  BY DEF Finalizers, Tasks

\* Unarmed is inductive.
LEMMA UnarmedStep ==
    ASSUME ~BreakAnywhere, AllInv, FileInv, Next
    PROVE  Unarmed'
<1> USE TaskFacts DEF AllInv, Inv, FileInv, Unarmed
<1>1. ASSUME NEW s \in Streams, OpenStream(s) PROVE Unarmed'
  BY <1>1 DEF OpenStream, TypeOK, TaskTypes
<1>2. ASSUME NEW s \in Streams, LookUp(s) PROVE Unarmed'
  BY <1>2 DEF LookUp, At, CreationHeld, Yield, Acquire, TypeOK, TaskTypes
<1>3. ASSUME NEW s \in Streams, ResumeCancelsTimer(s) PROVE Unarmed'
  BY <1>3, CancelledSleeps DEF ResumeCancelsTimer, At, TypeOK, TaskTypes
<1>4. ASSUME NEW s \in Streams, Resume(s) PROVE Unarmed'
  BY <1>4 DEF Resume, At, Yield, TypeOK, TaskTypes
<1>5. ASSUME NEW s \in Streams, Resumed(s) PROVE Unarmed'
  BY <1>5 DEF Resumed, At, Yield, TypeOK, TaskTypes
<1>6. ASSUME NEW s \in Streams, Reuse(s) PROVE Unarmed'
  BY <1>6 DEF Reuse, At, Yield, TypeOK, TaskTypes
<1>7. ASSUME NEW s \in Streams, DropStale(s) PROVE Unarmed'
  BY <1>7 DEF DropStale, At, Yield, TypeOK, TaskTypes
<1>8. ASSUME NEW s \in Streams, CreateUpload(s) PROVE Unarmed'
  BY <1>8 DEF CreateUpload, At, Yield, TypeOK, TaskTypes
<1>9. ASSUME NEW s \in Streams, CreateFails(s) PROVE Unarmed'
  BY <1>9 DEF CreateFails, At, Yield, TypeOK, TaskTypes
<1>10. ASSUME NEW s \in Streams, Created(s) PROVE Unarmed'
  BY <1>10 DEF Created, At, TypeOK, TaskTypes
<1>11. ASSUME NEW s \in Streams, RecvAudio(s) PROVE Unarmed'
  BY <1>11 DEF RecvAudio, At, Yield, Acquire, TypeOK, TaskTypes
<1>12. ASSUME NEW s \in Streams, AppendFrame(s) PROVE Unarmed'
  BY <1>12 DEF AppendFrame, At, Yield, TypeOK, TaskTypes
<1>13. ASSUME NEW s \in Streams, UploadPart(s) PROVE Unarmed'
  BY <1>13 DEF UploadPart, At, Stores, GivesUp, Yield, Go, TypeOK, TaskTypes
<1>14. ASSUME NEW s \in Streams, AppendSaved(s) PROVE Unarmed'
  BY <1>14 DEF AppendSaved, At, Yield, TypeOK, TaskTypes
<1>15. ASSUME NEW s \in Streams, GracefulEnd(s) PROVE Unarmed'
  BY <1>15 DEF GracefulEnd, At, Yield, Go, TypeOK, TaskTypes
<1>16. ASSUME NEW s \in Streams, StopCancelsTimer(s) PROVE Unarmed'
  BY <1>16 DEF StopCancelsTimer, At, SeqInv, NoCancel
<1>17. ASSUME NEW s \in Streams, BreakReading(s) PROVE Unarmed'
  BY <1>17 DEF BreakReading, At, Go, TypeOK, TaskTypes
<1>18. ASSUME NEW s \in Streams, BreakMidCall(s) PROVE Unarmed'
  BY <1>18 DEF BreakMidCall
<1>19. ASSUME NEW s \in Streams, Drop(s) PROVE Unarmed'
  BY <1>19 DEF Drop, At, Yield, Acquire, TypeOK, TaskTypes
<1>20. ASSUME NEW s \in Streams, GraceWait(s) PROVE Unarmed'
  BY <1>20 DEF GraceWait, At, Yield, TypeOK, TaskTypes
<1>21. ASSUME NEW s \in Streams, ArmTimer(s) PROVE Unarmed'
  BY <1>21 DEF ArmTimer, At, TypeOK, TaskTypes
<1>22. ASSUME NEW s \in Streams, TimerFires(s) PROVE Unarmed'
  BY <1>22 DEF TimerFires, At, Yield, Acquire, TypeOK, TaskTypes
<1>23. ASSUME NEW s \in Streams, Claim(s) PROVE Unarmed'
  BY <1>23 DEF Claim, At, Go, Yield, TypeOK, TaskTypes
<1>24. ASSUME NEW t \in Finalizers, BeginFinalize(t) PROVE Unarmed'
  BY <1>24, FinalizerKinds DEF BeginFinalize, At, Yield, Acquire, TypeOK, TaskTypes
<1>25. ASSUME NEW t \in Finalizers, SkipFinalize(t) PROVE Unarmed'
  BY <1>25, FinalizerKinds DEF SkipFinalize, At, Yield, TypeOK, TaskTypes
<1>26. ASSUME NEW t \in Finalizers, TakeBuffer(t) PROVE Unarmed'
  BY <1>26, FinalizerKinds DEF TakeBuffer, At, Yield, TypeOK, TaskTypes
<1>27. ASSUME NEW t \in Finalizers, FlushBuffer(t) PROVE Unarmed'
  BY <1>27, FinalizerKinds DEF FlushBuffer, At, Stores, GivesUp, Yield, TypeOK, TaskTypes
<1>28. ASSUME NEW t \in Finalizers, PopAndReport(t) PROVE Unarmed'
  BY <1>28, FinalizerKinds DEF PopAndReport, At, Yield, TypeOK, TaskTypes
<1>29. ASSUME NEW t \in Finalizers \cup {Reconciler}, CompleteOrAbort(t) PROVE Unarmed'
  BY <1>29, FinalizerKinds DEF CompleteOrAbort, At, Yield, TypeOK, TaskTypes
<1>30. ASSUME NEW t \in Tasks, WriteLands(t) PROVE Unarmed'
  BY <1>30 DEF WriteLands, localVars, memoryVars, s3Vars, TypeOK, TaskTypes
<1>31. ASSUME NEW t \in Tasks, Report(t) PROVE Unarmed'
  BY <1>31, FinalizerKinds DEF Report, At, Yield, TypeOK, TaskTypes
<1>32. ASSUME NEW t \in Tasks, Acked(t) PROVE Unarmed'
  BY <1>32, FinalizerKinds DEF Acked, At, Saved, Finished, Yield, TypeOK, TaskTypes
<1>33. ASSUME NEW t \in Tasks, Unacked(t) PROVE Unarmed'
  BY <1>33, FinalizerKinds DEF Unacked, At, Finished, Yield, TypeOK, TaskTypes
<1>34. ASSUME NEW t \in Tasks, Deleted(t) PROVE Unarmed'
  BY <1>34, FinalizerKinds DEF Deleted, At, Finished, Yield, TypeOK, TaskTypes
<1>35. ASSUME ListUnfinished PROVE Unarmed'
  BY <1>35 DEF ListUnfinished, At, Finished, Yield, TypeOK, TaskTypes
<1>36. ASSUME SkipLive PROVE Unarmed'
  BY <1>36 DEF SkipLive, At, Finished, Yield, TypeOK, TaskTypes
<1>37. ASSUME Recover PROVE Unarmed'
  BY <1>37 DEF Recover, At, Yield, TypeOK, TaskTypes
<1>38. ASSUME RecoveredSaved PROVE Unarmed'
  BY <1>38 DEF RecoveredSaved, At, Yield, TypeOK, TaskTypes
<1>39. ASSUME Crash PROVE Unarmed'
  BY <1>39 DEF Crash, TypeOK, TaskTypes
<1> QED
  BY <1>1, <1>2, <1>3, <1>4, <1>5, <1>6, <1>7, <1>8, <1>9, <1>10, <1>11, <1>12, <1>13,
     <1>14, <1>15, <1>16, <1>17, <1>18, <1>19, <1>20, <1>21, <1>22, <1>23, <1>24, <1>25,
     <1>26, <1>27, <1>28, <1>29, <1>30, <1>31, <1>32, <1>33, <1>34, <1>35, <1>36, <1>37,
     <1>38, <1>39
     DEF Next, StartStep, AppendStep, StopStep, FinalizeStep, ReportStep, ReconcilerStep

\* StartedWaits is inductive.
LEMMA StartedWaitsStep ==
    ASSUME ~BreakAnywhere, ~LateStarted, AllInv, FileInv, Next
    PROVE  StartedWaits'
<1> USE TaskFacts DEF AllInv, Inv, FileInv, StartedWaits
<1>1. ASSUME NEW s \in Streams, OpenStream(s) PROVE StartedWaits'
  BY <1>1 DEF OpenStream, TypeOK, TaskTypes
<1>2. ASSUME NEW s \in Streams, LookUp(s) PROVE StartedWaits'
  BY <1>2 DEF LookUp, At, CreationHeld, Yield, Acquire, TypeOK, TaskTypes
<1>3. ASSUME NEW s \in Streams, ResumeCancelsTimer(s) PROVE StartedWaits'
  BY <1>3, CancelledSleeps DEF ResumeCancelsTimer, At, TypeOK, TaskTypes
<1>4. ASSUME NEW s \in Streams, Resume(s) PROVE StartedWaits'
  BY <1>4 DEF Resume, At, Yield, TypeOK, TaskTypes
<1>5. ASSUME NEW s \in Streams, Resumed(s) PROVE StartedWaits'
  BY <1>5 DEF Resumed, At, Yield, TypeOK, TaskTypes
<1>6. ASSUME NEW s \in Streams, Reuse(s) PROVE StartedWaits'
  BY <1>6 DEF Reuse, At, Yield, TypeOK, TaskTypes
<1>7. ASSUME NEW s \in Streams, DropStale(s) PROVE StartedWaits'
  BY <1>7 DEF DropStale, At, Yield, TypeOK, TaskTypes
<1>8. ASSUME NEW s \in Streams, CreateUpload(s) PROVE StartedWaits'
  BY <1>8 DEF CreateUpload, At, Yield, TypeOK, TaskTypes
<1>9. ASSUME NEW s \in Streams, CreateFails(s) PROVE StartedWaits'
  BY <1>9 DEF CreateFails, At, Yield, TypeOK, TaskTypes
<1>10. ASSUME NEW s \in Streams, Created(s) PROVE StartedWaits'
  BY <1>10 DEF Created, At, TypeOK, TaskTypes
<1>11. ASSUME NEW s \in Streams, RecvAudio(s) PROVE StartedWaits'
  BY <1>11 DEF RecvAudio, At, Yield, StartedSettled, Acquire, TypeOK, TaskTypes
<1>12. ASSUME NEW s \in Streams, AppendFrame(s) PROVE StartedWaits'
  BY <1>12 DEF AppendFrame, At, Yield, TypeOK, TaskTypes
<1>13. ASSUME NEW s \in Streams, UploadPart(s) PROVE StartedWaits'
  BY <1>13 DEF UploadPart, At, Stores, GivesUp, Yield, Go, TypeOK, TaskTypes
<1>14. ASSUME NEW s \in Streams, AppendSaved(s) PROVE StartedWaits'
  BY <1>14 DEF AppendSaved, At, Yield, TypeOK, TaskTypes
<1>15. ASSUME NEW s \in Streams, GracefulEnd(s) PROVE StartedWaits'
  BY <1>15 DEF GracefulEnd, At, Yield, Go, StartedSettled, TypeOK, TaskTypes
<1>16. ASSUME NEW s \in Streams, StopCancelsTimer(s) PROVE StartedWaits'
  BY <1>16 DEF StopCancelsTimer, At, SeqInv, NoCancel
<1>17. ASSUME NEW s \in Streams, BreakReading(s) PROVE StartedWaits'
  BY <1>17 DEF BreakReading, At, Go, StartedSettled, TypeOK, TaskTypes
<1>18. ASSUME NEW s \in Streams, BreakMidCall(s) PROVE StartedWaits'
  BY <1>18 DEF BreakMidCall
<1>19. ASSUME NEW s \in Streams, Drop(s) PROVE StartedWaits'
  BY <1>19 DEF Drop, At, Yield, Acquire, TypeOK, TaskTypes
<1>20. ASSUME NEW s \in Streams, GraceWait(s) PROVE StartedWaits'
  BY <1>20 DEF GraceWait, At, Yield, TypeOK, TaskTypes
<1>21. ASSUME NEW s \in Streams, ArmTimer(s) PROVE StartedWaits'
  BY <1>21 DEF ArmTimer, At, TypeOK, TaskTypes
<1>22. ASSUME NEW s \in Streams, TimerFires(s) PROVE StartedWaits'
  BY <1>22 DEF TimerFires, At, Yield, Acquire, TypeOK, TaskTypes
<1>23. ASSUME NEW s \in Streams, Claim(s) PROVE StartedWaits'
  BY <1>23 DEF Claim, At, Go, Yield, TypeOK, TaskTypes
<1>24. ASSUME NEW t \in Finalizers, BeginFinalize(t) PROVE StartedWaits'
  BY <1>24 DEF BeginFinalize, At, Yield, Acquire, TypeOK, TaskTypes
<1>25. ASSUME NEW t \in Finalizers, SkipFinalize(t) PROVE StartedWaits'
  BY <1>25 DEF SkipFinalize, At, Yield, TypeOK, TaskTypes
<1>26. ASSUME NEW t \in Finalizers, TakeBuffer(t) PROVE StartedWaits'
  BY <1>26 DEF TakeBuffer, At, Yield, TypeOK, TaskTypes
<1>27. ASSUME NEW t \in Finalizers, FlushBuffer(t) PROVE StartedWaits'
  BY <1>27 DEF FlushBuffer, At, Stores, GivesUp, Yield, TypeOK, TaskTypes
<1>28. ASSUME NEW t \in Finalizers, PopAndReport(t) PROVE StartedWaits'
  BY <1>28 DEF PopAndReport, At, Yield, TypeOK, TaskTypes
<1>29. ASSUME NEW t \in Finalizers \cup {Reconciler}, CompleteOrAbort(t) PROVE StartedWaits'
  BY <1>29 DEF CompleteOrAbort, At, Yield, TypeOK, TaskTypes
<1>30. ASSUME NEW t \in Tasks, WriteLands(t) PROVE StartedWaits'
  BY <1>30 DEF WriteLands, localVars, memoryVars, s3Vars, TypeOK, TaskTypes
<1>31. ASSUME NEW t \in Tasks, Report(t) PROVE StartedWaits'
  BY <1>31 DEF Report, At, Yield, TypeOK, TaskTypes
<1>32. ASSUME NEW t \in Tasks, Acked(t) PROVE StartedWaits'
  BY <1>32 DEF Acked, At, Saved, Finished, Yield, TruthInv, Roles, TypeOK, TaskTypes
<1>33. ASSUME NEW t \in Tasks, Unacked(t) PROVE StartedWaits'
  BY <1>33 DEF Unacked, At, Finished, Yield, TypeOK, TaskTypes
<1>34. ASSUME NEW t \in Tasks, Deleted(t) PROVE StartedWaits'
  BY <1>34 DEF Deleted, At, Finished, Yield, TypeOK, TaskTypes
<1>35. ASSUME ListUnfinished PROVE StartedWaits'
  BY <1>35 DEF ListUnfinished, At, Finished, Yield, TypeOK, TaskTypes
<1>36. ASSUME SkipLive PROVE StartedWaits'
  BY <1>36 DEF SkipLive, At, Finished, Yield, TypeOK, TaskTypes
<1>37. ASSUME Recover PROVE StartedWaits'
  BY <1>37 DEF Recover, At, Yield, TypeOK, TaskTypes
<1>38. ASSUME RecoveredSaved PROVE StartedWaits'
  BY <1>38 DEF RecoveredSaved, At, Yield, TypeOK, TaskTypes
<1>39. ASSUME Crash PROVE StartedWaits'
  BY <1>39 DEF Crash, TypeOK, TaskTypes
<1> QED
  BY <1>1, <1>2, <1>3, <1>4, <1>5, <1>6, <1>7, <1>8, <1>9, <1>10, <1>11, <1>12, <1>13,
     <1>14, <1>15, <1>16, <1>17, <1>18, <1>19, <1>20, <1>21, <1>22, <1>23, <1>24, <1>25,
     <1>26, <1>27, <1>28, <1>29, <1>30, <1>31, <1>32, <1>33, <1>34, <1>35, <1>36, <1>37,
     <1>38, <1>39
     DEF Next, StartStep, AppendStep, StopStep, FinalizeStep, ReportStep, ReconcilerStep

\* Who has a write under way: the reconciler, the owner of the registered session or the
\* report of its start, and tasks that report an outcome.
LEMMA WritersKnown ==
    ASSUME AllInv, FileInv, NEW t \in Tasks, write[t] # {}
    PROVE  \/ t = Reconciler /\ me[t] = None
           \/ /\ registry \in Streams /\ me[t] = registry
              /\ \/ t \in Finalizers /\ Owns(t)
                 \/ \E s \in Streams : t = Started(s) /\ Owns(Conn(s)) /\ pc[Conn(s)] = "open"
           \/ /\ t \in Finalizers /\ me[t] \in Streams \ {registry}
              /\ sess[me[t]].upload = me[t]
<1> USE TaskFacts, FinalizerKinds DEF AllInv, SeqInv, FileInv
<1>1. pc[t] \in SavePcs
  BY DEF Quiet
<1>2. CASE t \in Finalizers /\ pc[t] \in OwnerPcs
  <2>1. Owns(t) /\ pc[t] # "sleep"
    BY <1>1, <1>2 DEF Owns, SavePcs
  <2> QED
    BY <1>2, <2>1, OwnerFacts DEF OnlyOwner, OwnerState
<1>3. CASE t \in Finalizers /\ pc[t] \notin OwnerPcs
  <2>1. pc[t] \in ReportPcs
    BY <1>1, <1>3
       DEF SavePcs, ReportPcs, OwnerPcs, RecordingPcs, WaitingPcs
  <2> QED
    BY <1>3, <2>1 DEF Reporters
<1>4. CASE t = Reconciler
  BY <1>4 DEF TruthInv, Roles
<1>5. ASSUME NEW s \in Streams, t = Started(s)
      PROVE  /\ Owns(Conn(s)) /\ pc[Conn(s)] = "open"
             /\ registry \in Streams /\ me[t] = registry
  <2>1. pc[Conn(s)] = "open" /\ me[Conn(s)] = s /\ me[t] = s
    BY <1>1, <1>5 DEF SavePcs, StartedWaits
  <2>2. Owns(Conn(s))
    BY <2>1 DEF Owns, OwnerPcs, RecordingPcs
  <2> QED
    BY <2>1, <2>2, OwnerFacts DEF OnlyOwner, OwnerState
<1> QED
  BY <1>2, <1>3, <1>4, <1>5

\* While the owner works on its session nobody else is writing it.
LEMMA OwnerWritesAlone ==
    ASSUME AllInv, FileInv, NEW c \in Finalizers, Owns(c), pc[c] # "open",
           NEW t \in Tasks, write[t] # {}, me[t] = registry
    PROVE  t = c
<1> USE TaskFacts, StreamsAssumption DEF AllInv, SeqInv
<1>1. OnlyOwner(c)
  BY OwnerFacts
<1> QED
  BY <1>1, WritersKnown DEF OnlyOwner, OwnerState

\* The owner of a session has not closed it yet, unless it waits for the last save.
LEMMA OwnerUnfinished ==
    ASSUME AllInv, NEW t \in Finalizers, Owns(t), pc[t] # "saving"
    PROVE  registry \in Streams /\ ~AlreadyFinal(sess[registry].status)
  BY OwnerFacts
     DEF OnlyOwner, OwnerState, Owns, Resuming, OwnerPcs, RecordingPcs, WaitingPcs, EndingPcs,
         AlreadyFinal

\* Only the owner changes a session object, and only a new session or the end of the
\* registered one changes the registry.
LEMMA SessionChanges ==
    ASSUME ~Overlap, ~BreakAnywhere, AllInv, Next, crashes' = crashes
    PROVE  /\ registry' = registry => \A o \in Streams : sess'[o].upload = sess[o].upload
           /\ registry # None /\ AlreadyFinal(sess[registry].status) =>
                sess'[registry] = sess[registry]
           /\ \A o \in Streams : o # registry /\ o # registry' => sess'[o] = sess[o]
           /\ \/ registry' = registry
              \/ registry' = None /\ \E t \in Finalizers : PopAndReport(t)
              \/ \E s \in Streams : registry' = s /\ CreateUpload(s) /\ registry = None
<1> DEFINE Goal ==
      /\ registry' = registry => \A o \in Streams : sess'[o].upload = sess[o].upload
      /\ registry # None /\ AlreadyFinal(sess[registry].status) =>
           sess'[registry] = sess[registry]
      /\ \A o \in Streams : o # registry /\ o # registry' => sess'[o] = sess[o]
      /\ \/ registry' = registry
         \/ registry' = None /\ \E t \in Finalizers : PopAndReport(t)
         \/ \E s \in Streams : registry' = s /\ CreateUpload(s) /\ registry = None
<1> USE TaskFacts DEF AllInv, Inv
<1>2. ASSUME NEW s \in Streams, LookUp(s), registry # None PROVE Goal
  BY <1>2 DEF LookUp, At, CreationHeld, Yield, memoryVars
<1>3. ASSUME NEW s \in Streams, ResumeCancelsTimer(s) PROVE Goal
  BY <1>3 DEF ResumeCancelsTimer, At, memoryVars
<1>4. ASSUME NEW s \in Streams, Resume(s) PROVE Goal
  <2>1. Owns(Conn(s)) /\ me[Conn(s)] = registry /\ pc[Conn(s)] # "saving"
    BY <1>4, OwnerFacts
       DEF Resume, At, Resumable, Owns, OwnerPcs, RecordingPcs, WaitingPcs, EndingPcs, Resuming,
           OnlyOwner, OwnerState
  <2> QED
    BY <1>4, <2>1, StatusSet, StoredSet, OwnerUnfinished
       DEF Resume, GivesUp, TypeOK, MemoryTypes
<1>5. ASSUME NEW s \in Streams, Resumed(s) PROVE Goal
  BY <1>5 DEF Resumed, At, Yield, memoryVars
<1>7. ASSUME NEW s \in Streams, DropStale(s) PROVE Goal
  BY <1>7, StaleIsPopped DEF DropStale, At, Yield, memoryVars
<1>8. ASSUME NEW s \in Streams, CreateUpload(s) PROVE Goal
  BY <1>8, StreamsAssumption
     DEF CreateUpload, At, Yield, PutNeverClobbers, TypeOK, MemoryTypes
<1>10. ASSUME NEW s \in Streams, Created(s) PROVE Goal
  BY <1>10 DEF Created, At, memoryVars
<1>11. ASSUME NEW s \in Streams, RecvAudio(s) PROVE Goal
  BY <1>11 DEF RecvAudio, At, Yield, memoryVars
<1>12. ASSUME NEW s \in Streams, AppendFrame(s) PROVE Goal
  BY <1>12 DEF AppendFrame, At, Yield, memoryVars
<1>13. ASSUME NEW s \in Streams, UploadPart(s) PROVE Goal
  <2>1. Owns(Conn(s)) /\ me[Conn(s)] = registry /\ pc[Conn(s)] # "saving"
    BY <1>13, OwnerFacts
       DEF UploadPart, At, Resumable, Owns, OwnerPcs, RecordingPcs, WaitingPcs, EndingPcs,
           Resuming,
           OnlyOwner, OwnerState
  <2> QED
    BY <1>13, <2>1, StatusSet, StoredSet, OwnerUnfinished
       DEF UploadPart, GivesUp, TypeOK, MemoryTypes
<1>14. ASSUME NEW s \in Streams, AppendSaved(s) PROVE Goal
  BY <1>14 DEF AppendSaved, At, Yield, memoryVars
<1>15. ASSUME NEW s \in Streams, GracefulEnd(s) PROVE Goal
  BY <1>15 DEF GracefulEnd, At, Yield, Go, memoryVars
<1>17. ASSUME NEW s \in Streams, BreakReading(s) PROVE Goal
  BY <1>17 DEF BreakReading, At, Go, memoryVars
<1>19. ASSUME NEW s \in Streams, Drop(s) PROVE Goal
  BY <1>19 DEF Drop, At, Yield, memoryVars
<1>20. ASSUME NEW s \in Streams, GraceWait(s) PROVE Goal
  <2>1. Owns(Conn(s)) /\ me[Conn(s)] = registry /\ pc[Conn(s)] # "saving"
    BY <1>20, OwnerFacts
       DEF GraceWait, At, Resumable, Owns, OwnerPcs, RecordingPcs, WaitingPcs, EndingPcs,
           Resuming,
           OnlyOwner, OwnerState
  <2> QED
    BY <1>20, <2>1, StatusSet, StoredSet, OwnerUnfinished
       DEF GraceWait, GivesUp, TypeOK, MemoryTypes
<1>21. ASSUME NEW s \in Streams, ArmTimer(s) PROVE Goal
  BY <1>21 DEF ArmTimer, At, memoryVars
<1>22. ASSUME NEW s \in Streams, TimerFires(s) PROVE Goal
  BY <1>22 DEF TimerFires, At, Yield, memoryVars
<1>23. ASSUME NEW s \in Streams, Claim(s) PROVE Goal
  <2>1. Owns(Grace(s)) /\ me[Grace(s)] = registry /\ pc[Grace(s)] # "saving"
    BY <1>23, OwnerFacts
       DEF Claim, At, Resumable, Owns, OwnerPcs, RecordingPcs, WaitingPcs, EndingPcs, Resuming,
           OnlyOwner, OwnerState
  <2> QED
    BY <1>23, <2>1, StatusSet, StoredSet, OwnerUnfinished
       DEF Claim, GivesUp, TypeOK, MemoryTypes
<1>24. ASSUME NEW t \in Finalizers, BeginFinalize(t) PROVE Goal
  BY <1>24 DEF BeginFinalize, At, Yield, memoryVars
<1>26. ASSUME NEW t \in Finalizers, TakeBuffer(t) PROVE Goal
  BY <1>26 DEF TakeBuffer, At, Yield, memoryVars
<1>27. ASSUME NEW t \in Finalizers, FlushBuffer(t) PROVE Goal
  <2>1. Owns(t) /\ me[t] = registry /\ pc[t] # "saving"
    BY <1>27, OwnerFacts
       DEF FlushBuffer, At, Resumable, Owns, OwnerPcs, RecordingPcs, WaitingPcs, EndingPcs,
           Resuming,
           OnlyOwner, OwnerState
  <2> QED
    BY <1>27, <2>1, StatusSet, StoredSet, OwnerUnfinished
       DEF FlushBuffer, GivesUp, TypeOK, MemoryTypes
<1>29. ASSUME NEW t \in Finalizers, CompleteOrAbort(t) PROVE Goal
  <2>1. Owns(t) /\ me[t] = registry /\ pc[t] # "saving"
    BY <1>29, OwnerFacts
       DEF CompleteOrAbort, At, Owns, OwnerPcs, EndingPcs, OnlyOwner, OwnerState
  <2>2. PICK st : sess' = [sess EXCEPT ![me[t]].status = st]
    BY <1>29 DEF CompleteOrAbort
  <2> QED
    BY <1>29, <2>1, <2>2, StatusSet, OwnerUnfinished DEF CompleteOrAbort, TypeOK, LockTypes
<1>28. ASSUME NEW t \in Finalizers, PopAndReport(t) PROVE Goal
  BY <1>28 DEF PopAndReport, At, Yield, memoryVars
<1>39. ASSUME Crash PROVE Goal
  BY <1>39 DEF Crash, TypeOK, WorldTypes
<1>o. ASSUME OffStage PROVE Goal
  BY <1>o DEF OffStage, TypeOK, LockTypes
<1> QED
  BY <1>2, <1>3, <1>4, <1>5, <1>7, <1>8, <1>10, <1>11, <1>12, <1>13, <1>14, <1>15, <1>17,
     <1>19, <1>20, <1>21, <1>22, <1>23, <1>24, <1>26, <1>27, <1>29, <1>28, <1>39, <1>o,
     StageStepOrOff DEF StageStep, EndStep

\* Written is inductive: nobody changes a session object that another task is writing.
LEMMA WrittenStep ==
    ASSUME ~BreakAnywhere, AllInv, FileInv, Next
    PROVE  Written'
<1> USE TaskFacts DEF AllInv, Inv, SeqInv, FileInv, Written
<1>1. ASSUME NEW s \in Streams, OpenStream(s) PROVE Written'
  BY <1>1 DEF OpenStream, Quiet, SavePcs, memoryVars, TypeOK, TaskTypes
<1>2. ASSUME NEW s \in Streams, LookUp(s) PROVE Written'
  BY <1>2
     DEF LookUp, At, CreationHeld, Yield, Quiet, SavePcs, Acquire, memoryVars, TypeOK,
         TaskTypes
<1>3. ASSUME NEW s \in Streams, ResumeCancelsTimer(s) PROVE Written'
  BY <1>3, CancelledSleeps DEF ResumeCancelsTimer, At, memoryVars, TypeOK, TaskTypes
<1>4. ASSUME NEW s \in Streams, Resume(s) PROVE Written'
  <2>1. Owns(Conn(s)) /\ pc[Conn(s)] \notin SavePcs \cup {"open"} /\ me[Conn(s)] = registry
    BY <1>4, OwnerFacts
       DEF Resume, At, Resumable, Owns, OwnerPcs, RecordingPcs, WaitingPcs, EndingPcs, Resuming,
           SavePcs, OnlyOwner, OwnerState
  <2>2. \A d \in Tasks : write[d] # {} => me[d] # registry
    BY <2>1, OwnerWritesAlone DEF Quiet
  <2>3. \A o \in Streams \cup {None} : o # registry => sess'[o] = sess[o]
    BY <1>4, <2>1, StatusSet, StoredSet DEF Resume, GivesUp
  <2> QED
    BY <1>4, <2>1, <2>2, <2>3 DEF Resume, At, Yield, Save, TypeOK, TaskTypes, MemoryTypes
<1>5. ASSUME NEW s \in Streams, Resumed(s) PROVE Written'
  BY <1>5 DEF Resumed, At, Yield, Saved, memoryVars, TypeOK, TaskTypes
<1>6. ASSUME NEW s \in Streams, Reuse(s) PROVE Written'
  BY <1>6 DEF Reuse, At, Yield, Quiet, SavePcs, memoryVars, TypeOK, TaskTypes
<1>7. ASSUME NEW s \in Streams, DropStale(s) PROVE Written'
  BY <1>7 DEF DropStale, At, Yield, Quiet, SavePcs, memoryVars, TypeOK, TaskTypes
<1>8. ASSUME NEW s \in Streams, CreateUpload(s) PROVE Written'
  <2>1. pc[Conn(s)] = "create" /\ registry = None /\ write[Conn(s)] = {}
    BY <1>8 DEF CreateUpload, At, PutNeverClobbers, Quiet, SavePcs
  <2>2. sess[s].upload # s
    BY <2>1 DEF TruthInv, FreshUpload, KnownSessions, Known
  <2>3. \A d \in Tasks : write[d] # {} => me[d] # s /\ d # Conn(s)
    BY <2>1, <2>2, WritersKnown, StreamsAssumption
  <2> QED
    BY <1>8, <2>1, <2>3 DEF CreateUpload, At, Yield, Save, TypeOK, TaskTypes, MemoryTypes
<1>9. ASSUME NEW s \in Streams, CreateFails(s) PROVE Written'
  BY <1>9 DEF CreateFails, At, Yield, Quiet, SavePcs, memoryVars, TypeOK, TaskTypes
<1>10. ASSUME NEW s \in Streams, Created(s) PROVE Written'
  <2>1. sess' = sess /\ write' = write
    BY <1>10 DEF Created, memoryVars
  <2>2. \A d \in Tasks : d \notin {Conn(s), Started(s)} => pc'[d] = pc[d] /\ me'[d] = me[d]
    BY <1>10 DEF Created, TypeOK, TaskTypes
  <2>3. write[Conn(s)] = {} /\ write[Started(s)] = {}
    BY <1>10 DEF Created, At, Saved, StartedWaits, Quiet, SavePcs
  <2> QED
    BY <2>1, <2>2, <2>3
<1>11. ASSUME NEW s \in Streams, RecvAudio(s) PROVE Written'
  BY <1>11 DEF RecvAudio, At, Yield, Quiet, SavePcs, Acquire, memoryVars, TypeOK, TaskTypes
<1>12. ASSUME NEW s \in Streams, AppendFrame(s) PROVE Written'
  BY <1>12 DEF AppendFrame, At, Yield, Quiet, SavePcs, Save, TypeOK, TaskTypes
<1>13. ASSUME NEW s \in Streams, UploadPart(s) PROVE Written'
  <2>1. Owns(Conn(s)) /\ pc[Conn(s)] \notin SavePcs \cup {"open"} /\ me[Conn(s)] = registry
    BY <1>13, OwnerFacts
       DEF UploadPart, At, Resumable, Owns, OwnerPcs, RecordingPcs, WaitingPcs, EndingPcs,
           Resuming,
           SavePcs, OnlyOwner, OwnerState
  <2>2. \A d \in Tasks : write[d] # {} => me[d] # registry
    BY <2>1, OwnerWritesAlone DEF Quiet
  <2>3. \A o \in Streams \cup {None} : o # registry => sess'[o] = sess[o]
    BY <1>13, <2>1, StatusSet, StoredSet DEF UploadPart, GivesUp
  <2> QED
    BY <1>13, <2>1, <2>2, <2>3
       DEF UploadPart, At, Stores, GivesUp, Yield, Go, Save, TypeOK, TaskTypes, MemoryTypes
<1>14. ASSUME NEW s \in Streams, AppendSaved(s) PROVE Written'
  BY <1>14 DEF AppendSaved, At, Yield, Saved, memoryVars, TypeOK, TaskTypes
<1>15. ASSUME NEW s \in Streams, GracefulEnd(s) PROVE Written'
  BY <1>15 DEF GracefulEnd, At, Yield, Go, Quiet, SavePcs, memoryVars, TypeOK, TaskTypes
<1>16. ASSUME NEW s \in Streams, StopCancelsTimer(s) PROVE Written'
  BY <1>16 DEF StopCancelsTimer, At, SeqInv, NoCancel
<1>17. ASSUME NEW s \in Streams, BreakReading(s) PROVE Written'
  BY <1>17 DEF BreakReading, At, Go, Quiet, SavePcs, memoryVars, TypeOK, TaskTypes
<1>18. ASSUME NEW s \in Streams, BreakMidCall(s) PROVE Written'
  BY <1>18 DEF BreakMidCall
<1>19. ASSUME NEW s \in Streams, Drop(s) PROVE Written'
  BY <1>19 DEF Drop, At, Yield, Quiet, SavePcs, Acquire, memoryVars, TypeOK, TaskTypes
<1>20. ASSUME NEW s \in Streams, GraceWait(s) PROVE Written'
  <2>1. Owns(Conn(s)) /\ pc[Conn(s)] \notin SavePcs \cup {"open"} /\ me[Conn(s)] = registry
    BY <1>20, OwnerFacts
       DEF GraceWait, At, Resumable, Owns, OwnerPcs, RecordingPcs, WaitingPcs, EndingPcs,
           Resuming,
           SavePcs, OnlyOwner, OwnerState
  <2>2. \A d \in Tasks : write[d] # {} => me[d] # registry
    BY <2>1, OwnerWritesAlone DEF Quiet
  <2>3. \A o \in Streams \cup {None} : o # registry => sess'[o] = sess[o]
    BY <1>20, <2>1, StatusSet, StoredSet DEF GraceWait, GivesUp
  <2> QED
    BY <1>20, <2>1, <2>2, <2>3 DEF GraceWait, At, Yield, Save, TypeOK, TaskTypes, MemoryTypes
<1>21. ASSUME NEW s \in Streams, ArmTimer(s) PROVE Written'
  BY <1>21 DEF ArmTimer, At, Quiet, SavePcs, Unarmed, Saved, memoryVars, TypeOK, TaskTypes
<1>22. ASSUME NEW s \in Streams, TimerFires(s) PROVE Written'
  BY <1>22 DEF TimerFires, At, Yield, Quiet, SavePcs, Acquire, memoryVars, TypeOK, TaskTypes
<1>23. ASSUME NEW s \in Streams, Claim(s) PROVE Written'
  <2>1. Owns(Grace(s)) /\ pc[Grace(s)] \notin SavePcs \cup {"open"} /\ me[Grace(s)] = registry
    BY <1>23, OwnerFacts
       DEF Claim, At, Resumable, Owns, OwnerPcs, RecordingPcs, WaitingPcs, EndingPcs, Resuming,
           SavePcs, OnlyOwner, OwnerState
  <2>2. \A d \in Tasks : write[d] # {} => me[d] # registry
    BY <2>1, OwnerWritesAlone DEF Quiet
  <2>3. \A o \in Streams \cup {None} : o # registry => sess'[o] = sess[o]
    BY <1>23, <2>1, StatusSet, StoredSet DEF Claim, GivesUp, TypeOK, MemoryTypes
  <2> QED
    BY <1>23, <2>1, <2>2, <2>3 DEF Claim, At, Yield, Go, TypeOK, TaskTypes
<1>24. ASSUME NEW t \in Finalizers, BeginFinalize(t) PROVE Written'
  BY <1>24
     DEF BeginFinalize, At, Yield, Quiet, SavePcs, Acquire, memoryVars, TypeOK, TaskTypes
<1>25. ASSUME NEW t \in Finalizers, SkipFinalize(t) PROVE Written'
  BY <1>25 DEF SkipFinalize, At, Yield, Quiet, SavePcs, memoryVars, TypeOK, TaskTypes
<1>26. ASSUME NEW t \in Finalizers, TakeBuffer(t) PROVE Written'
  BY <1>26 DEF TakeBuffer, At, Yield, Quiet, SavePcs, memoryVars, TypeOK, TaskTypes
<1>27. ASSUME NEW t \in Finalizers, FlushBuffer(t) PROVE Written'
  <2>1. Owns(t) /\ pc[t] \notin SavePcs \cup {"open"} /\ me[t] = registry
    BY <1>27, OwnerFacts
       DEF FlushBuffer, At, Resumable, Owns, OwnerPcs, RecordingPcs, WaitingPcs, EndingPcs,
           Resuming,
           SavePcs, OnlyOwner, OwnerState
  <2>2. \A d \in Tasks : write[d] # {} => me[d] # registry
    BY <2>1, OwnerWritesAlone DEF Quiet
  <2>3. \A o \in Streams \cup {None} : o # registry => sess'[o] = sess[o]
    BY <1>27, <2>1, StatusSet, StoredSet DEF FlushBuffer, GivesUp
  <2> QED
    BY <1>27, <2>1, <2>2, <2>3
       DEF FlushBuffer, At, Stores, GivesUp, Yield, TypeOK, TaskTypes, MemoryTypes
<1>28. ASSUME NEW t \in Finalizers, PopAndReport(t) PROVE Written'
  BY <1>28 DEF PopAndReport, At, Yield, Saved, memoryVars, TypeOK, TaskTypes
<1>29. ASSUME NEW t \in Finalizers \cup {Reconciler}, CompleteOrAbort(t) PROVE Written'
  <2>1. CASE t \in Finalizers
    <3>1. Owns(t) /\ pc[t] = "complete" /\ me[t] = registry
      BY <1>29, <2>1, OwnerFacts
         DEF CompleteOrAbort, At, Owns, OwnerPcs, EndingPcs, OnlyOwner, OwnerState
    <3>2. \A d \in Tasks : write[d] # {} => me[d] # registry
      BY <2>1, <3>1, OwnerWritesAlone DEF Quiet, SavePcs
    <3>3. \A o \in Streams \cup {None} : o # registry => sess'[o] = sess[o]
      <4>1. \E st : sess' = [sess EXCEPT ![me[t]].status = st]
        BY <1>29 DEF CompleteOrAbort
      <4> QED
        BY <3>1, <4>1 DEF TypeOK, MemoryTypes
    <3> QED
      BY <1>29, <3>1, <3>2, <3>3
         DEF CompleteOrAbort, At, Yield, Save, TypeOK, TaskTypes, MemoryTypes
  <2>2. CASE t = Reconciler
    <3>1. me[t] = None /\ write[t] = {} /\ pc[t] = "complete"
      BY <1>29, <2>2 DEF CompleteOrAbort, At, TruthInv, Roles, Quiet, SavePcs
    <3>2. \A d \in Tasks : write[d] # {} => me[d] # None
      BY <2>2, <3>1, WritersKnown, StreamsAssumption
    <3>3. \A u \in Streams : sess'[u] = sess[u]
      BY <1>29, <3>1, StatusSet, StreamsAssumption DEF CompleteOrAbort, AfterError
    <3> QED
      BY <1>29, <3>1, <3>2, <3>3
         DEF CompleteOrAbort, At, Yield, Save, TypeOK, TaskTypes, MemoryTypes
  <2> QED
    BY <2>1, <2>2
<1>30. ASSUME NEW t \in Tasks, WriteLands(t) PROVE Written'
  BY <1>30 DEF WriteLands, localVars, memoryVars, s3Vars, TypeOK, TaskTypes
<1>31. ASSUME NEW t \in Tasks, Report(t) PROVE Written'
  BY <1>31 DEF Report, At, Yield, Quiet, SavePcs, Save, memoryVars, TypeOK, TaskTypes
<1>32. ASSUME NEW t \in Tasks, Acked(t) PROVE Written'
  BY <1>32 DEF Acked, At, Saved, Finished, Yield, Save, memoryVars, TypeOK, TaskTypes
<1>33. ASSUME NEW t \in Tasks, Unacked(t) PROVE Written'
  BY <1>33 DEF Unacked, At, Finished, Yield, Saved, memoryVars, TypeOK, TaskTypes
<1>34. ASSUME NEW t \in Tasks, Deleted(t) PROVE Written'
  BY <1>34 DEF Deleted, At, Finished, Yield, Saved, memoryVars, TypeOK, TaskTypes
<1>35. ASSUME ListUnfinished PROVE Written'
  <2>1. me[Reconciler] = None /\ write[Reconciler] = {}
    BY <1>35 DEF ListUnfinished, At, TruthInv, Roles, Quiet, SavePcs
  <2>2. \A d \in Tasks : write[d] # {} => me[d] # None /\ d # Reconciler
    BY <2>1, WritersKnown, StreamsAssumption
  <2>3. \A u \in Streams : sess'[u] = sess[u]
    BY <1>35, StreamsAssumption DEF ListUnfinished, TypeOK, MemoryTypes
  <2> QED
    BY <1>35, <2>1, <2>2, <2>3 DEF ListUnfinished, At, Finished, Yield, TypeOK, TaskTypes
<1>36. ASSUME SkipLive PROVE Written'
  BY <1>36 DEF SkipLive, At, Finished, Yield, Quiet, SavePcs, memoryVars, TypeOK, TaskTypes
<1>37. ASSUME Recover PROVE Written'
  BY <1>37 DEF Recover, At, Yield, Quiet, SavePcs, memoryVars, TypeOK, TaskTypes
<1>38. ASSUME RecoveredSaved PROVE Written'
  BY <1>38 DEF RecoveredSaved, At, Yield, Saved, memoryVars, TypeOK, TaskTypes
<1>39. ASSUME Crash PROVE Written'
  BY <1>39 DEF Crash, memoryVars, TypeOK, TaskTypes
<1> QED
  BY <1>1, <1>2, <1>3, <1>4, <1>5, <1>6, <1>7, <1>8, <1>9, <1>10, <1>11, <1>12, <1>13,
     <1>14, <1>15, <1>16, <1>17, <1>18, <1>19, <1>20, <1>21, <1>22, <1>23, <1>24, <1>25,
     <1>26, <1>27, <1>28, <1>29, <1>30, <1>31, <1>32, <1>33, <1>34, <1>35, <1>36, <1>37,
     <1>38, <1>39
     DEF Next, StartStep, AppendStep, StopStep, FinalizeStep, ReportStep, ReconcilerStep

\* What every step but a crash leaves alone: the count of crashes, an open server, the
\* state file unless a write lands, and the writes of others.
LEMMA NextFrames ==
    ASSUME TypeOK, Next, ~Crash
    PROVE  /\ crashes' = crashes /\ (up' = up \/ up' = "serving")
           /\ file' = file \/ \E t \in Tasks : WriteLands(t)
           /\ \A d \in Tasks : write'[d] = {} => write[d] = {} \/ WriteLands(d)
<1> DEFINE Goal ==
      /\ crashes' = crashes /\ (up' = up \/ up' = "serving")
      /\ file' = file \/ \E t \in Tasks : WriteLands(t)
      /\ \A d \in Tasks : write'[d] = {} => write[d] = {} \/ WriteLands(d)
<1> USE DEF TypeOK, TaskTypes, Save, Finished
<1>1. ASSUME NEW s \in Streams, StartStep(s) PROVE Goal
  <2>1. CASE Resume(s)
    BY <2>1 DEF Resume
  <2>2. CASE CreateUpload(s)
    BY <2>2 DEF CreateUpload
  <2>3. CASE DropStale(s)
    BY <2>3 DEF DropStale
  <2> QED
    BY <1>1, <2>1, <2>2, <2>3
       DEF StartStep, OpenStream, LookUp, ResumeCancelsTimer, Resumed, Reuse, CreateFails, Created
<1>2. ASSUME NEW s \in Streams, AppendStep(s) PROVE Goal
  <2>1. CASE AppendFrame(s)
    BY <2>1 DEF AppendFrame
  <2>2. CASE UploadPart(s)
    BY <2>2 DEF UploadPart
  <2> QED
    BY <1>2, <2>1, <2>2 DEF AppendStep, RecvAudio, AppendSaved
<1>3. ASSUME NEW s \in Streams, StopStep(s) PROVE Goal
  BY <1>3
     DEF StopStep, GracefulEnd, StopCancelsTimer, BreakReading, BreakMidCall, Drop, GraceWait,
         ArmTimer, TimerFires, Claim
<1>4. ASSUME NEW t \in Finalizers, FinalizeStep(t) PROVE Goal
  BY <1>4
     DEF FinalizeStep, BeginFinalize, SkipFinalize, TakeBuffer, FlushBuffer, PopAndReport
<1>5. ASSUME NEW t \in Finalizers \cup {Reconciler}, CompleteOrAbort(t) PROVE Goal
  BY <1>5 DEF CompleteOrAbort
<1>6. ASSUME NEW t \in Tasks, ReportStep(t) PROVE Goal
  <2>1. CASE WriteLands(t)
    BY <2>1 DEF WriteLands
  <2>2. CASE Report(t)
    BY <2>2 DEF Report
  <2>3. CASE Acked(t)
    BY <2>3 DEF Acked
  <2>4. CASE Unacked(t)
    BY <2>4 DEF Unacked
  <2>5. CASE Deleted(t)
    BY <2>5 DEF Deleted
  <2> QED
    BY <1>6, <2>1, <2>2, <2>3, <2>4, <2>5 DEF ReportStep
<1>7. ASSUME ReconcilerStep PROVE Goal
  BY <1>7 DEF ReconcilerStep, ListUnfinished, SkipLive, Recover, RecoveredSaved
<1> QED
  BY <1>1, <1>2, <1>3, <1>4, <1>5, <1>6, <1>7 DEF Next

\* A finalizer starts to report when it has popped its session, and then keeps to it.
LEMMA ReporterMoves ==
    ASSUME ~BreakAnywhere, AllInv, Next, NEW d \in Finalizers, pc'[d] \in ReportPcs
    PROVE  PopAndReport(d) \/ (pc[d] \in ReportPcs /\ me'[d] = me[d] /\ event'[d] = event[d])
<1> DEFINE Goal ==
      PopAndReport(d) \/ (pc[d] \in ReportPcs /\ me'[d] = me[d] /\ event'[d] = event[d])
<1> USE TaskFacts DEF AllInv, Inv
<1>1. ASSUME NEW s \in Streams, OpenStream(s) PROVE Goal
  BY <1>1 DEF OpenStream, TypeOK, TaskTypes, ReportPcs
<1>2. ASSUME NEW s \in Streams, LookUp(s) PROVE Goal
  BY <1>2 DEF LookUp, At, CreationHeld, Yield, Acquire, TypeOK, TaskTypes, ReportPcs
<1>3. ASSUME NEW s \in Streams, ResumeCancelsTimer(s) PROVE Goal
  BY <1>3, CancelledSleeps DEF ResumeCancelsTimer, At, TypeOK, TaskTypes, ReportPcs
<1>4. ASSUME NEW s \in Streams, Resume(s) PROVE Goal
  BY <1>4 DEF Resume, At, Yield, TypeOK, TaskTypes, ReportPcs
<1>5. ASSUME NEW s \in Streams, Resumed(s) PROVE Goal
  BY <1>5 DEF Resumed, At, Yield, TypeOK, TaskTypes, ReportPcs
<1>6. ASSUME NEW s \in Streams, Reuse(s) PROVE Goal
  BY <1>6 DEF Reuse, At, Yield, TypeOK, TaskTypes, ReportPcs
<1>7. ASSUME NEW s \in Streams, DropStale(s) PROVE Goal
  BY <1>7 DEF DropStale, At, Yield, TypeOK, TaskTypes, ReportPcs
<1>8. ASSUME NEW s \in Streams, CreateUpload(s) PROVE Goal
  BY <1>8 DEF CreateUpload, At, Yield, TypeOK, TaskTypes, ReportPcs
<1>9. ASSUME NEW s \in Streams, CreateFails(s) PROVE Goal
  BY <1>9 DEF CreateFails, At, Yield, TypeOK, TaskTypes, ReportPcs
<1>10. ASSUME NEW s \in Streams, Created(s) PROVE Goal
  BY <1>10 DEF Created, At, TypeOK, TaskTypes, ReportPcs
<1>11. ASSUME NEW s \in Streams, RecvAudio(s) PROVE Goal
  BY <1>11 DEF RecvAudio, At, Yield, Acquire, TypeOK, TaskTypes, ReportPcs
<1>12. ASSUME NEW s \in Streams, AppendFrame(s) PROVE Goal
  BY <1>12 DEF AppendFrame, At, Yield, TypeOK, TaskTypes, ReportPcs
<1>13. ASSUME NEW s \in Streams, UploadPart(s) PROVE Goal
  BY <1>13 DEF UploadPart, At, Stores, GivesUp, Yield, Go, TypeOK, TaskTypes, ReportPcs
<1>14. ASSUME NEW s \in Streams, AppendSaved(s) PROVE Goal
  BY <1>14 DEF AppendSaved, At, Yield, TypeOK, TaskTypes, ReportPcs
<1>15. ASSUME NEW s \in Streams, GracefulEnd(s) PROVE Goal
  BY <1>15 DEF GracefulEnd, At, Yield, Go, TypeOK, TaskTypes, ReportPcs
<1>16. ASSUME NEW s \in Streams, StopCancelsTimer(s) PROVE Goal
  BY <1>16 DEF StopCancelsTimer, At, SeqInv, NoCancel
<1>17. ASSUME NEW s \in Streams, BreakReading(s) PROVE Goal
  BY <1>17 DEF BreakReading, At, Go, TypeOK, TaskTypes, ReportPcs
<1>18. ASSUME NEW s \in Streams, BreakMidCall(s) PROVE Goal
  BY <1>18 DEF BreakMidCall
<1>19. ASSUME NEW s \in Streams, Drop(s) PROVE Goal
  BY <1>19 DEF Drop, At, Yield, Acquire, TypeOK, TaskTypes, ReportPcs
<1>20. ASSUME NEW s \in Streams, GraceWait(s) PROVE Goal
  BY <1>20 DEF GraceWait, At, Yield, TypeOK, TaskTypes, ReportPcs
<1>21. ASSUME NEW s \in Streams, ArmTimer(s) PROVE Goal
  BY <1>21 DEF ArmTimer, At, TypeOK, TaskTypes, ReportPcs
<1>22. ASSUME NEW s \in Streams, TimerFires(s) PROVE Goal
  BY <1>22 DEF TimerFires, At, Yield, Acquire, TypeOK, TaskTypes, ReportPcs
<1>23. ASSUME NEW s \in Streams, Claim(s) PROVE Goal
  BY <1>23 DEF Claim, At, Go, Yield, TypeOK, TaskTypes, ReportPcs
<1>24. ASSUME NEW t \in Finalizers, BeginFinalize(t) PROVE Goal
  BY <1>24 DEF BeginFinalize, At, Yield, Acquire, TypeOK, TaskTypes, ReportPcs
<1>25. ASSUME NEW t \in Finalizers, SkipFinalize(t) PROVE Goal
  BY <1>25 DEF SkipFinalize, At, Yield, TypeOK, TaskTypes, ReportPcs
<1>26. ASSUME NEW t \in Finalizers, TakeBuffer(t) PROVE Goal
  BY <1>26 DEF TakeBuffer, At, Yield, TypeOK, TaskTypes, ReportPcs
<1>27. ASSUME NEW t \in Finalizers, FlushBuffer(t) PROVE Goal
  BY <1>27 DEF FlushBuffer, At, Stores, GivesUp, Yield, TypeOK, TaskTypes, ReportPcs
<1>28. ASSUME NEW t \in Finalizers, PopAndReport(t) PROVE Goal
  BY <1>28 DEF PopAndReport, At, Yield, TypeOK, TaskTypes, ReportPcs
<1>29. ASSUME NEW t \in Finalizers \cup {Reconciler}, CompleteOrAbort(t) PROVE Goal
  BY <1>29 DEF CompleteOrAbort, At, Yield, TypeOK, TaskTypes, ReportPcs
<1>30. ASSUME NEW t \in Tasks, WriteLands(t) PROVE Goal
  BY <1>30 DEF WriteLands, localVars, memoryVars, s3Vars, TypeOK, TaskTypes, ReportPcs
<1>31. ASSUME NEW t \in Tasks, Report(t) PROVE Goal
  BY <1>31 DEF Report, At, Yield, TypeOK, TaskTypes, ReportPcs
<1>32. ASSUME NEW t \in Tasks, Acked(t) PROVE Goal
  BY <1>32 DEF Acked, At, Saved, Finished, Yield, TypeOK, TaskTypes, ReportPcs
<1>33. ASSUME NEW t \in Tasks, Unacked(t) PROVE Goal
  BY <1>33 DEF Unacked, At, Finished, Yield, TypeOK, TaskTypes, ReportPcs
<1>34. ASSUME NEW t \in Tasks, Deleted(t) PROVE Goal
  BY <1>34 DEF Deleted, At, Finished, Yield, TypeOK, TaskTypes, ReportPcs
<1>35. ASSUME ListUnfinished PROVE Goal
  BY <1>35 DEF ListUnfinished, At, Finished, Yield, TypeOK, TaskTypes, ReportPcs
<1>36. ASSUME SkipLive PROVE Goal
  BY <1>36 DEF SkipLive, At, Finished, Yield, TypeOK, TaskTypes, ReportPcs
<1>37. ASSUME Recover PROVE Goal
  BY <1>37 DEF Recover, At, Yield, TypeOK, TaskTypes, ReportPcs
<1>38. ASSUME RecoveredSaved PROVE Goal
  BY <1>38 DEF RecoveredSaved, At, Yield, TypeOK, TaskTypes, ReportPcs
<1>39. ASSUME Crash PROVE Goal
  BY <1>39 DEF Crash, TypeOK, TaskTypes, ReportPcs
<1> QED
  BY <1>1, <1>2, <1>3, <1>4, <1>5, <1>6, <1>7, <1>8, <1>9, <1>10, <1>11, <1>12, <1>13,
     <1>14, <1>15, <1>16, <1>17, <1>18, <1>19, <1>20, <1>21, <1>22, <1>23, <1>24, <1>25,
     <1>26, <1>27, <1>28, <1>29, <1>30, <1>31, <1>32, <1>33, <1>34, <1>35, <1>36, <1>37,
     <1>38, <1>39
     DEF Next, StartStep, AppendStep, StopStep, FinalizeStep, ReportStep, ReconcilerStep

\* Reporters is inductive: the session of a finished recording is left alone.
LEMMA ReportersStep ==
    ASSUME ~Overlap, ~BreakAnywhere, AllInv, FileInv, Next
    PROVE  Reporters'
<1> SUFFICES ASSUME NEW t \in Finalizers, pc'[t] \in ReportPcs
             PROVE  /\ me'[t] \in Streams \ {registry'}
                    /\ sess'[me'[t]].upload = me'[t] /\ AlreadyFinal(sess'[me'[t]].status)
                    /\ event'[t] = Outcome(sess'[me'[t]].status)
  BY DEF Reporters, AlreadyFinal, Outcome
<1> USE TaskFacts, StreamsAssumption DEF AllInv, SeqInv, FileInv
<1>1. crashes' = crashes
  <2>1. ~Crash
    BY TaskFacts DEF Crash, ReportPcs, Inv, TypeOK, TaskTypes
  <2> QED
    BY <2>1, NextFrames DEF Inv
<1>2. CASE PopAndReport(t)
  <2>1. Owns(t) /\ pc[t] = "saving"
    BY <1>2 DEF PopAndReport, At, Owns, OwnerPcs
  <2>2. registry \in Streams /\ me[t] = registry /\ AlreadyFinal(sess[registry].status)
    BY <2>1, OwnerFacts DEF OnlyOwner, OwnerState
  <2> QED
    BY <1>2, <2>2 DEF PopAndReport, memoryVars, OwnDoc, Inv, TypeOK, TaskTypes
<1>3. CASE pc[t] \in ReportPcs /\ me'[t] = me[t] /\ event'[t] = event[t]
  <2>1. /\ me[t] \in Streams \ {registry}
        /\ sess[me[t]].upload = me[t] /\ AlreadyFinal(sess[me[t]].status)
        /\ event[t] = Outcome(sess[me[t]].status)
    BY <1>3 DEF Reporters
  <2>2. me[t] # registry'
    <3> SUFFICES ASSUME NEW s \in Streams, CreateUpload(s), me[t] = s PROVE FALSE
      BY <1>1, <2>1, SessionChanges
    <3>1. upload[s] = "none"
      BY DEF CreateUpload, At, TruthInv, FreshUpload
    <3> QED
      BY <2>1, <3>1 DEF KnownSessions, Known
  <2> QED
    BY <1>1, <1>3, <2>1, <2>2, SessionChanges
<1> QED
  BY <1>2, <1>3, ReporterMoves

\* OwnDoc is inductive.
LEMMA OwnDocStep ==
    ASSUME ~Overlap, ~BreakAnywhere, AllInv, FileInv, Next
    PROVE  OwnDoc'
<1> SUFFICES ASSUME registry' # None PROVE sess'[registry'].upload = registry'
  BY DEF OwnDoc
<1> USE TaskFacts, StreamsAssumption DEF AllInv, SeqInv, FileInv, Inv
<1>1. crashes' = crashes
  <2>1. ~Crash
    BY DEF Crash
  <2> QED
    BY <2>1, NextFrames DEF Inv
<1>2. CASE \E s \in Streams : registry' = s /\ CreateUpload(s)
  BY <1>2 DEF CreateUpload, NewSession, TypeOK, MemoryTypes
<1>3. CASE registry' = registry
  <2>1. registry \in Streams /\ sess[registry].upload = registry
    BY <1>3 DEF OwnDoc, TypeOK, LockTypes
  <2> QED
    BY <1>1, <1>3, <2>1, SessionChanges
<1> QED
  BY <1>1, <1>2, <1>3, SessionChanges

\* Before the server opens only the reconciler takes steps.
LEMMA RestartSteps ==
    ASSUME ~BreakAnywhere, AllInv, FileInv, Next, up = "starting"
    PROVE  Crash \/ ReconcilerStep \/ CompleteOrAbort(Reconciler) \/ ReportStep(Reconciler)
<1> USE TaskFacts DEF AllInv, FileInv, Restarting
<1>1. ASSUME NEW s \in Streams PROVE ~StartStep(s)
  BY DEF StartStep, OpenStream, LookUp, ResumeCancelsTimer, Resume, Resumed, Reuse, DropStale,
         CreateUpload, CreateFails, Created, At
<1>2. ASSUME NEW s \in Streams PROVE ~AppendStep(s)
  BY DEF AppendStep, RecvAudio, AppendFrame, UploadPart, AppendSaved, At
<1>3. ASSUME NEW s \in Streams PROVE ~StopStep(s)
  BY DEF StopStep, GracefulEnd, StopCancelsTimer, BreakReading, BreakMidCall, Drop, GraceWait,
         ArmTimer, TimerFires, Claim, At
<1>4. ASSUME NEW t \in Finalizers PROVE ~FinalizeStep(t) /\ ~CompleteOrAbort(t)
  BY DEF FinalizeStep, BeginFinalize, SkipFinalize, TakeBuffer, FlushBuffer, PopAndReport,
         CompleteOrAbort, At
<1>5. ASSUME NEW t \in Tasks, t # Reconciler PROVE ~ReportStep(t)
  <2>1. pc[t] \in {"idle", "end"}
    BY <1>5, FinalizerKinds
  <2>2. write[t] = {}
    BY <2>1 DEF Quiet, SavePcs
  <2> QED
    BY <2>1, <2>2 DEF ReportStep, WriteLands, Report, Acked, Unacked, Deleted, At
<1> QED
  BY <1>1, <1>2, <1>3, <1>4, <1>5 DEF Next

\* Restarting is inductive.
LEMMA RestartingStep ==
    ASSUME ~BreakAnywhere, AllInv, FileInv, Next
    PROVE  Restarting'
<1> SUFFICES ASSUME up' = "starting"
             PROVE  /\ registry' = None
                    /\ \A t \in Finalizers : pc'[t] \in {"idle", "end"}
                    /\ \A s \in Streams : pc'[Started(s)] \in {"idle", "end"}
                    /\ \A u \in Streams : sess'[u] = NoSession
  BY DEF Restarting
<1> USE TaskFacts, StreamsAssumption DEF AllInv, Inv, TypeOK, TaskTypes
<1>1. CASE Crash
  BY <1>1 DEF Crash
<1>2. CASE ~Crash
  <2>1. up = "starting" /\ Restarting
    BY <1>2, NextFrames DEF FileInv
  <2>2. CASE ReconcilerStep
    BY <2>1, <2>2
       DEF Restarting, ReconcilerStep, ListUnfinished, SkipLive, Recover, RecoveredSaved,
           Finished, Yield, memoryVars, MemoryTypes
  <2>3. CASE CompleteOrAbort(Reconciler)
    BY <2>1, <2>3
       DEF Restarting, CompleteOrAbort, Yield, TruthInv, Roles, MemoryTypes
  <2>4. CASE ReportStep(Reconciler)
    BY <2>1, <2>4
       DEF Restarting, ReportStep, WriteLands, Report, Acked, Unacked, Deleted, Finished, Yield,
           localVars, memoryVars
  <2> QED
    BY <1>2, <2>1, <2>2, <2>3, <2>4, RestartSteps
<1> QED
  BY <1>1, <1>2

\* Scanned is inductive: nothing runs between the reconciler's look at the file and its
\* look at the registry.
LEMMA ScannedStep ==
    ASSUME ~BreakAnywhere, ~ScanLag, AllInv, FileInv, Next
    PROVE  Scanned'
<1> USE TaskFacts DEF AllInv, Inv, FileInv, Scanned
<1>1. ASSUME NEW s \in Streams, OpenStream(s) PROVE Scanned'
  BY <1>1 DEF OpenStream, TypeOK, TaskTypes
<1>2. ASSUME NEW s \in Streams, LookUp(s) PROVE Scanned'
  BY <1>2 DEF LookUp, At, CreationHeld, Yield, Acquire, TypeOK, TaskTypes
<1>3. ASSUME NEW s \in Streams, ResumeCancelsTimer(s) PROVE Scanned'
  BY <1>3 DEF ResumeCancelsTimer, At, TypeOK, TaskTypes
<1>4. ASSUME NEW s \in Streams, Resume(s) PROVE Scanned'
  BY <1>4 DEF Resume, At, Yield, TypeOK, TaskTypes
<1>5. ASSUME NEW s \in Streams, Resumed(s) PROVE Scanned'
  BY <1>5 DEF Resumed, At, Yield, TypeOK, TaskTypes
<1>6. ASSUME NEW s \in Streams, Reuse(s) PROVE Scanned'
  BY <1>6 DEF Reuse, At, Yield, TypeOK, TaskTypes
<1>7. ASSUME NEW s \in Streams, DropStale(s) PROVE Scanned'
  BY <1>7 DEF DropStale, At, Yield, TypeOK, TaskTypes
<1>8. ASSUME NEW s \in Streams, CreateUpload(s) PROVE Scanned'
  BY <1>8 DEF CreateUpload, At, Yield, TypeOK, TaskTypes
<1>9. ASSUME NEW s \in Streams, CreateFails(s) PROVE Scanned'
  BY <1>9 DEF CreateFails, At, Yield, TypeOK, TaskTypes
<1>10. ASSUME NEW s \in Streams, Created(s) PROVE Scanned'
  BY <1>10 DEF Created, At, TypeOK, TaskTypes
<1>11. ASSUME NEW s \in Streams, RecvAudio(s) PROVE Scanned'
  BY <1>11 DEF RecvAudio, At, Yield, Acquire, TypeOK, TaskTypes
<1>12. ASSUME NEW s \in Streams, AppendFrame(s) PROVE Scanned'
  BY <1>12 DEF AppendFrame, At, Yield, TypeOK, TaskTypes
<1>13. ASSUME NEW s \in Streams, UploadPart(s) PROVE Scanned'
  BY <1>13 DEF UploadPart, At, Stores, GivesUp, Yield, Go, TypeOK, TaskTypes
<1>14. ASSUME NEW s \in Streams, AppendSaved(s) PROVE Scanned'
  BY <1>14 DEF AppendSaved, At, Yield, TypeOK, TaskTypes
<1>15. ASSUME NEW s \in Streams, GracefulEnd(s) PROVE Scanned'
  BY <1>15 DEF GracefulEnd, At, Yield, Go, TypeOK, TaskTypes
<1>16. ASSUME NEW s \in Streams, StopCancelsTimer(s) PROVE Scanned'
  BY <1>16 DEF StopCancelsTimer, At, SeqInv, NoCancel
<1>17. ASSUME NEW s \in Streams, BreakReading(s) PROVE Scanned'
  BY <1>17 DEF BreakReading, At, Go, TypeOK, TaskTypes
<1>18. ASSUME NEW s \in Streams, BreakMidCall(s) PROVE Scanned'
  BY <1>18 DEF BreakMidCall
<1>19. ASSUME NEW s \in Streams, Drop(s) PROVE Scanned'
  BY <1>19 DEF Drop, At, Yield, Acquire, TypeOK, TaskTypes
<1>20. ASSUME NEW s \in Streams, GraceWait(s) PROVE Scanned'
  BY <1>20 DEF GraceWait, At, Yield, TypeOK, TaskTypes
<1>21. ASSUME NEW s \in Streams, ArmTimer(s) PROVE Scanned'
  BY <1>21 DEF ArmTimer, At, TypeOK, TaskTypes
<1>22. ASSUME NEW s \in Streams, TimerFires(s) PROVE Scanned'
  BY <1>22 DEF TimerFires, At, Yield, Acquire, TypeOK, TaskTypes
<1>23. ASSUME NEW s \in Streams, Claim(s) PROVE Scanned'
  BY <1>23 DEF Claim, At, Go, Yield, TypeOK, TaskTypes
<1>24. ASSUME NEW t \in Finalizers, BeginFinalize(t) PROVE Scanned'
  BY <1>24 DEF BeginFinalize, At, Yield, Acquire, TypeOK, TaskTypes
<1>25. ASSUME NEW t \in Finalizers, SkipFinalize(t) PROVE Scanned'
  BY <1>25 DEF SkipFinalize, At, Yield, TypeOK, TaskTypes
<1>26. ASSUME NEW t \in Finalizers, TakeBuffer(t) PROVE Scanned'
  BY <1>26 DEF TakeBuffer, At, Yield, TypeOK, TaskTypes
<1>27. ASSUME NEW t \in Finalizers, FlushBuffer(t) PROVE Scanned'
  BY <1>27 DEF FlushBuffer, At, Stores, GivesUp, Yield, TypeOK, TaskTypes
<1>28. ASSUME NEW t \in Finalizers, PopAndReport(t) PROVE Scanned'
  BY <1>28 DEF PopAndReport, At, Yield, TypeOK, TaskTypes
<1>29. ASSUME NEW t \in Finalizers \cup {Reconciler}, CompleteOrAbort(t) PROVE Scanned'
  BY <1>29 DEF CompleteOrAbort, At, Yield, TypeOK, TaskTypes
<1>30. ASSUME NEW t \in Tasks, WriteLands(t) PROVE Scanned'
  <2>1. ASSUME pc[Reconciler] = "check" PROVE up # "starting"
    BY <1>30, <2>1, FinalizerKinds DEF WriteLands, Restarting, Quiet, SavePcs
  <2> QED
    BY <1>30, <2>1 DEF WriteLands, localVars, memoryVars
<1>31. ASSUME NEW t \in Tasks, Report(t) PROVE Scanned'
  BY <1>31 DEF Report, At, Yield, TypeOK, TaskTypes
<1>32. ASSUME NEW t \in Tasks, Acked(t) PROVE Scanned'
  BY <1>32 DEF Acked, At, Saved, Finished, Yield, TypeOK, TaskTypes
<1>33. ASSUME NEW t \in Tasks, Unacked(t) PROVE Scanned'
  BY <1>33 DEF Unacked, At, Finished, Yield, TypeOK, TaskTypes
<1>34. ASSUME NEW t \in Tasks, Deleted(t) PROVE Scanned'
  BY <1>34 DEF Deleted, At, Finished, Yield, TypeOK, TaskTypes
<1>35. ASSUME ListUnfinished PROVE Scanned'
  BY <1>35, StreamsAssumption
     DEF ListUnfinished, At, Finished, Yield, Ended, MemoryTypes, AlreadyFinal, TypeOK,
         TaskTypes
<1>36. ASSUME SkipLive PROVE Scanned'
  BY <1>36 DEF SkipLive, At, Finished, Yield, TypeOK, TaskTypes
<1>37. ASSUME Recover PROVE Scanned'
  BY <1>37 DEF Recover, At, Yield, TypeOK, TaskTypes
<1>38. ASSUME RecoveredSaved PROVE Scanned'
  BY <1>38 DEF RecoveredSaved, At, Yield, TypeOK, TaskTypes
<1>39. ASSUME Crash PROVE Scanned'
  BY <1>39 DEF Crash, TypeOK, TaskTypes
<1> QED
  BY <1>1, <1>2, <1>3, <1>4, <1>5, <1>6, <1>7, <1>8, <1>9, <1>10, <1>11, <1>12, <1>13,
     <1>14, <1>15, <1>16, <1>17, <1>18, <1>19, <1>20, <1>21, <1>22, <1>23, <1>24, <1>25,
     <1>26, <1>27, <1>28, <1>29, <1>30, <1>31, <1>32, <1>33, <1>34, <1>35, <1>36, <1>37,
     <1>38, <1>39
     DEF Next, StartStep, AppendStep, StopStep, FinalizeStep, ReportStep, ReconcilerStep

\* An owner that is awake works on the registered session.
LEMMA OwnerPlace ==
    ASSUME AllInv, NEW t \in Finalizers, pc[t] \in OwnerPcs, pc[t] # "sleep"
    PROVE  OnlyOwner(t) /\ me[t] = registry /\ registry \in Streams
  BY OwnerFacts DEF Owns, OnlyOwner, OwnerState

\* Only the reconciler changes its copy of the file, and only it starts its pass.
LEMMA CopyStays ==
    ASSUME ~BreakAnywhere, AllInv, Next, ~ListUnfinished, ~CompleteOrAbort(Reconciler), ~Crash
    PROVE  sess'[None] = sess[None] /\ (pc'[Reconciler] # "idle" => pc[Reconciler] # "idle")
<1> DEFINE Goal ==
      sess'[None] = sess[None] /\ (pc'[Reconciler] # "idle" => pc[Reconciler] # "idle")
<1> USE TaskFacts, StreamsAssumption DEF AllInv, Inv
<1>1. ASSUME NEW s \in Streams, OpenStream(s) PROVE Goal
  BY <1>1 DEF OpenStream, TypeOK, TaskTypes, memoryVars
<1>2. ASSUME NEW s \in Streams, LookUp(s) PROVE Goal
  BY <1>2 DEF LookUp, At, CreationHeld, Yield, Acquire, TypeOK, TaskTypes, memoryVars
<1>3. ASSUME NEW s \in Streams, ResumeCancelsTimer(s) PROVE Goal
  BY <1>3, CancelTarget DEF ResumeCancelsTimer, At, TypeOK, TaskTypes, memoryVars
<1>4. ASSUME NEW s \in Streams, Resume(s) PROVE Goal
  <2>1. me[Conn(s)] \in Streams
    BY <1>4, OwnerPlace
       DEF Resume, At, Holds, OwnerPcs, RecordingPcs, WaitingPcs, EndingPcs
  <2>2. sess'[None] = sess[None]
    BY <1>4, <2>1, StatusSet DEF Resume, TypeOK
  <2>3. pc'[Reconciler] = pc[Reconciler]
    BY <1>4 DEF Resume, Yield, TypeOK, TaskTypes
  <2> QED
    BY <2>2, <2>3
<1>5. ASSUME NEW s \in Streams, Resumed(s) PROVE Goal
  BY <1>5 DEF Resumed, At, Yield, TypeOK, TaskTypes, memoryVars
<1>6. ASSUME NEW s \in Streams, Reuse(s) PROVE Goal
  BY <1>6 DEF Reuse, At, Yield, TypeOK, TaskTypes, memoryVars
<1>7. ASSUME NEW s \in Streams, DropStale(s) PROVE Goal
  BY <1>7 DEF DropStale, At, Yield, TypeOK, TaskTypes, memoryVars
<1>8. ASSUME NEW s \in Streams, CreateUpload(s) PROVE Goal
  BY <1>8 DEF CreateUpload, At, Yield, TypeOK, TaskTypes, memoryVars, MemoryTypes
<1>9. ASSUME NEW s \in Streams, CreateFails(s) PROVE Goal
  BY <1>9 DEF CreateFails, At, Yield, TypeOK, TaskTypes, memoryVars
<1>10. ASSUME NEW s \in Streams, Created(s) PROVE Goal
  BY <1>10 DEF Created, At, TypeOK, TaskTypes, memoryVars
<1>11. ASSUME NEW s \in Streams, RecvAudio(s) PROVE Goal
  BY <1>11 DEF RecvAudio, At, Yield, Acquire, TypeOK, TaskTypes, memoryVars
<1>12. ASSUME NEW s \in Streams, AppendFrame(s) PROVE Goal
  BY <1>12 DEF AppendFrame, At, Yield, TypeOK, TaskTypes, memoryVars
<1>13. ASSUME NEW s \in Streams, UploadPart(s) PROVE Goal
  <2>1. me[Conn(s)] \in Streams
    BY <1>13, OwnerPlace
       DEF UploadPart, At, Holds, OwnerPcs, RecordingPcs, WaitingPcs, EndingPcs
  <2> QED
    BY <1>13, <2>1, StatusSet, StoredSet
       DEF UploadPart, At, GivesUp, Save, Yield, Go, TypeOK, TaskTypes, MemoryTypes
<1>14. ASSUME NEW s \in Streams, AppendSaved(s) PROVE Goal
  BY <1>14 DEF AppendSaved, At, Yield, TypeOK, TaskTypes, memoryVars
<1>15. ASSUME NEW s \in Streams, GracefulEnd(s) PROVE Goal
  BY <1>15 DEF GracefulEnd, At, Yield, Go, TypeOK, TaskTypes, memoryVars
<1>16. ASSUME NEW s \in Streams, StopCancelsTimer(s) PROVE Goal
  BY <1>16 DEF StopCancelsTimer, At, SeqInv, NoCancel
<1>17. ASSUME NEW s \in Streams, BreakReading(s) PROVE Goal
  BY <1>17 DEF BreakReading, At, Go, TypeOK, TaskTypes, memoryVars
<1>18. ASSUME NEW s \in Streams, BreakMidCall(s) PROVE Goal
  BY <1>18 DEF BreakMidCall
<1>19. ASSUME NEW s \in Streams, Drop(s) PROVE Goal
  BY <1>19 DEF Drop, At, Yield, Acquire, TypeOK, TaskTypes, memoryVars
<1>20. ASSUME NEW s \in Streams, GraceWait(s) PROVE Goal
  <2>1. me[Conn(s)] \in Streams
    BY <1>20, OwnerPlace
       DEF GraceWait, At, Holds, OwnerPcs, RecordingPcs, WaitingPcs, EndingPcs
  <2> QED
    BY <1>20, <2>1, StatusSet, StoredSet
       DEF GraceWait, At, GivesUp, Save, Yield, Go, TypeOK, TaskTypes, MemoryTypes
<1>21. ASSUME NEW s \in Streams, ArmTimer(s) PROVE Goal
  BY <1>21 DEF ArmTimer, At, TypeOK, TaskTypes, memoryVars
<1>22. ASSUME NEW s \in Streams, TimerFires(s) PROVE Goal
  BY <1>22 DEF TimerFires, At, Yield, Acquire, TypeOK, TaskTypes, memoryVars
<1>23. ASSUME NEW s \in Streams, Claim(s) PROVE Goal
  <2>1. me[Grace(s)] \in Streams
    BY <1>23, OwnerPlace
       DEF Claim, At, Holds, OwnerPcs, RecordingPcs, WaitingPcs, EndingPcs
  <2> QED
    BY <1>23, <2>1, StatusSet, StoredSet
       DEF Claim, At, GivesUp, Save, Yield, Go, TypeOK, TaskTypes, MemoryTypes
<1>24. ASSUME NEW t \in Finalizers, BeginFinalize(t) PROVE Goal
  BY <1>24 DEF BeginFinalize, At, Yield, Acquire, TypeOK, TaskTypes, memoryVars
<1>25. ASSUME NEW t \in Finalizers, SkipFinalize(t) PROVE Goal
  BY <1>25 DEF SkipFinalize, At, Yield, TypeOK, TaskTypes, memoryVars
<1>26. ASSUME NEW t \in Finalizers, TakeBuffer(t) PROVE Goal
  BY <1>26 DEF TakeBuffer, At, Yield, TypeOK, TaskTypes, memoryVars
<1>27. ASSUME NEW t \in Finalizers, FlushBuffer(t) PROVE Goal
  <2>1. me[t] \in Streams
    BY <1>27, OwnerPlace
       DEF FlushBuffer, At, Holds, OwnerPcs, RecordingPcs, WaitingPcs, EndingPcs
  <2> QED
    BY <1>27, <2>1, StatusSet, StoredSet
       DEF FlushBuffer, At, GivesUp, Save, Yield, Go, TypeOK, TaskTypes, MemoryTypes
<1>28. ASSUME NEW t \in Finalizers, PopAndReport(t) PROVE Goal
  BY <1>28 DEF PopAndReport, At, Yield, TypeOK, TaskTypes, memoryVars
<1>29. ASSUME NEW t \in Finalizers \cup {Reconciler}, CompleteOrAbort(t) PROVE Goal
  <2> SUFFICES ASSUME t \in Finalizers PROVE Goal
    BY <1>29
  <2>1. me[t] \in Streams
    BY <1>29, OwnerPlace DEF CompleteOrAbort, At, OwnerPcs, EndingPcs
  <2>2. PICK st : sess' = [sess EXCEPT ![me[t]].status = st]
    BY <1>29 DEF CompleteOrAbort
  <2> QED
    BY <1>29, <2>1, <2>2 DEF CompleteOrAbort, Yield, TypeOK, TaskTypes, MemoryTypes
<1>30. ASSUME NEW t \in Tasks, WriteLands(t) PROVE Goal
  BY <1>30 DEF WriteLands, localVars, memoryVars, s3Vars, TypeOK, TaskTypes
<1>31. ASSUME NEW t \in Tasks, Report(t) PROVE Goal
  BY <1>31 DEF Report, At, Yield, TypeOK, TaskTypes, memoryVars
<1>32. ASSUME NEW t \in Tasks, Acked(t) PROVE Goal
  BY <1>32 DEF Acked, At, Saved, Finished, Yield, TypeOK, TaskTypes, memoryVars
<1>33. ASSUME NEW t \in Tasks, Unacked(t) PROVE Goal
  BY <1>33 DEF Unacked, At, Finished, Yield, TypeOK, TaskTypes, memoryVars
<1>34. ASSUME NEW t \in Tasks, Deleted(t) PROVE Goal
  BY <1>34 DEF Deleted, At, Finished, Yield, TypeOK, TaskTypes, memoryVars
<1>35. ASSUME ListUnfinished PROVE Goal
  BY <1>35 DEF ListUnfinished, At, Finished, Yield, TypeOK, TaskTypes, memoryVars
<1>36. ASSUME SkipLive PROVE Goal
  BY <1>36 DEF SkipLive, At, Finished, Yield, TypeOK, TaskTypes, memoryVars
<1>37. ASSUME Recover PROVE Goal
  BY <1>37 DEF Recover, At, Yield, TypeOK, TaskTypes, memoryVars
<1>38. ASSUME RecoveredSaved PROVE Goal
  BY <1>38 DEF RecoveredSaved, At, Yield, TypeOK, TaskTypes, memoryVars
<1>39. ASSUME Crash PROVE Goal
  BY <1>39 DEF Crash, TypeOK, TaskTypes, memoryVars
<1> QED
  BY <1>1, <1>2, <1>3, <1>4, <1>5, <1>6, <1>7, <1>8, <1>9, <1>10, <1>11, <1>12, <1>13,
     <1>14, <1>15, <1>16, <1>17, <1>18, <1>19, <1>20, <1>21, <1>22, <1>23, <1>24, <1>25,
     <1>26, <1>27, <1>28, <1>29, <1>30, <1>31, <1>32, <1>33, <1>34, <1>35, <1>36, <1>37,
     <1>38, <1>39
     DEF Next, StartStep, AppendStep, StopStep, FinalizeStep, ReportStep, ReconcilerStep

\* Repaired is inductive: the reconciler finishes sessions only before the server opens.
LEMMA RepairedStep ==
    ASSUME ~BreakAnywhere, "disk" \notin Faults, AllInv, FileInv, Next
    PROVE  Repaired'
<1> USE TaskFacts, StreamsAssumption DEF AllInv, SeqInv, Inv, FileInv, Repaired
<1> DEFINE Kept == sess'[None] = sess[None]
<1>1. ASSUME NEW s \in Streams, OpenStream(s), Kept PROVE Repaired'
  BY <1>1 DEF OpenStream, TypeOK, TaskTypes
<1>2. ASSUME NEW s \in Streams, LookUp(s), Kept PROVE Repaired'
  BY <1>2 DEF LookUp, At, CreationHeld, Yield, Acquire, TypeOK, TaskTypes
<1>3. ASSUME NEW s \in Streams, ResumeCancelsTimer(s), Kept PROVE Repaired'
  BY <1>3, CancelTarget DEF ResumeCancelsTimer, At, TypeOK, TaskTypes
<1>4. ASSUME NEW s \in Streams, Resume(s), Kept PROVE Repaired'
  BY <1>4 DEF Resume, At, Yield, Save, TypeOK, TaskTypes
<1>5. ASSUME NEW s \in Streams, Resumed(s), Kept PROVE Repaired'
  BY <1>5 DEF Resumed, At, Yield, TypeOK, TaskTypes
<1>6. ASSUME NEW s \in Streams, Reuse(s), Kept PROVE Repaired'
  BY <1>6 DEF Reuse, At, Yield, TypeOK, TaskTypes
<1>7. ASSUME NEW s \in Streams, DropStale(s), Kept PROVE Repaired'
  BY <1>7 DEF DropStale, At, Yield, TypeOK, TaskTypes
<1>8. ASSUME NEW s \in Streams, CreateUpload(s), Kept PROVE Repaired'
  <2>1. upload[s] = "none" /\ registry' = s
    BY <1>8 DEF CreateUpload, At, TruthInv, FreshUpload
  <2>2. sess[None].upload # s
    BY <2>1 DEF KnownSessions, Known
  <2> QED
    BY <1>8, <2>1, <2>2 DEF CreateUpload, Save, Yield, TypeOK, TaskTypes
<1>9. ASSUME NEW s \in Streams, CreateFails(s), Kept PROVE Repaired'
  BY <1>9 DEF CreateFails, At, Yield, TypeOK, TaskTypes
<1>10. ASSUME NEW s \in Streams, Created(s), Kept PROVE Repaired'
  BY <1>10 DEF Created, At, TypeOK, TaskTypes
<1>11. ASSUME NEW s \in Streams, RecvAudio(s), Kept PROVE Repaired'
  BY <1>11 DEF RecvAudio, At, Yield, Acquire, TypeOK, TaskTypes
<1>12. ASSUME NEW s \in Streams, AppendFrame(s), Kept PROVE Repaired'
  BY <1>12 DEF AppendFrame, At, Yield, Save, TypeOK, TaskTypes
<1>13. ASSUME NEW s \in Streams, UploadPart(s), Kept PROVE Repaired'
  BY <1>13 DEF UploadPart, At, Stores, GivesUp, Yield, Go, Save, TypeOK, TaskTypes
<1>14. ASSUME NEW s \in Streams, AppendSaved(s), Kept PROVE Repaired'
  BY <1>14 DEF AppendSaved, At, Yield, TypeOK, TaskTypes
<1>15. ASSUME NEW s \in Streams, GracefulEnd(s), Kept PROVE Repaired'
  BY <1>15 DEF GracefulEnd, At, Yield, Go, TypeOK, TaskTypes
<1>16. ASSUME NEW s \in Streams, StopCancelsTimer(s), Kept PROVE Repaired'
  BY <1>16 DEF StopCancelsTimer, At, SeqInv, NoCancel
<1>17. ASSUME NEW s \in Streams, BreakReading(s), Kept PROVE Repaired'
  BY <1>17 DEF BreakReading, At, Go, TypeOK, TaskTypes
<1>18. ASSUME NEW s \in Streams, BreakMidCall(s), Kept PROVE Repaired'
  BY <1>18 DEF BreakMidCall
<1>19. ASSUME NEW s \in Streams, Drop(s), Kept PROVE Repaired'
  BY <1>19 DEF Drop, At, Yield, Acquire, TypeOK, TaskTypes
<1>20. ASSUME NEW s \in Streams, GraceWait(s), Kept PROVE Repaired'
  BY <1>20 DEF GraceWait, At, Yield, Save, TypeOK, TaskTypes
<1>21. ASSUME NEW s \in Streams, ArmTimer(s), Kept PROVE Repaired'
  BY <1>21 DEF ArmTimer, At, TypeOK, TaskTypes
<1>22. ASSUME NEW s \in Streams, TimerFires(s), Kept PROVE Repaired'
  BY <1>22 DEF TimerFires, At, Yield, Acquire, TypeOK, TaskTypes
<1>23. ASSUME NEW s \in Streams, Claim(s), Kept PROVE Repaired'
  BY <1>23 DEF Claim, At, Go, Yield, TypeOK, TaskTypes
<1>24. ASSUME NEW t \in Finalizers, BeginFinalize(t), Kept PROVE Repaired'
  BY <1>24 DEF BeginFinalize, At, Yield, Acquire, TypeOK, TaskTypes
<1>25. ASSUME NEW t \in Finalizers, SkipFinalize(t), Kept PROVE Repaired'
  BY <1>25 DEF SkipFinalize, At, Yield, TypeOK, TaskTypes
<1>26. ASSUME NEW t \in Finalizers, TakeBuffer(t), Kept PROVE Repaired'
  BY <1>26 DEF TakeBuffer, At, Yield, TypeOK, TaskTypes
<1>27. ASSUME NEW t \in Finalizers, FlushBuffer(t), Kept PROVE Repaired'
  BY <1>27 DEF FlushBuffer, At, Stores, GivesUp, Yield, TypeOK, TaskTypes
<1>28. ASSUME NEW t \in Finalizers, PopAndReport(t), Kept PROVE Repaired'
  BY <1>28 DEF PopAndReport, At, Yield, TypeOK, TaskTypes
<1>29. ASSUME NEW t \in {Reconciler}, CompleteOrAbort(t) PROVE Repaired'
  <2>1. me[t] = None /\ pc[t] = "complete" /\ up = "starting" /\ crashes # 0
    BY <1>29 DEF CompleteOrAbort, At, TruthInv, Roles
  <2>2. AlreadyFinal(sess'[None].status)
    <3>1. PICK st \in {"completed", "failed"} : sess' = [sess EXCEPT ![None].status = st]
      BY <1>29, <2>1 DEF CompleteOrAbort, AfterError
    <3> QED
      BY <3>1 DEF AlreadyFinal, TypeOK, MemoryTypes, Session
  <2>3. registry = None
    BY <2>1 DEF Restarting
  <2> QED
    BY <1>29, <2>1, <2>2, <2>3
       DEF CompleteOrAbort, Save, Yield, ReportPcs, TypeOK, TaskTypes
<1>30. ASSUME NEW t \in Tasks, WriteLands(t), Kept PROVE Repaired'
  <2>1. ASSUME pc[Reconciler] \in {"complete", "saving"} PROVE t = Reconciler
    BY <1>30, <2>1, FinalizerKinds DEF WriteLands, Restarting, Quiet, SavePcs
  <2>2. ASSUME t = Reconciler
        PROVE  pc[t] \in SavePcs /\ (pc[t] = "saving" => file' = sess[None])
    BY <1>30, <2>2 DEF WriteLands, Quiet, Written, TruthInv, Roles
  <2> QED
    BY <1>30, <2>1, <2>2 DEF WriteLands, localVars, memoryVars, SavePcs, TypeOK, TaskTypes
<1>31. ASSUME NEW t \in Tasks, Report(t), Kept PROVE Repaired'
  BY <1>31 DEF Report, At, Yield, Save, ReportPcs, TypeOK, TaskTypes
<1>32. ASSUME NEW t \in Tasks, Acked(t), Kept PROVE Repaired'
  BY <1>32 DEF Acked, At, Saved, Finished, Yield, Save, ReportPcs, TypeOK, TaskTypes
<1>33. ASSUME NEW t \in Tasks, Unacked(t), Kept PROVE Repaired'
  BY <1>33 DEF Unacked, At, Finished, Yield, ReportPcs, TypeOK, TaskTypes
<1>34. ASSUME NEW t \in Tasks, Deleted(t), Kept PROVE Repaired'
  BY <1>34 DEF Deleted, At, Finished, Yield, ReportPcs, TypeOK, TaskTypes
<1>35. ASSUME ListUnfinished PROVE Repaired'
  BY <1>35 DEF ListUnfinished, At, Finished, Yield, ReportPcs, TypeOK, TaskTypes
<1>36. ASSUME SkipLive, Kept PROVE Repaired'
  BY <1>36 DEF SkipLive, At, Finished, Yield, ReportPcs, TypeOK, TaskTypes
<1>37. ASSUME Recover, Kept PROVE Repaired'
  BY <1>37
     DEF Recover, At, Yield, ReportPcs, Scanned, OwnedHere, WorldTypes, TypeOK, TaskTypes
<1>38. ASSUME RecoveredSaved, Kept PROVE Repaired'
  BY <1>38 DEF RecoveredSaved, At, Yield, ReportPcs, Saved, TypeOK, TaskTypes
<1>39. ASSUME Crash PROVE Repaired'
  BY <1>39 DEF Crash, ReportPcs, TypeOK, TaskTypes
<1>40. ASSUME NEW t \in Finalizers, CompleteOrAbort(t), Kept PROVE Repaired'
  BY <1>40 DEF CompleteOrAbort, Save, At, Yield, TypeOK, TaskTypes
<1>41. ListUnfinished \/ CompleteOrAbort(Reconciler) \/ Crash \/ Kept
  BY CopyStays
<1> QED
  BY <1>1, <1>2, <1>3, <1>4, <1>5, <1>6, <1>7, <1>8, <1>9, <1>10, <1>11, <1>12, <1>13,
     <1>14, <1>15, <1>16, <1>17, <1>18, <1>19, <1>20, <1>21, <1>22, <1>23, <1>24, <1>25,
     <1>26, <1>27, <1>28, <1>29, <1>30, <1>31, <1>32, <1>33, <1>34, <1>35, <1>36, <1>37,
     <1>38, <1>39, <1>40, <1>41
     DEF Next, StartStep, AppendStep, StopStep, FinalizeStep, ReportStep, ReconcilerStep

\* While the owner waits for its last save its session stays as it is.
LEMMA SavingStays ==
    ASSUME ~Overlap, ~BreakAnywhere, AllInv, Next,
           NEW o \in Finalizers, OnlyOwner(o), pc[o] = "saving", pc'[o] = "saving"
    PROVE  registry' = registry /\ sess'[registry] = sess[registry]
<1> USE StreamsAssumption DEF AllInv, Inv
<1>1. ~Crash
  BY TaskFacts DEF Crash
<1>2. registry \in Streams /\ AlreadyFinal(sess[registry].status)
  BY DEF OnlyOwner, OwnerState
<1>3. ASSUME NEW t \in Finalizers PROVE ~PopAndReport(t)
  <2> SUFFICES ASSUME PopAndReport(t) PROVE FALSE
    OBVIOUS
  <2>1. Owns(t) /\ pc'[t] # "saving"
    BY TaskFacts DEF PopAndReport, At, Yield, Owns, OwnerPcs, TypeOK, TaskTypes
  <2> QED
    BY <2>1 DEF OnlyOwner
<1> QED
  BY <1>1, <1>2, <1>3, NextFrames, SessionChanges

\* A write of nobody who answers for a session, or reports its start, is final.
LEMMA WritesAreFinal ==
    ASSUME AllInv, FileInv, NEW t \in Tasks, NEW doc \in write[t]
    PROVE  \/ AlreadyFinal(doc.status) /\ (registry # None => doc.upload # registry)
           \/ t \in Finalizers /\ Owns(t) /\ doc = sess[registry]
           \/ \E s \in Streams : t = Started(s) /\ Owns(Conn(s)) /\ pc[Conn(s)] = "open"
<1> USE TaskFacts, StreamsAssumption DEF AllInv, FileInv
<1>1. pc[t] \in SavePcs /\ (doc = NoSession \/ doc = sess[me[t]])
  BY DEF Quiet, Written
<1>2. CASE doc = NoSession
  BY <1>2 DEF NoSession, AlreadyFinal, Inv, TypeOK, LockTypes
<1>3. CASE doc = sess[me[t]] /\ t = Reconciler
  <2>1. pc[t] \in {"saving"} \cup ReportPcs /\ me[t] = None
    BY <1>1, <1>3
       DEF SavePcs, ReportPcs, SeqInv, Kinds, TruthInv, Roles
  <2> QED
    BY <1>3, <2>1 DEF Repaired, ReportPcs
<1>4. CASE doc = sess[me[t]] /\ t \in Finalizers /\ pc[t] \in OwnerPcs
  <2>1. Owns(t) /\ pc[t] # "sleep"
    BY <1>1, <1>4 DEF Owns, SavePcs
  <2> QED
    BY <1>4, <2>1, OwnerPlace
<1>5. CASE doc = sess[me[t]] /\ t \in Finalizers /\ pc[t] \notin OwnerPcs
  <2>1. pc[t] \in ReportPcs
    BY <1>1, <1>5 DEF SavePcs, ReportPcs, OwnerPcs, RecordingPcs, WaitingPcs
  <2> QED
    BY <1>5, <2>1 DEF Reporters
<1>6. CASE \E s \in Streams : t = Started(s)
  BY <1>6, WritersKnown
<1> QED
  BY <1>1, <1>2, <1>3, <1>4, <1>5, <1>6, FinalizerKinds

\* A write that lands is what the file holds.
LEMMA Landed ==
    ASSUME "disk" \notin Faults, NEW t \in Tasks, WriteLands(t)
    PROVE  file' \in write[t]
  BY DEF WriteLands

\* A task that waits for its last save has been at it before, or has just begun it.
LEMMA SavingEntered ==
    ASSUME ~BreakAnywhere, AllInv, Next, NEW o \in Finalizers, pc'[o] = "saving", write'[o] = {}
    PROVE  pc[o] = "saving"
<1> USE TaskFacts DEF AllInv, Inv
<1>1. ASSUME NEW s \in Streams, OpenStream(s) PROVE pc[o] = "saving"
  BY <1>1 DEF OpenStream, TypeOK, TaskTypes
<1>2. ASSUME NEW s \in Streams, LookUp(s) PROVE pc[o] = "saving"
  BY <1>2 DEF LookUp, At, CreationHeld, Yield, Acquire, TypeOK, TaskTypes
<1>3. ASSUME NEW s \in Streams, ResumeCancelsTimer(s) PROVE pc[o] = "saving"
  BY <1>3, CancelTarget DEF ResumeCancelsTimer, At, TypeOK, TaskTypes
<1>4. ASSUME NEW s \in Streams, Resume(s) PROVE pc[o] = "saving"
  BY <1>4 DEF Resume, At, Yield, TypeOK, TaskTypes
<1>5. ASSUME NEW s \in Streams, Resumed(s) PROVE pc[o] = "saving"
  BY <1>5 DEF Resumed, At, Yield, TypeOK, TaskTypes
<1>6. ASSUME NEW s \in Streams, Reuse(s) PROVE pc[o] = "saving"
  BY <1>6 DEF Reuse, At, Yield, TypeOK, TaskTypes
<1>7. ASSUME NEW s \in Streams, DropStale(s) PROVE pc[o] = "saving"
  BY <1>7 DEF DropStale, At, Yield, TypeOK, TaskTypes
<1>8. ASSUME NEW s \in Streams, CreateUpload(s) PROVE pc[o] = "saving"
  BY <1>8 DEF CreateUpload, At, Yield, TypeOK, TaskTypes
<1>9. ASSUME NEW s \in Streams, CreateFails(s) PROVE pc[o] = "saving"
  BY <1>9 DEF CreateFails, At, Yield, TypeOK, TaskTypes
<1>10. ASSUME NEW s \in Streams, Created(s) PROVE pc[o] = "saving"
  BY <1>10 DEF Created, At, TypeOK, TaskTypes
<1>11. ASSUME NEW s \in Streams, RecvAudio(s) PROVE pc[o] = "saving"
  BY <1>11 DEF RecvAudio, At, Yield, Acquire, TypeOK, TaskTypes
<1>12. ASSUME NEW s \in Streams, AppendFrame(s) PROVE pc[o] = "saving"
  BY <1>12 DEF AppendFrame, At, Yield, TypeOK, TaskTypes
<1>13. ASSUME NEW s \in Streams, UploadPart(s) PROVE pc[o] = "saving"
  BY <1>13 DEF UploadPart, At, Stores, GivesUp, Yield, Go, TypeOK, TaskTypes
<1>14. ASSUME NEW s \in Streams, AppendSaved(s) PROVE pc[o] = "saving"
  BY <1>14 DEF AppendSaved, At, Yield, TypeOK, TaskTypes
<1>15. ASSUME NEW s \in Streams, GracefulEnd(s) PROVE pc[o] = "saving"
  BY <1>15 DEF GracefulEnd, At, Yield, Go, TypeOK, TaskTypes
<1>16. ASSUME NEW s \in Streams, StopCancelsTimer(s) PROVE pc[o] = "saving"
  BY <1>16 DEF StopCancelsTimer, At, SeqInv, NoCancel
<1>17. ASSUME NEW s \in Streams, BreakReading(s) PROVE pc[o] = "saving"
  BY <1>17 DEF BreakReading, At, Go, TypeOK, TaskTypes
<1>18. ASSUME NEW s \in Streams, BreakMidCall(s) PROVE pc[o] = "saving"
  BY <1>18 DEF BreakMidCall
<1>19. ASSUME NEW s \in Streams, Drop(s) PROVE pc[o] = "saving"
  BY <1>19 DEF Drop, At, Yield, Acquire, TypeOK, TaskTypes
<1>20. ASSUME NEW s \in Streams, GraceWait(s) PROVE pc[o] = "saving"
  BY <1>20 DEF GraceWait, At, Yield, TypeOK, TaskTypes
<1>21. ASSUME NEW s \in Streams, ArmTimer(s) PROVE pc[o] = "saving"
  BY <1>21 DEF ArmTimer, At, TypeOK, TaskTypes
<1>22. ASSUME NEW s \in Streams, TimerFires(s) PROVE pc[o] = "saving"
  BY <1>22 DEF TimerFires, At, Yield, Acquire, TypeOK, TaskTypes
<1>23. ASSUME NEW s \in Streams, Claim(s) PROVE pc[o] = "saving"
  BY <1>23 DEF Claim, At, Go, Yield, TypeOK, TaskTypes
<1>24. ASSUME NEW t \in Finalizers, BeginFinalize(t) PROVE pc[o] = "saving"
  BY <1>24 DEF BeginFinalize, At, Yield, Acquire, TypeOK, TaskTypes
<1>25. ASSUME NEW t \in Finalizers, SkipFinalize(t) PROVE pc[o] = "saving"
  BY <1>25 DEF SkipFinalize, At, Yield, TypeOK, TaskTypes
<1>26. ASSUME NEW t \in Finalizers, TakeBuffer(t) PROVE pc[o] = "saving"
  BY <1>26 DEF TakeBuffer, At, Yield, TypeOK, TaskTypes
<1>27. ASSUME NEW t \in Finalizers, FlushBuffer(t) PROVE pc[o] = "saving"
  BY <1>27 DEF FlushBuffer, At, Stores, GivesUp, Yield, TypeOK, TaskTypes
<1>28. ASSUME NEW t \in Finalizers, PopAndReport(t) PROVE pc[o] = "saving"
  BY <1>28 DEF PopAndReport, At, Yield, TypeOK, TaskTypes
<1>29. ASSUME NEW t \in Finalizers \cup {Reconciler}, CompleteOrAbort(t)
       PROVE pc[o] = "saving"
  BY <1>29 DEF CompleteOrAbort, At, Yield, Save, TypeOK, TaskTypes
<1>30. ASSUME NEW t \in Tasks, WriteLands(t) PROVE pc[o] = "saving"
  BY <1>30 DEF WriteLands, localVars, memoryVars, s3Vars, TypeOK, TaskTypes
<1>31. ASSUME NEW t \in Tasks, Report(t) PROVE pc[o] = "saving"
  BY <1>31 DEF Report, At, Yield, TypeOK, TaskTypes
<1>32. ASSUME NEW t \in Tasks, Acked(t) PROVE pc[o] = "saving"
  BY <1>32 DEF Acked, At, Saved, Finished, Yield, TypeOK, TaskTypes
<1>33. ASSUME NEW t \in Tasks, Unacked(t) PROVE pc[o] = "saving"
  BY <1>33 DEF Unacked, At, Finished, Yield, TypeOK, TaskTypes
<1>34. ASSUME NEW t \in Tasks, Deleted(t) PROVE pc[o] = "saving"
  BY <1>34 DEF Deleted, At, Finished, Yield, TypeOK, TaskTypes
<1>35. ASSUME ListUnfinished PROVE pc[o] = "saving"
  BY <1>35 DEF ListUnfinished, At, Finished, Yield, TypeOK, TaskTypes
<1>36. ASSUME SkipLive PROVE pc[o] = "saving"
  BY <1>36 DEF SkipLive, At, Finished, Yield, TypeOK, TaskTypes
<1>37. ASSUME Recover PROVE pc[o] = "saving"
  BY <1>37 DEF Recover, At, Yield, TypeOK, TaskTypes
<1>38. ASSUME RecoveredSaved PROVE pc[o] = "saving"
  BY <1>38 DEF RecoveredSaved, At, Yield, TypeOK, TaskTypes
<1>39. ASSUME Crash PROVE pc[o] = "saving"
  BY <1>39 DEF Crash, TypeOK, TaskTypes
<1> QED
  BY <1>1, <1>2, <1>3, <1>4, <1>5, <1>6, <1>7, <1>8, <1>9, <1>10, <1>11, <1>12, <1>13,
     <1>14, <1>15, <1>16, <1>17, <1>18, <1>19, <1>20, <1>21, <1>22, <1>23, <1>24, <1>25,
     <1>26, <1>27, <1>28, <1>29, <1>30, <1>31, <1>32, <1>33, <1>34, <1>35, <1>36, <1>37,
     <1>38, <1>39
     DEF Next, StartStep, AppendStep, StopStep, FinalizeStep, ReportStep, ReconcilerStep

\* Saving is inductive.
LEMMA SavingStep ==
    ASSUME ~Overlap, ~BreakAnywhere, "disk" \notin Faults, AllInv, FileInv, Next
    PROVE  Saving'
<1> SUFFICES ASSUME NEW o \in Finalizers, pc'[o] = "saving", write'[o] = {}
             PROVE  /\ AlreadyFinal(file'.status)
                    /\ file'.upload = registry' => file' = sess'[registry']
  BY DEF Saving, AlreadyFinal
<1> USE TaskFacts, StreamsAssumption DEF AllInv, Inv
<1>1. ~Crash
  BY DEF Crash
<1>2. pc[o] = "saving"
  BY SavingEntered
<1>3. OnlyOwner(o) /\ me[o] = registry /\ registry \in Streams
  BY <1>2, OwnerPlace DEF OwnerPcs
<1>4. AlreadyFinal(sess[registry].status)
  BY <1>2, <1>3 DEF OnlyOwner, OwnerState
<1>5. registry' = registry /\ sess'[registry] = sess[registry]
  BY <1>2, <1>3, SavingStays
<1>6. ASSUME NEW t \in Tasks, WriteLands(t)
      PROVE  /\ AlreadyFinal(file'.status)
             /\ file'.upload = registry => file' = sess[registry]
  <2>1. file' \in write[t]
    BY <1>6, Landed
  <2>2. ASSUME NEW s \in Streams PROVE ~(Owns(Conn(s)) /\ pc[Conn(s)] = "open")
    BY <1>2, <1>3 DEF OnlyOwner
  <2> QED
    BY <1>3, <1>4, <2>1, <2>2, WritesAreFinal
<1>7. CASE file' = file
  <2>1. write[o] = {} \/ WriteLands(o)
    BY <1>1, NextFrames
  <2>2. CASE write[o] = {}
    BY <1>2, <1>5, <1>7, <2>2 DEF FileInv, Saving
  <2> QED
    BY <1>5, <1>6, <2>1, <2>2
<1> QED
  BY <1>1, <1>5, <1>6, <1>7, NextFrames

\* Ended is inductive.
LEMMA EndedStep ==
    ASSUME ~Overlap, ~BreakAnywhere, "disk" \notin Faults, AllInv, FileInv, Next
    PROVE  Ended'
<1> SUFFICES ASSUME registry' = None,
                    up' = "serving" \/ pc'[Reconciler] \in ReportPcs \/ crashes' = 0
             PROVE  AlreadyFinal(file'.status)
  BY DEF Ended, AlreadyFinal
<1> USE TaskFacts, StreamsAssumption DEF AllInv, Inv
<1>1. ~Crash
  BY DEF Crash, ReportPcs, TypeOK, TaskTypes, WorldTypes
<1>2. crashes' = crashes /\ (up' = up \/ up' = "serving")
  BY <1>1, NextFrames
<1>3. CASE \E t \in Tasks : WriteLands(t)
  <2>1. PICK t \in Tasks : WriteLands(t)
    BY <1>3
  <2>2. registry = None /\ file' \in write[t]
    BY <2>1, Landed DEF WriteLands
  <2> QED
    BY <2>2, WritesAreFinal, OwnerFacts
<1>4. CASE file' = file /\ \E t \in Finalizers : PopAndReport(t)
  BY <1>4 DEF PopAndReport, At, Saved, FileInv, Saving
<1>5. CASE file' = file /\ registry = None /\ registry' = registry
  <2>1. CASE up = "serving" \/ pc[Reconciler] \in ReportPcs \/ crashes = 0
    BY <1>5, <2>1 DEF FileInv, Ended
  <2>2. CASE up # "serving" /\ pc[Reconciler] \notin ReportPcs /\ crashes # 0
    <3>1. up = "starting"
      BY <2>2 DEF TypeOK, WorldTypes
    <3>2. CASE ListUnfinished
      BY <1>2, <1>5, <2>2, <3>1, <3>2
         DEF ListUnfinished, At, NoSession, AlreadyFinal, ReportPcs, TypeOK, TaskTypes
    <3>3. CASE SkipLive
      BY <1>5, <3>3 DEF SkipLive, OwnedHere
    <3>4. CASE Recover
      BY <1>2, <1>5, <2>2, <3>1, <3>4
         DEF Recover, At, Yield, FileInv, Scanned, ReportPcs, TypeOK, TaskTypes
    <3>5. CASE RecoveredSaved
      BY <1>5, <3>5 DEF RecoveredSaved, At, Saved, FileInv, Repaired
    <3>6. CASE CompleteOrAbort(Reconciler)
      BY <1>2, <2>2, <3>1, <3>6 DEF CompleteOrAbort, Yield, ReportPcs, TypeOK, TaskTypes
    <3>7. CASE ReportStep(Reconciler)
      <4>1. WriteLands(Reconciler)
        BY <2>2, <3>7 DEF ReportStep, Report, Acked, Unacked, Deleted, At, ReportPcs
      <4> QED
        BY <1>3, <4>1
    <3> QED
      BY <1>1, <3>1, <3>2, <3>3, <3>4, <3>5, <3>6, <3>7, RestartSteps DEF ReconcilerStep
  <2> QED
    BY <2>1, <2>2
<1> QED
  BY <1>1, <1>2, <1>3, <1>4, <1>5, NextFrames, SessionChanges

\* The documents at first ...
LEMMA FileInit == Init => FileInv
<1> SUFFICES ASSUME Init PROVE FileInv
  OBVIOUS
<1> USE TaskFacts, StreamsAssumption DEF Init
<1>1. Quiet /\ Written /\ StartedWaits /\ Unarmed /\ OwnDoc
  BY DEF Quiet, Written, StartedWaits, Unarmed, OwnDoc
<1>2. Reporters /\ Restarting /\ Scanned /\ Repaired
  BY DEF Reporters, Restarting, Scanned, Repaired, ReportPcs
<1>3. Ended /\ Saving
  BY DEF Ended, Saving, NoSession, AlreadyFinal
<1> QED
  BY <1>1, <1>2, <1>3 DEF FileInv

\* ... and after every step.
LEMMA FileStep ==
    ASSUME ~Overlap, ~BreakAnywhere, ~ScanLag, ~LateStarted, "disk" \notin Faults,
           AllInv, FileInv, [Next]_vars
    PROVE  FileInv'
<1>1. CASE Next
  <2>1. Quiet' /\ Written' /\ StartedWaits' /\ Unarmed' /\ OwnDoc' /\ Reporters'
    BY <1>1, QuietStep, WrittenStep, StartedWaitsStep, UnarmedStep, OwnDocStep, ReportersStep
  <2>2. Restarting' /\ Scanned' /\ Repaired' /\ Ended' /\ Saving'
    BY <1>1, RestartingStep, ScannedStep, RepairedStep, EndedStep, SavingStep
  <2> QED
    BY <2>1, <2>2 DEF FileInv
<1>2. CASE UNCHANGED vars
  <2> USE <1>2 DEF vars, localVars, memoryVars, s3Vars, FileInv
  <2>1. Quiet' /\ Written' /\ StartedWaits' /\ Unarmed' /\ OwnDoc'
    BY DEF Quiet, Written, StartedWaits, Unarmed, OwnDoc
  <2>2. Reporters' /\ Restarting' /\ Scanned' /\ Repaired'
    BY DEF Reporters, Restarting, Scanned, Repaired
  <2>3. Ended' /\ Saving'
    BY DEF Ended, Saving
  <2> QED
    BY <2>1, <2>2, <2>3
<1> QED
  BY <1>1, <1>2

--------------------------------------------------------------------------------
(* The verdict: what the documents of a session and the orchestrator say    *)

\* Documents somebody may still act on.
Live(x) ==
    \/ x = file \/ \E u \in Streams : x = sess[u]
    \/ pc[Reconciler] # "idle" /\ x = sess[None]

Recovering == up = "starting" /\ pc[Reconciler] \in {"idle", "check", "complete", "saving"}

\* All live documents of a session nobody works on any more say how it ended, and the same.
Verdict ==
    \A u \in Streams : u # registry /\ ~Recovering =>
        \A x, y : Live(x) /\ Live(y) /\ x.upload = u /\ y.upload = u =>
            AlreadyFinal(x.status) /\ Outcome(x.status) = Outcome(y.status)

\* They say what the orchestrator has been told, if it has.
ToldAgrees ==
    \A u \in Streams : \A e \in told[u] \ {"started"} : \A x : Live(x) /\ x.upload = u =>
        AlreadyFinal(x.status) /\ Outcome(x.status) = e

ToldKnown == \A u \in Streams : told[u] # {} => upload[u] # "none"

VerdictInv == Verdict /\ ToldAgrees /\ ToldKnown /\ EventsAgree

\* The orchestrator is only told by a task that is at its report.
LEMMA ToldMoves ==
    ASSUME ~BreakAnywhere, AllInv, Next
    PROVE  told' = told \/ \E t \in Tasks : Report(t) /\ Tell(t)
<1> DEFINE Goal == told' = told \/ \E t \in Tasks : Report(t) /\ Tell(t)
<1>1. ASSUME NEW s \in Streams, StartStep(s) PROVE Goal
  <2>1. CASE ResumeCancelsTimer(s)
    BY <2>1, CancelledSleeps DEF ResumeCancelsTimer, Cancelled, CallOutlives
  <2> QED
    BY <1>1, <2>1
       DEF StartStep, OpenStream, LookUp, Resume, Resumed, Reuse, DropStale, CreateUpload,
           CreateFails, Created
<1>2. ASSUME NEW s \in Streams, AppendStep(s) PROVE Goal
  BY <1>2 DEF AppendStep, RecvAudio, AppendFrame, UploadPart, AppendSaved
<1>3. ASSUME NEW s \in Streams, StopStep(s) PROVE Goal
  BY <1>3, TaskFacts
     DEF StopStep, GracefulEnd, StopCancelsTimer, BreakReading, BreakMidCall, Drop, GraceWait,
         ArmTimer, TimerFires, Claim, At, AllInv, SeqInv, NoCancel
<1>4. ASSUME NEW t \in Finalizers, FinalizeStep(t) PROVE Goal
  BY <1>4
     DEF FinalizeStep, BeginFinalize, SkipFinalize, TakeBuffer, FlushBuffer, PopAndReport
<1>5. ASSUME NEW t \in Finalizers \cup {Reconciler}, CompleteOrAbort(t) PROVE Goal
  BY <1>5 DEF CompleteOrAbort
<1>6. ASSUME NEW t \in Tasks, ReportStep(t) PROVE Goal
  BY <1>6 DEF ReportStep, WriteLands, Report, Acked, Unacked, Deleted
<1>7. ASSUME ReconcilerStep PROVE Goal
  BY <1>7 DEF ReconcilerStep, ListUnfinished, SkipLive, Recover, RecoveredSaved
<1>8. CASE Crash
  BY <1>8 DEF Crash
<1> QED
  BY <1>1, <1>2, <1>3, <1>4, <1>5, <1>6, <1>7, <1>8 DEF Next

\* A document that names an upload was live before, or is the registered session, or the
\* copy the reconciler finishes.
LEMMA LiveMoves ==
    ASSUME ~Overlap, ~BreakAnywhere, "disk" \notin Faults, AllInv, FileInv, Next, ~Crash,
           NEW x, Live(x)', x.upload \in Streams
    PROVE  \/ Live(x)
           \/ registry' \in Streams /\ x = sess'[registry'] /\ x.upload = registry'
           \/ CompleteOrAbort(Reconciler) /\ x = sess'[None]
<1> USE TaskFacts, StreamsAssumption DEF AllInv, Inv, Live
<1>1. CASE x = file'
  <2>1. CASE file' = file
    BY <1>1, <2>1
  <2>2. ASSUME NEW t \in Tasks, WriteLands(t) PROVE Live(x)
    <3>1. file' \in write[t]
      BY <2>2, Landed
    <3>2. x # NoSession
      BY DEF NoSession
    <3>3. x = sess[me[t]] /\ pc[t] \in SavePcs
      BY <1>1, <3>1, <3>2 DEF FileInv, Written, Quiet
    <3> QED
      BY <3>1, <3>3, WritersKnown DEF SavePcs
  <2> QED
    BY <2>1, <2>2, NextFrames
<1>2. ASSUME NEW u \in Streams, x = sess'[u]
      PROVE  Live(x) \/ (registry' \in Streams /\ x = sess'[registry'] /\ x.upload = registry')
  <2>1. CASE u = registry'
    BY <1>2, <2>1, OwnDocStep DEF OwnDoc
  <2>2. CASE u # registry' /\ u # registry
    BY <1>2, <2>2, NextFrames, SessionChanges
  <2>3. CASE u # registry' /\ u = registry
    BY <1>2, <2>3, NextFrames, SessionChanges DEF PopAndReport, memoryVars
  <2> QED
    BY <2>1, <2>2, <2>3
<1>3. CASE pc'[Reconciler] # "idle" /\ x = sess'[None]
  <2>1. CASE ListUnfinished
    BY <1>3, <2>1 DEF ListUnfinished, TypeOK, MemoryTypes
  <2>2. CASE ~ListUnfinished /\ ~CompleteOrAbort(Reconciler)
    BY <1>3, <2>2, CopyStays
  <2> QED
    BY <1>3, <2>1, <2>2
<1> QED
  BY <1>1, <1>2, <1>3

\* Verdict is inductive.
LEMMA VerdictStep ==
    ASSUME ~Overlap, ~BreakAnywhere, "disk" \notin Faults, AllInv, FileInv, Verdict, Next
    PROVE  Verdict'
<1> SUFFICES ASSUME NEW u \in Streams, u # registry', ~Recovering',
                    NEW x, NEW y, Live(x)', Live(y)', x.upload = u, y.upload = u
             PROVE  AlreadyFinal(x.status) /\ Outcome(x.status) = Outcome(y.status)
  BY DEF Verdict, AlreadyFinal, Outcome
<1> USE TaskFacts, StreamsAssumption DEF AllInv, Inv, FileInv
<1>1. ~Crash
  BY DEF Crash, Recovering, TypeOK, TaskTypes
<1>2. CASE Recovering
  <2>1. up = "starting" /\ pc[Reconciler] \in {"idle", "check", "complete", "saving"}
    BY <1>2 DEF Recovering
  <2>2. /\ ListUnfinished \/ Recover \/ RecoveredSaved
        /\ pc'[Reconciler] = "idle" \/ pc'[Reconciler] = "report"
    <3>1. CASE CompleteOrAbort(Reconciler)
      BY <2>1, <3>1 DEF CompleteOrAbort, Yield, Recovering, TypeOK, TaskTypes
    <3>2. CASE ReportStep(Reconciler)
      BY <2>1, <3>2
         DEF ReportStep, WriteLands, localVars, Report, Acked, Unacked, Deleted, At, Recovering
    <3>3. CASE SkipLive
      BY <2>1, <3>3 DEF SkipLive, OwnedHere, Restarting
    <3>4. CASE ListUnfinished
      BY <2>1, <3>4 DEF ListUnfinished, Finished, Yield, Recovering, TypeOK, TaskTypes
    <3>5. CASE Recover \/ RecoveredSaved
      BY <2>1, <3>5 DEF Recover, RecoveredSaved, Yield, Recovering, TypeOK, TaskTypes
    <3> QED
      BY <1>1, <2>1, <3>1, <3>2, <3>3, <3>4, <3>5, RestartSteps DEF ReconcilerStep
  <2>3. file' = file /\ \A v \in Streams : sess'[v] = NoSession
    BY <2>1, <2>2, RestartingStep
       DEF ListUnfinished, Recover, RecoveredSaved, memoryVars, Restarting, TypeOK, MemoryTypes
  <2>4. NoSession.upload \notin Streams
    BY DEF NoSession
  <2>5. CASE ListUnfinished
    BY <2>1, <2>3, <2>4, <2>5
       DEF ListUnfinished, Finished, Yield, Recovering, Live, TypeOK, TaskTypes, MemoryTypes
  <2>6. CASE Recover
    BY <2>1, <2>3, <2>4, <2>6
       DEF Recover, At, Yield, Scanned, memoryVars, Recovering, Live, TypeOK, TaskTypes
  <2>7. CASE RecoveredSaved
    BY <2>1, <2>3, <2>4, <2>7
       DEF RecoveredSaved, At, Saved, Repaired, memoryVars, Live
  <2> QED
    BY <2>2, <2>5, <2>6, <2>7
<1>3. CASE ~Recovering /\ u # registry
  <2>1. ~CompleteOrAbort(Reconciler)
    BY <1>3 DEF CompleteOrAbort, At, Repaired, Recovering
  <2>2. Live(x) /\ Live(y)
    BY <1>1, <2>1, LiveMoves
  <2> QED
    BY <1>3, <2>2 DEF Verdict
<1>4. CASE u = registry
  <2>1. PICK t \in Finalizers : PopAndReport(t)
    BY <1>1, <1>4, NextFrames, SessionChanges
  <2>2. pc[t] = "saving" /\ write[t] = {} /\ loop \in {Idle, t}
    BY <2>1 DEF PopAndReport, At, Saved
  <2>3. AlreadyFinal(sess[u].status)
    BY <1>4, <2>2, OwnerPlace DEF OnlyOwner, OwnerState, OwnerPcs
  <2>4. ASSUME NEW z, Live(z)', z.upload = u PROVE z = sess[u]
    <3>1. Live(z)
      BY <2>1, <2>4 DEF PopAndReport, Yield, memoryVars, Live, TypeOK, TaskTypes
    <3>2. z # sess[None] \/ pc[Reconciler] = "idle"
      BY <1>4, <2>2, <2>4 DEF Repaired, Scanned
    <3>3. CASE z = file
      BY <1>4, <2>2, <2>4, <3>3 DEF Saving
    <3>4. ASSUME NEW v \in Streams, z = sess[v] PROVE z = sess[u]
      BY <2>4, <3>4 DEF TruthInv, OwnUpload
    <3> QED
      BY <3>1, <3>2, <3>3, <3>4 DEF Live
  <2> QED
    BY <2>3, <2>4
<1> QED
  BY <1>2, <1>3, <1>4

\* What is told of an upload is what every live document of it says.
LEMMA TellsVerdict ==
    ASSUME AllInv, FileInv, Verdict, NEW t \in Tasks, Report(t), event[t] # "started",
           NEW u \in Streams, sess[me[t]].upload = u
    PROVE  /\ Live(sess[me[t]]) /\ u # registry /\ ~Recovering
           /\ event[t] = Outcome(sess[me[t]].status)
<1> USE TaskFacts, StreamsAssumption DEF AllInv, FileInv
<1>1. pc[t] = "report" /\ pc[t] \in ReportPcs
  BY DEF Report, At, ReportPcs
<1>2. CASE t = Reconciler
  BY <1>1, <1>2 DEF Repaired, TruthInv, Roles, Live, Recovering, ReportPcs
<1>3. CASE t \in Finalizers
  <2>1. me[t] \in Streams \ {registry} /\ sess[me[t]].upload = me[t]
        /\ event[t] = Outcome(sess[me[t]].status)
    BY <1>1, <1>3 DEF Reporters
  <2>2. up # "starting"
    BY <1>1, <1>3 DEF Restarting
  <2> QED
    BY <2>1, <2>2 DEF Live, Recovering
<1>4. ASSUME NEW s \in Streams PROVE t # Started(s)
  BY DEF TruthInv, Roles
<1> QED
  BY <1>2, <1>3, <1>4, FinalizerKinds

\* ToldAgrees is inductive.
LEMMA ToldAgreesStep ==
    ASSUME ~Overlap, ~BreakAnywhere, "disk" \notin Faults, AllInv, FileInv, VerdictInv, Next
    PROVE  ToldAgrees'
<1> SUFFICES ASSUME NEW u \in Streams, NEW e \in told'[u] \ {"started"},
                    NEW x, Live(x)', x.upload = u
             PROVE  AlreadyFinal(x.status) /\ Outcome(x.status) = e
  BY DEF ToldAgrees, AlreadyFinal, Outcome
<1> USE TaskFacts, StreamsAssumption DEF AllInv, Inv, VerdictInv
<1>1. CASE Crash
  <2>1. Live(x) /\ told' = told
    BY <1>1 DEF Crash, Live, NoSession, TypeOK, TaskTypes
  <2> QED
    BY <2>1 DEF ToldAgrees
<1>2. CASE told' = told /\ ~Crash
  <2>1. e \in told[u] \ {"started"}
    BY <1>2
  <2>2. CASE Live(x)
    BY <2>1, <2>2 DEF ToldAgrees
  <2>3. CASE registry' \in Streams /\ x = sess'[registry'] /\ u = registry'
    <3>1. CASE registry' = registry
      <4>1. Live(sess[registry]) /\ sess[registry].upload = registry
        BY <2>3, <3>1 DEF Live, FileInv, OwnDoc
      <4>2. AlreadyFinal(sess[registry].status) /\ Outcome(sess[registry].status) = e
        BY <2>1, <2>3, <3>1, <4>1 DEF ToldAgrees
      <4> QED
        BY <1>2, <2>3, <3>1, <4>2, NextFrames, SessionChanges
    <3>2. CASE registry' # registry
      <4>1. CreateUpload(u)
        BY <1>2, <2>3, <3>2, NextFrames, SessionChanges
      <4>2. upload[u] = "none"
        BY <4>1 DEF CreateUpload, At, TruthInv, FreshUpload
      <4> QED
        BY <2>1, <4>2 DEF ToldKnown
    <3> QED
      BY <3>1, <3>2
  <2>4. CASE CompleteOrAbort(Reconciler) /\ x = sess'[None]
    <3>1. /\ me[Reconciler] = None /\ pc[Reconciler] = "complete"
          /\ ~AlreadyFinal(sess[None].status)
      BY <2>4 DEF CompleteOrAbort, At, FileInv, Repaired, TruthInv, Roles
    <3>2. x.upload = sess[None].upload
      <4>1. PICK st : sess' = [sess EXCEPT ![None].status = st]
        BY <2>4, <3>1 DEF CompleteOrAbort
      <4> QED
        BY <2>4, <4>1, StatusSet
    <3> QED
      BY <2>1, <3>1, <3>2 DEF ToldAgrees, Live
  <2> QED
    BY <1>2, <2>2, <2>3, <2>4, LiveMoves
<1>3. ASSUME NEW t \in Tasks, Report(t), Tell(t)
      PROVE  AlreadyFinal(x.status) /\ Outcome(x.status) = e
  <2>1. Live(x)
    BY <1>3 DEF Report, At, Yield, memoryVars, Live, TypeOK, TaskTypes
  <2>2. CASE e \in told[u]
    BY <2>1, <2>2 DEF ToldAgrees
  <2>3. CASE e \notin told[u]
    <3>1. sess[me[t]].upload = u /\ event[t] = e
      BY <1>3, <2>3 DEF Tell, TypeOK, WorldTypes
    <3>2. /\ Live(sess[me[t]]) /\ u # registry /\ ~Recovering
          /\ e = Outcome(sess[me[t]].status)
      BY <1>3, <3>1, TellsVerdict
    <3> QED
      BY <2>1, <3>1, <3>2 DEF Verdict
  <2> QED
    BY <2>2, <2>3
<1> QED
  BY <1>1, <1>2, <1>3, ToldMoves

\* EventsAgree is inductive with it.
LEMMA EventsAgreeStep ==
    ASSUME ~BreakAnywhere, AllInv, FileInv, VerdictInv, Next
    PROVE  EventsAgree'
<1> SUFFICES ASSUME NEW u \in Streams, "completed" \in told'[u], "failed" \in told'[u]
             PROVE  FALSE
  BY DEF EventsAgree
<1> USE TaskFacts DEF AllInv, Inv, VerdictInv
<1>1. ~({"completed", "failed"} \subseteq told[u])
  BY DEF EventsAgree
<1>2. PICK t \in Tasks : Report(t) /\ Tell(t)
  BY <1>1, ToldMoves
<1>3. /\ sess[me[t]].upload = u /\ event[t] # "started"
      /\ \E e \in told[u] \ {"started"} : e # event[t]
  BY <1>1, <1>2 DEF Tell, TypeOK, WorldTypes
<1>4. Live(sess[me[t]]) /\ event[t] = Outcome(sess[me[t]].status)
  BY <1>2, <1>3, TellsVerdict
<1> QED
  BY <1>3, <1>4 DEF ToldAgrees

\* ToldKnown is inductive.
LEMMA ToldKnownStep ==
    ASSUME ~BreakAnywhere, AllInv, ToldKnown, Next
    PROVE  ToldKnown'
<1> SUFFICES ASSUME NEW u \in Streams, told'[u] # {} PROVE upload'[u] # "none"
  BY DEF ToldKnown
<1> USE DEF AllInv, Inv
<1>1. CASE told[u] # {}
  BY <1>1, SessionMoves DEF ToldKnown
<1>2. CASE told[u] = {}
  <2>1. PICK t \in Tasks : Report(t) /\ Tell(t)
    BY <1>2, ToldMoves
  <2>2. sess[me[t]].upload = u /\ me[t] \in Streams \cup {None}
    BY <1>2, <2>1 DEF Tell, TypeOK, TaskTypes, WorldTypes
  <2> QED
    BY <2>2, SessionMoves DEF SeqInv, KnownSessions, Known
<1> QED
  BY <1>1, <1>2

\* No document says anything at first, and stuttering changes none.
LEMMA VerdictInit == Init => VerdictInv
<1> SUFFICES ASSUME Init PROVE VerdictInv
  OBVIOUS
<1>1. \A x : Live(x) => x.upload \notin Streams
  BY StreamsAssumption DEF Init, Live, NoSession
<1> QED
  BY <1>1 DEF Init, VerdictInv, Verdict, ToldAgrees, ToldKnown, EventsAgree

\* ... and every step keeps them of one mind.
LEMMA VerdictInvStep ==
    ASSUME ~Overlap, ~BreakAnywhere, "disk" \notin Faults, AllInv, FileInv, VerdictInv,
           [Next]_vars
    PROVE  VerdictInv'
<1>1. CASE Next
  BY <1>1, VerdictStep, ToldAgreesStep, ToldKnownStep, EventsAgreeStep DEF VerdictInv
<1>2. CASE UNCHANGED vars
  <2> USE <1>2 DEF vars, localVars, memoryVars, s3Vars, VerdictInv
  <2>1. Verdict' /\ ToldAgrees'
    BY DEF Verdict, ToldAgrees, Live, Recovering
  <2>2. ToldKnown' /\ EventsAgree'
    BY DEF ToldKnown, EventsAgree
  <2> QED
    BY <2>1, <2>2
<1> QED
  BY <1>1, <1>2

\* The orchestrator is never told both outcomes of one recording, through crashes,
\* recoveries and reports that are sent twice, as long as streams come one after the
\* other, connections break between two messages, the disk takes what is written, and
\* nothing runs between the reconciler's two looks or beside the report of a start.
THEOREM EventsAgreeAlways ==
    ASSUME ~Overlap, ~BreakAnywhere, ~ScanLag, ~LateStarted, "disk" \notin Faults
    PROVE  Spec => []EventsAgree
<1> DEFINE I == AllInv /\ FileInv /\ VerdictInv
<1>1. Init => I
  BY AllInit, FileInit, VerdictInit
<1>2. I /\ [Next]_vars => I'
  BY AllStep, FileStep, VerdictInvStep
<1>3. I => EventsAgree
  BY DEF VerdictInv
<1> QED
  BY <1>1, <1>2, <1>3, PTL DEF Spec

--------------------------------------------------------------------------------
(* The chunks: every one is stored, carried, buffered or given up           *)

\* Where a task carries chunks it has taken out of the buffer.
LoadedPcs == {"upload", "flush"}
NoPayload == \A t \in Finalizers : pc[t] \notin LoadedPcs => payload[t] = 0

\* A stream that has no session yet has fed none.
FreshCounts ==
    \A s \in Streams : pc[Conn(s)] \in {"idle", "enter", "resume", "create"} =>
        buffer[s] = 0 /\ received[s] = 0 /\ lost[s] = 0

\* What the registered session has received is stored, carried, buffered or given up.
Balance(n) == sess[registry].stored + n + buffer[registry] + lost[registry] = received[registry]
Counted ==
    registry # None =>
        /\ \A t \in Finalizers : pc[t] \in LoadedPcs => Balance(payload[t])
        /\ (\A t \in Finalizers : pc[t] \notin LoadedPcs) => Balance(0)
        /\ \A t \in Finalizers :
             pc[t] \in {"flush", "complete", "saving"} => buffer[registry] = 0

CountInv == NoPayload /\ FreshCounts /\ Counted

\* Who changes the counts, and the objects in the bucket.
LEMMA CountMoves ==
    ASSUME ~BreakAnywhere, AllInv, NoPayload, Next, ~Crash
    PROVE  /\ \/ \A u \in Streams : lost'[u] = lost[u]
              \/ \E s \in Streams : UploadPart(s)
              \/ \E t \in Finalizers : FlushBuffer(t)
           /\ received' = received \/ \E s \in Streams : AppendFrame(s)
           /\ \/ buffer' = buffer \/ \E s \in Streams : AppendFrame(s)
              \/ \E t \in Finalizers : TakeBuffer(t)
           /\ \/ upload' = upload /\ object' = object
              \/ \E s \in Streams : CreateUpload(s)
              \/ \E t \in Finalizers \cup {Reconciler} : CompleteOrAbort(t)
<1> DEFINE Goal ==
      /\ \/ \A u \in Streams : lost'[u] = lost[u]
         \/ \E s \in Streams : UploadPart(s)
         \/ \E t \in Finalizers : FlushBuffer(t)
      /\ received' = received \/ \E s \in Streams : AppendFrame(s)
      /\ \/ buffer' = buffer \/ \E s \in Streams : AppendFrame(s)
         \/ \E t \in Finalizers : TakeBuffer(t)
      /\ \/ upload' = upload /\ object' = object
         \/ \E s \in Streams : CreateUpload(s)
         \/ \E t \in Finalizers \cup {Reconciler} : CompleteOrAbort(t)
<1> USE DEF s3Vars, memoryVars
<1>1. ASSUME NEW s \in Streams, StartStep(s) PROVE Goal
  <2>1. CASE ResumeCancelsTimer(s)
    <3> DEFINE g == Grace(graceTask[registry])
    <3>1. registry = me[Conn(s)] /\ g \in Finalizers /\ pc[g] = "sleep" /\ payload[g] = 0
      BY <2>1, CancelledSleeps DEF OnlyOwner, OwnerState, NoPayload, LoadedPcs, Finalizers
    <3>2. UNCHANGED <<received, buffer, upload, object>>
      BY <2>1, <3>1 DEF ResumeCancelsTimer, Cancelled, CallOutlives
    <3>3. \A u \in Streams : lost'[u] = lost[u]
      BY <2>1, <3>1 DEF ResumeCancelsTimer, Cancelled, AllInv, Inv, TypeOK, WorldTypes
    <3> QED
      BY <3>2, <3>3
  <2>2. CASE CreateUpload(s)
    BY <2>2 DEF CreateUpload
  <2> QED
    BY <1>1, <2>1, <2>2
       DEF StartStep, OpenStream, LookUp, Resume, Resumed, Reuse, DropStale, CreateFails,
           Created
<1>2. ASSUME NEW s \in Streams, AppendStep(s) PROVE Goal
  BY <1>2 DEF AppendStep, RecvAudio, AppendFrame, UploadPart, AppendSaved
<1>3. ASSUME NEW s \in Streams, StopStep(s) PROVE Goal
  <2>1. ~StopCancelsTimer(s) /\ ~BreakMidCall(s)
    BY TaskFacts DEF StopCancelsTimer, BreakMidCall, At, AllInv, SeqInv, NoCancel
  <2> QED
    BY <1>3, <2>1
       DEF StopStep, GracefulEnd, BreakReading, Drop, GraceWait, ArmTimer, TimerFires, Claim
<1>4. ASSUME NEW t \in Finalizers, FinalizeStep(t) PROVE Goal
  BY <1>4
     DEF FinalizeStep, BeginFinalize, SkipFinalize, TakeBuffer, FlushBuffer, PopAndReport
<1>5. ASSUME NEW t \in Finalizers \cup {Reconciler}, CompleteOrAbort(t) PROVE Goal
  BY <1>5 DEF CompleteOrAbort
<1>6. ASSUME NEW t \in Tasks, ReportStep(t) PROVE Goal
  BY <1>6 DEF ReportStep, WriteLands, Report, Acked, Unacked, Deleted
<1>7. ASSUME ReconcilerStep PROVE Goal
  BY <1>7 DEF ReconcilerStep, ListUnfinished, SkipLive, Recover, RecoveredSaved
<1> QED
  BY <1>1, <1>2, <1>3, <1>4, <1>5, <1>6, <1>7 DEF Next

\* NoPayload is inductive: a task leaves its upload with what it carried stored or given up.
LEMMA NoPayloadStep ==
    ASSUME ~Overlap, ~BreakAnywhere, AllInv, Unarmed, NoPayload, Next
    PROVE  NoPayload'
<1> USE TaskFacts DEF AllInv, Inv, NoPayload, LoadedPcs
<1>2. ASSUME NEW s \in Streams, LookUp(s), registry # None PROVE NoPayload'
  BY <1>2 DEF LookUp, At, CreationHeld, Yield, Acquire, TypeOK, TaskTypes
<1>3. ASSUME NEW s \in Streams, ResumeCancelsTimer(s) PROVE NoPayload'
  BY <1>3, CancelledSleeps DEF ResumeCancelsTimer, At, Cancelled, TypeOK, TaskTypes
<1>4. ASSUME NEW s \in Streams, Resume(s) PROVE NoPayload'
  BY <1>4 DEF Resume, At, Yield, TypeOK, TaskTypes
<1>5. ASSUME NEW s \in Streams, Resumed(s) PROVE NoPayload'
  BY <1>5 DEF Resumed, At, Yield, TypeOK, TaskTypes
<1>7. ASSUME NEW s \in Streams, DropStale(s) PROVE NoPayload'
  BY <1>7 DEF DropStale, At, Yield, TypeOK, TaskTypes
<1>8. ASSUME NEW s \in Streams, CreateUpload(s) PROVE NoPayload'
  BY <1>8 DEF CreateUpload, At, Yield, TypeOK, TaskTypes
<1>10. ASSUME NEW s \in Streams, Created(s) PROVE NoPayload'
  BY <1>10 DEF Created, At, TypeOK, TaskTypes
<1>11. ASSUME NEW s \in Streams, RecvAudio(s) PROVE NoPayload'
  BY <1>11 DEF RecvAudio, At, Yield, Acquire, TypeOK, TaskTypes
<1>12. ASSUME NEW s \in Streams, AppendFrame(s) PROVE NoPayload'
  BY <1>12 DEF AppendFrame, At, Yield, TypeOK, TaskTypes
<1>13. ASSUME NEW s \in Streams, UploadPart(s) PROVE NoPayload'
  BY <1>13 DEF UploadPart, At, Stores, GivesUp, Yield, Go, TypeOK, TaskTypes
<1>14. ASSUME NEW s \in Streams, AppendSaved(s) PROVE NoPayload'
  BY <1>14 DEF AppendSaved, At, Yield, TypeOK, TaskTypes
<1>15. ASSUME NEW s \in Streams, GracefulEnd(s) PROVE NoPayload'
  BY <1>15 DEF GracefulEnd, At, Yield, Go, TypeOK, TaskTypes
<1>17. ASSUME NEW s \in Streams, BreakReading(s) PROVE NoPayload'
  BY <1>17 DEF BreakReading, At, Go, TypeOK, TaskTypes
<1>19. ASSUME NEW s \in Streams, Drop(s) PROVE NoPayload'
  BY <1>19 DEF Drop, At, Yield, Acquire, TypeOK, TaskTypes
<1>20. ASSUME NEW s \in Streams, GraceWait(s) PROVE NoPayload'
  BY <1>20 DEF GraceWait, At, Yield, TypeOK, TaskTypes
<1>21. ASSUME NEW s \in Streams, ArmTimer(s) PROVE NoPayload'
  BY <1>21 DEF ArmTimer, At, Unarmed, TypeOK, TaskTypes
<1>22. ASSUME NEW s \in Streams, TimerFires(s) PROVE NoPayload'
  BY <1>22 DEF TimerFires, At, Yield, Acquire, TypeOK, TaskTypes
<1>23. ASSUME NEW s \in Streams, Claim(s) PROVE NoPayload'
  BY <1>23 DEF Claim, At, Go, Yield, TypeOK, TaskTypes
<1>24. ASSUME NEW t \in Finalizers, BeginFinalize(t) PROVE NoPayload'
  BY <1>24 DEF BeginFinalize, At, Yield, Acquire, TypeOK, TaskTypes
<1>26. ASSUME NEW t \in Finalizers, TakeBuffer(t) PROVE NoPayload'
  BY <1>26 DEF TakeBuffer, At, Yield, TypeOK, TaskTypes
<1>27. ASSUME NEW t \in Finalizers, FlushBuffer(t) PROVE NoPayload'
  BY <1>27 DEF FlushBuffer, At, Stores, GivesUp, Yield, TypeOK, TaskTypes
<1>29. ASSUME NEW t \in Finalizers, CompleteOrAbort(t) PROVE NoPayload'
  BY <1>29 DEF CompleteOrAbort, At, Yield, TypeOK, TaskTypes
<1>28. ASSUME NEW t \in Finalizers, PopAndReport(t) PROVE NoPayload'
  BY <1>28 DEF PopAndReport, At, Yield, TypeOK, TaskTypes
<1>39. ASSUME Crash PROVE NoPayload'
  BY <1>39 DEF Crash
<1>o. ASSUME OffStage PROVE NoPayload'
  BY <1>o DEF OffStage, OffPcs
<1> QED
  BY <1>2, <1>3, <1>4, <1>5, <1>7, <1>8, <1>10, <1>11, <1>12, <1>13, <1>14, <1>15, <1>17,
     <1>19, <1>20, <1>21, <1>22, <1>23, <1>24, <1>26, <1>27, <1>29, <1>28, <1>39, <1>o,
     StageStepOrOff DEF StageStep, EndStep

\* A stream without a session is not the one whose session is at work.
LEMMA FreshIsIdle ==
    ASSUME AllInv, NEW s \in Streams, pc[Conn(s)] \in {"idle", "enter", "resume", "create"},
           NEW t \in Finalizers, pc[t] \in OwnerPcs, pc[t] \notin {"sleep", "saving"}
    PROVE  me[t] # s
  BY OwnerPlace DEF OnlyOwner, OwnerState, AllInv, TruthInv, FreshUpload

\* A stream only ever goes forward.
LEMMA StartsFresh ==
    ASSUME ~Overlap, ~BreakAnywhere, AllInv, Next, NEW r \in Streams,
           pc'[Conn(r)] \in {"idle", "enter", "resume", "create"}
    PROVE  pc[Conn(r)] \in {"idle", "enter", "resume", "create"}
<1> DEFINE Goal == pc[Conn(r)] \in {"idle", "enter", "resume", "create"}
<1> USE TaskFacts DEF AllInv, Inv
<1>2. ASSUME NEW s \in Streams, LookUp(s), registry # None PROVE Goal
  BY <1>2 DEF LookUp, At, CreationHeld, Yield, Acquire, TypeOK, TaskTypes
<1>3. ASSUME NEW s \in Streams, ResumeCancelsTimer(s) PROVE Goal
  BY <1>3, CancelTarget DEF ResumeCancelsTimer, At, TypeOK, TaskTypes
<1>4. ASSUME NEW s \in Streams, Resume(s) PROVE Goal
  BY <1>4 DEF Resume, At, Yield, TypeOK, TaskTypes
<1>5. ASSUME NEW s \in Streams, Resumed(s) PROVE Goal
  BY <1>5 DEF Resumed, At, Yield, TypeOK, TaskTypes
<1>7. ASSUME NEW s \in Streams, DropStale(s) PROVE Goal
  BY <1>7 DEF DropStale, At, Yield, TypeOK, TaskTypes
<1>8. ASSUME NEW s \in Streams, CreateUpload(s) PROVE Goal
  BY <1>8 DEF CreateUpload, At, Yield, TypeOK, TaskTypes
<1>10. ASSUME NEW s \in Streams, Created(s) PROVE Goal
  BY <1>10 DEF Created, At, TypeOK, TaskTypes
<1>11. ASSUME NEW s \in Streams, RecvAudio(s) PROVE Goal
  BY <1>11 DEF RecvAudio, At, Yield, Acquire, TypeOK, TaskTypes
<1>12. ASSUME NEW s \in Streams, AppendFrame(s) PROVE Goal
  BY <1>12 DEF AppendFrame, At, Yield, TypeOK, TaskTypes
<1>13. ASSUME NEW s \in Streams, UploadPart(s) PROVE Goal
  BY <1>13 DEF UploadPart, At, Stores, GivesUp, Yield, Go, TypeOK, TaskTypes
<1>14. ASSUME NEW s \in Streams, AppendSaved(s) PROVE Goal
  BY <1>14 DEF AppendSaved, At, Yield, TypeOK, TaskTypes
<1>15. ASSUME NEW s \in Streams, GracefulEnd(s) PROVE Goal
  BY <1>15 DEF GracefulEnd, At, Yield, Go, TypeOK, TaskTypes
<1>17. ASSUME NEW s \in Streams, BreakReading(s) PROVE Goal
  BY <1>17 DEF BreakReading, At, Go, TypeOK, TaskTypes
<1>19. ASSUME NEW s \in Streams, Drop(s) PROVE Goal
  BY <1>19 DEF Drop, At, Yield, Acquire, TypeOK, TaskTypes
<1>20. ASSUME NEW s \in Streams, GraceWait(s) PROVE Goal
  BY <1>20 DEF GraceWait, At, Yield, TypeOK, TaskTypes
<1>21. ASSUME NEW s \in Streams, ArmTimer(s) PROVE Goal
  BY <1>21 DEF ArmTimer, At, TypeOK, TaskTypes
<1>22. ASSUME NEW s \in Streams, TimerFires(s) PROVE Goal
  BY <1>22 DEF TimerFires, At, Yield, Acquire, TypeOK, TaskTypes
<1>23. ASSUME NEW s \in Streams, Claim(s) PROVE Goal
  BY <1>23 DEF Claim, At, Go, Yield, TypeOK, TaskTypes
<1>24. ASSUME NEW t \in Finalizers, BeginFinalize(t) PROVE Goal
  BY <1>24 DEF BeginFinalize, At, Yield, Acquire, TypeOK, TaskTypes
<1>26. ASSUME NEW t \in Finalizers, TakeBuffer(t) PROVE Goal
  BY <1>26 DEF TakeBuffer, At, Yield, TypeOK, TaskTypes
<1>27. ASSUME NEW t \in Finalizers, FlushBuffer(t) PROVE Goal
  BY <1>27 DEF FlushBuffer, At, Stores, GivesUp, Yield, TypeOK, TaskTypes
<1>29. ASSUME NEW t \in Finalizers, CompleteOrAbort(t) PROVE Goal
  BY <1>29 DEF CompleteOrAbort, At, Yield, TypeOK, TaskTypes
<1>28. ASSUME NEW t \in Finalizers, PopAndReport(t) PROVE Goal
  BY <1>28 DEF PopAndReport, At, Yield, TypeOK, TaskTypes
<1>39. ASSUME Crash PROVE Goal
  BY <1>39 DEF Crash, TypeOK, TaskTypes
<1>o. ASSUME OffStage PROVE Goal
  BY <1>o DEF OffStage, OffPcs, FreshPcs
<1> QED
  BY <1>2, <1>3, <1>4, <1>5, <1>7, <1>8, <1>10, <1>11, <1>12, <1>13, <1>14, <1>15, <1>17,
     <1>19, <1>20, <1>21, <1>22, <1>23, <1>24, <1>26, <1>27, <1>29, <1>28, <1>39, <1>o,
     StageStepOrOff DEF StageStep, EndStep

\* FreshCounts is inductive.
LEMMA FreshCountsStep ==
    ASSUME ~Overlap, ~BreakAnywhere, AllInv, NoPayload, FreshCounts, Next
    PROVE  FreshCounts'
<1> SUFFICES ASSUME NEW s \in Streams,
                    pc'[Conn(s)] \in {"idle", "enter", "resume", "create"}
             PROVE  buffer'[s] = 0 /\ received'[s] = 0 /\ lost'[s] = 0
  BY DEF FreshCounts
<1> USE TaskFacts DEF AllInv, Inv
<1>1. pc[Conn(s)] \in {"idle", "enter", "resume", "create"}
  BY StartsFresh
<1>2. buffer[s] = 0 /\ received[s] = 0 /\ lost[s] = 0
  BY <1>1 DEF FreshCounts
<1>3. CASE Crash
  BY <1>2, <1>3 DEF Crash
<1>4. ASSUME NEW r \in Streams, AppendFrame(r)
      PROVE  received'[s] = received[s] /\ buffer'[s] = buffer[s]
  <2>1. me[Conn(r)] # s
    BY <1>1, <1>4, FreshIsIdle DEF AppendFrame, At, OwnerPcs, RecordingPcs
  <2> QED
    BY <1>4, <2>1 DEF AppendFrame, TypeOK, MemoryTypes
<1>5. ASSUME NEW r \in Streams, UploadPart(r) PROVE lost'[s] = lost[s]
  <2>1. me[Conn(r)] # s
    BY <1>1, <1>5, FreshIsIdle DEF UploadPart, At, OwnerPcs, RecordingPcs
  <2> QED
    BY <1>5, <2>1 DEF UploadPart, Stores, GivesUp, TypeOK, WorldTypes
<1>6. ASSUME NEW t \in Finalizers, FlushBuffer(t) PROVE lost'[s] = lost[s]
  <2>1. me[t] # s
    BY <1>1, <1>6, FreshIsIdle DEF FlushBuffer, At, OwnerPcs, EndingPcs
  <2> QED
    BY <1>6, <2>1 DEF FlushBuffer, Stores, GivesUp, TypeOK, WorldTypes
<1>7. ASSUME NEW t \in Finalizers, TakeBuffer(t) PROVE buffer'[s] = buffer[s]
  <2>1. me[t] # s
    BY <1>1, <1>7, FreshIsIdle DEF TakeBuffer, At, OwnerPcs, EndingPcs
  <2> QED
    BY <1>7, <2>1 DEF TakeBuffer, TypeOK, MemoryTypes
<1> QED
  BY <1>2, <1>3, <1>4, <1>5, <1>6, <1>7, CountMoves

\* A step that only moves a task between places where it carries nothing.
LEMMA AcquireCounts ==
    ASSUME Inv, CountInv, NEW t \in Finalizers,
           pc[t] \notin LoadedPcs \cup {"complete", "saving"},
           UNCHANGED <<registry, sess, payload, buffer, received, lost>>,
           pc'[t] \notin LoadedPcs \cup {"complete", "saving"},
           \A f \in Finalizers : f # t => pc'[f] = pc[f]
    PROVE  Counted'
<1>1. \A f \in Finalizers :
        /\ pc'[f] \in LoadedPcs => pc[f] \in LoadedPcs
        /\ pc[f] \in LoadedPcs => pc'[f] \in LoadedPcs
        /\ pc'[f] \in {"flush", "complete", "saving"} =>
             pc[f] \in {"flush", "complete", "saving"}
  BY TaskFacts DEF LoadedPcs, Inv, TypeOK, TaskTypes
<1> QED
  BY <1>1 DEF CountInv, Counted, Balance

\* Counted is inductive: chunks are added by their stream, taken out, then stored or
\* given up, each time by the task that answers for the session.
LEMMA CountedStep ==
    ASSUME ~Overlap, ~BreakAnywhere, AllInv, Unarmed, CountInv, Next
    PROVE  Counted'
<1> USE TaskFacts DEF AllInv, Inv, CountInv
<1>2. ASSUME NEW s \in Streams, LookUp(s), registry # None PROVE Counted'
  <2>1. /\ pc[Conn(s)] \notin LoadedPcs \cup {"complete", "saving"}
        /\ pc'[Conn(s)] \notin LoadedPcs \cup {"complete", "saving"}
        /\ \A f \in Finalizers : f # Conn(s) => pc'[f] = pc[f]
    BY <1>2 DEF LookUp, At, Acquire, Yield, LoadedPcs, TypeOK, TaskTypes
  <2> QED
    BY <1>2, <2>1, AcquireCounts DEF LookUp, memoryVars
<1>3. ASSUME NEW s \in Streams, ResumeCancelsTimer(s) PROVE Counted'
  <2> DEFINE g == Grace(graceTask[registry])
  <2>1. registry = me[Conn(s)] /\ g \in Finalizers /\ pc[g] = "sleep" /\ payload[g] = 0
    BY <1>3, CancelledSleeps DEF OnlyOwner, OwnerState, NoPayload, LoadedPcs, Finalizers
  <2>2. /\ registry' = registry /\ sess' = sess /\ buffer' = buffer /\ received' = received
        /\ \A f \in Finalizers : f # g => pc'[f] = pc[f] /\ payload'[f] = payload[f]
        /\ pc'[g] = "end"
    BY <1>3, <2>1 DEF ResumeCancelsTimer, Cancelled, TypeOK, TaskTypes
  <2>3. lost'[registry] = lost[registry]
    BY <1>3, <2>1 DEF ResumeCancelsTimer, Cancelled, TypeOK, LockTypes, WorldTypes, Holds
  <2> QED
    BY <2>1, <2>2, <2>3 DEF Counted, Balance, LoadedPcs
<1>4. ASSUME NEW s \in Streams, Resume(s) PROVE Counted'
  <2>1. PICK st : sess' = sess \/ sess' = [sess EXCEPT ![me[Conn(s)]].status = st]
    BY <1>4 DEF Resume
  <2>2. registry \in Streams => sess'[registry].stored = sess[registry].stored
    BY <2>1, StatusSet DEF TypeOK, TaskTypes
  <2> QED
    BY <1>4, <2>2
       DEF Resume, At, Yield, Go, Counted, Balance, LoadedPcs, TypeOK, TaskTypes, LockTypes
<1>5. ASSUME NEW s \in Streams, Resumed(s) PROVE Counted'
  BY <1>5
     DEF Resumed, At, Yield, s3Vars, memoryVars, Counted, Balance, LoadedPcs, TypeOK,
         TaskTypes
<1>7. ASSUME NEW s \in Streams, DropStale(s) PROVE Counted'
  BY <1>7, StaleIsPopped DEF DropStale, At, Yield, Counted, Balance, LoadedPcs
<1>8. ASSUME NEW s \in Streams, CreateUpload(s) PROVE Counted'
  <2>1. registry = None /\ registry' = s
    BY <1>8 DEF CreateUpload, At, PutNeverClobbers
  <2>2. \A t \in Finalizers : pc[t] \notin LoadedPcs \cup {"complete", "saving"}
    BY <2>1, OwnerFacts DEF Owns, OwnerPcs, RecordingPcs, EndingPcs, LoadedPcs
  <2>3. \A t \in Finalizers : pc'[t] \notin LoadedPcs \cup {"complete", "saving"}
    BY <1>8, <2>2 DEF CreateUpload, Yield, TypeOK, TaskTypes, LoadedPcs
  <2>4. buffer'[s] = 0 /\ received'[s] = 0 /\ lost'[s] = 0 /\ sess'[s].stored = 0
    BY <1>8 DEF CreateUpload, At, FreshCounts, NewSession, TypeOK, MemoryTypes
  <2> QED
    BY <2>1, <2>3, <2>4 DEF Counted, Balance, LoadedPcs
<1>10. ASSUME NEW s \in Streams, Created(s) PROVE Counted'
  <2>1. /\ pc[Conn(s)] \notin LoadedPcs \cup {"complete", "saving"}
        /\ pc'[Conn(s)] \notin LoadedPcs \cup {"complete", "saving"}
        /\ \A f \in Finalizers : f # Conn(s) => pc'[f] = pc[f]
    BY <1>10 DEF Created, At, LoadedPcs, TypeOK, TaskTypes
  <2> QED
    BY <1>10, <2>1, AcquireCounts DEF Created, memoryVars
<1>11. ASSUME NEW s \in Streams, RecvAudio(s) PROVE Counted'
  <2>1. /\ pc[Conn(s)] \notin LoadedPcs \cup {"complete", "saving"}
        /\ pc'[Conn(s)] \notin LoadedPcs \cup {"complete", "saving"}
        /\ \A f \in Finalizers : f # Conn(s) => pc'[f] = pc[f]
    BY <1>11 DEF RecvAudio, At, Acquire, Yield, LoadedPcs, TypeOK, TaskTypes
  <2> QED
    BY <1>11, <2>1, AcquireCounts DEF RecvAudio, memoryVars
<1>12. ASSUME NEW s \in Streams, AppendFrame(s) PROVE Counted'
  <2>1. registry \in Streams /\ registry # None /\ me[Conn(s)] = registry /\ Conn(s) \in Tasks
    BY <1>12, OwnerFacts, StreamsAssumption
       DEF AppendFrame, At, OnlyOwner, OwnerState, Owns, OwnerPcs, RecordingPcs, EndingPcs
  <2>2. \A f \in Finalizers : f # Conn(s) => pc[f] \notin LoadedPcs \cup {"complete", "saving"}
    BY <1>12, OwnerFacts
       DEF AppendFrame, At, OnlyOwner, Owns, OwnerPcs, RecordingPcs, EndingPcs, LoadedPcs
  <2>3. Balance(0)
    BY <1>12, <2>1, <2>2 DEF AppendFrame, At, Counted, LoadedPcs
  <2> DEFINE n == buffer[registry] + 1
  <2>4. /\ registry' = registry /\ sess' = sess /\ lost' = lost
        /\ received'[registry] = received[registry] + 1
        /\ \A f \in Finalizers : f # Conn(s) => pc'[f] = pc[f]
    BY <1>12, <2>1 DEF AppendFrame, Yield, TypeOK, TaskTypes, MemoryTypes
  <2>5. CASE PartFull(n)
    <3>1. /\ pc'[Conn(s)] = "upload" /\ payload'[Conn(s)] = PartSize
          /\ buffer'[registry] = n - PartSize
      BY <1>12, <2>1, <2>5 DEF AppendFrame, Yield, TypeOK, TaskTypes, MemoryTypes
    <3>2. Balance(payload[Conn(s)])'
      BY <2>1, <2>3, <2>4, <2>5, <3>1, BoundsAssumption
         DEF Balance, PartFull, TypeOK, MemoryTypes, WorldTypes, Session
    <3> QED
      BY <2>2, <2>4, <3>1, <3>2 DEF Counted, LoadedPcs
  <2>6. CASE ~PartFull(n)
    <3>1. pc'[Conn(s)] = "appsaving" /\ buffer'[registry] = n
      BY <1>12, <2>1, <2>6 DEF AppendFrame, Yield, TypeOK, TaskTypes, MemoryTypes
    <3>2. Balance(0)'
      BY <2>1, <2>3, <2>4, <3>1 DEF Balance, TypeOK, MemoryTypes, WorldTypes, Session
    <3> QED
      BY <2>2, <2>4, <3>1, <3>2 DEF Counted, LoadedPcs
  <2> QED
    BY <2>5, <2>6
<1>13. ASSUME NEW s \in Streams, UploadPart(s) PROVE Counted'
  <2>1. registry \in Streams /\ registry # None /\ me[Conn(s)] = registry /\ Conn(s) \in Tasks
    BY <1>13, OwnerFacts, StreamsAssumption
       DEF UploadPart, At, OnlyOwner, OwnerState, Owns, OwnerPcs, RecordingPcs, EndingPcs
  <2>2. \A f \in Finalizers : f # Conn(s) => pc[f] \notin LoadedPcs \cup {"complete", "saving"}
    BY <1>13, OwnerFacts
       DEF UploadPart, At, OnlyOwner, Owns, OwnerPcs, RecordingPcs, EndingPcs, LoadedPcs
  <2>3. Balance(payload[Conn(s)])
    BY <1>13, <2>1 DEF UploadPart, At, Counted, LoadedPcs
  <2>4. /\ registry' = registry /\ buffer' = buffer /\ received' = received
        /\ pc'[Conn(s)] \in {"appsaving", "broken"} /\ payload'[Conn(s)] = 0
        /\ \A f \in Finalizers : f # Conn(s) => pc'[f] = pc[f]
    BY <1>13, <2>1 DEF UploadPart, Stores, GivesUp, Yield, Go, TypeOK, TaskTypes
  <2>5. \/ sess'[registry].stored = sess[registry].stored + payload[Conn(s)] /\ lost' = lost
        \/ sess' = sess /\ lost'[registry] = lost[registry] + payload[Conn(s)]
    BY <1>13, <2>1, StoredSet DEF UploadPart, Stores, GivesUp, TypeOK, WorldTypes
  <2>6. Balance(0)'
    BY <2>1, <2>3, <2>4, <2>5 DEF Balance, TypeOK, TaskTypes, MemoryTypes, WorldTypes, Session
  <2> QED
    BY <2>1, <2>2, <2>4, <2>6 DEF Counted, LoadedPcs
<1>14. ASSUME NEW s \in Streams, AppendSaved(s) PROVE Counted'
  BY <1>14
     DEF AppendSaved, At, Yield, s3Vars, memoryVars, Counted, Balance, LoadedPcs, TypeOK,
         TaskTypes
<1>15. ASSUME NEW s \in Streams, GracefulEnd(s) PROVE Counted'
  BY <1>15
     DEF GracefulEnd, At, Yield, Go, s3Vars, memoryVars, Counted, Balance, LoadedPcs,
         TypeOK, TaskTypes
<1>17. ASSUME NEW s \in Streams, BreakReading(s) PROVE Counted'
  BY <1>17
     DEF BreakReading, At, Go, s3Vars, memoryVars, Counted, Balance, LoadedPcs, TypeOK,
         TaskTypes
<1>19. ASSUME NEW s \in Streams, Drop(s) PROVE Counted'
  <2>1. /\ pc[Conn(s)] \notin LoadedPcs \cup {"complete", "saving"}
        /\ pc'[Conn(s)] \notin LoadedPcs \cup {"complete", "saving"}
        /\ \A f \in Finalizers : f # Conn(s) => pc'[f] = pc[f]
    BY <1>19 DEF Drop, At, Acquire, Yield, LoadedPcs, TypeOK, TaskTypes
  <2> QED
    BY <1>19, <2>1, AcquireCounts DEF Drop, memoryVars
<1>20. ASSUME NEW s \in Streams, GraceWait(s) PROVE Counted'
  <2>1. PICK st : sess' = sess \/ sess' = [sess EXCEPT ![me[Conn(s)]].status = st]
    BY <1>20 DEF GraceWait
  <2>2. registry \in Streams => sess'[registry].stored = sess[registry].stored
    BY <2>1, StatusSet DEF TypeOK, TaskTypes
  <2> QED
    BY <1>20, <2>2
       DEF GraceWait, At, Yield, Go, Counted, Balance, LoadedPcs, TypeOK, TaskTypes, LockTypes
<1>21. ASSUME NEW s \in Streams, ArmTimer(s) PROVE Counted'
  BY <1>21 DEF ArmTimer, At, Unarmed, Counted, Balance, LoadedPcs, TypeOK, TaskTypes
<1>22. ASSUME NEW s \in Streams, TimerFires(s) PROVE Counted'
  <2>1. /\ pc[Grace(s)] \notin LoadedPcs \cup {"complete", "saving"}
        /\ pc'[Grace(s)] \notin LoadedPcs \cup {"complete", "saving"}
        /\ \A f \in Finalizers : f # Grace(s) => pc'[f] = pc[f]
    BY <1>22 DEF TimerFires, At, Acquire, Yield, LoadedPcs, TypeOK, TaskTypes
  <2> QED
    BY <1>22, <2>1, AcquireCounts DEF TimerFires, memoryVars
<1>23. ASSUME NEW s \in Streams, Claim(s) PROVE Counted'
  <2>1. PICK st : sess' = sess \/ sess' = [sess EXCEPT ![me[Grace(s)]].status = st]
    BY <1>23 DEF Claim
  <2>2. registry \in Streams => sess'[registry].stored = sess[registry].stored
    BY <2>1, StatusSet DEF TypeOK, TaskTypes
  <2> QED
    BY <1>23, <2>2
       DEF Claim, At, Yield, Go, Counted, Balance, LoadedPcs, TypeOK, TaskTypes, LockTypes
<1>24. ASSUME NEW t \in Finalizers, BeginFinalize(t) PROVE Counted'
  <2>1. /\ pc[t] \notin LoadedPcs \cup {"complete", "saving"}
        /\ pc'[t] \notin LoadedPcs \cup {"complete", "saving"}
        /\ \A f \in Finalizers : f # t => pc'[f] = pc[f]
    BY <1>24 DEF BeginFinalize, At, Acquire, Yield, LoadedPcs, TypeOK, TaskTypes
  <2> QED
    BY <1>24, <2>1, AcquireCounts DEF BeginFinalize, memoryVars
<1>26. ASSUME NEW t \in Finalizers, TakeBuffer(t) PROVE Counted'
  <2>1. registry \in Streams /\ registry # None /\ me[t] = registry /\ t \in Tasks
    BY <1>26, OwnerFacts, StreamsAssumption
       DEF TakeBuffer, At, OnlyOwner, OwnerState, Owns, OwnerPcs, RecordingPcs, EndingPcs
  <2>2. \A f \in Finalizers : f # t => pc[f] \notin LoadedPcs \cup {"complete", "saving"}
    BY <1>26, OwnerFacts
       DEF TakeBuffer, At, OnlyOwner, Owns, OwnerPcs, RecordingPcs, EndingPcs, LoadedPcs
  <2>3. Balance(0)
    BY <1>26, <2>1, <2>2 DEF TakeBuffer, At, Counted, LoadedPcs
  <2>4. /\ registry' = registry /\ sess' = sess /\ lost' = lost /\ received' = received
        /\ buffer'[registry] = 0 /\ payload'[t] = buffer[registry]
        /\ \/ pc'[t] = "flush"
           \/ pc'[t] = "complete" /\ payload'[t] = 0
        /\ \A f \in Finalizers : f # t => pc'[f] = pc[f]
    BY <1>26, <2>1 DEF TakeBuffer, FlushNeeded, Yield, TypeOK, TaskTypes, MemoryTypes
  <2>5. Balance(payload[t])'
    BY <2>1, <2>3, <2>4 DEF Balance, TypeOK, MemoryTypes, WorldTypes, Session
  <2> QED
    BY <2>2, <2>4, <2>5 DEF Counted, LoadedPcs
<1>27. ASSUME NEW t \in Finalizers, FlushBuffer(t) PROVE Counted'
  <2>1. registry \in Streams /\ registry # None /\ me[t] = registry /\ t \in Tasks
    BY <1>27, OwnerFacts, StreamsAssumption
       DEF FlushBuffer, At, OnlyOwner, OwnerState, Owns, OwnerPcs, RecordingPcs, EndingPcs
  <2>2. \A f \in Finalizers : f # t => pc[f] \notin LoadedPcs \cup {"complete", "saving"}
    BY <1>27, OwnerFacts
       DEF FlushBuffer, At, OnlyOwner, Owns, OwnerPcs, RecordingPcs, EndingPcs, LoadedPcs
  <2>3. Balance(payload[t])
    BY <1>27, <2>1 DEF FlushBuffer, At, Counted, LoadedPcs
  <2>4. /\ registry' = registry /\ buffer' = buffer /\ received' = received
        /\ pc'[t] \in {"complete"} /\ payload'[t] = 0
        /\ \A f \in Finalizers : f # t => pc'[f] = pc[f]
    BY <1>27, <2>1 DEF FlushBuffer, Stores, GivesUp, Yield, Go, TypeOK, TaskTypes
  <2>5. \/ sess'[registry].stored = sess[registry].stored + payload[t] /\ lost' = lost
        \/ sess' = sess /\ lost'[registry] = lost[registry] + payload[t]
    BY <1>27, <2>1, StoredSet DEF FlushBuffer, Stores, GivesUp, TypeOK, WorldTypes
  <2>6. Balance(0)'
    BY <2>1, <2>3, <2>4, <2>5 DEF Balance, TypeOK, TaskTypes, MemoryTypes, WorldTypes, Session
  <2> QED
    BY <1>27, <2>1, <2>2, <2>4, <2>6 DEF FlushBuffer, At, Counted, LoadedPcs
<1>29. ASSUME NEW t \in Finalizers, CompleteOrAbort(t) PROVE Counted'
  <2>1. registry \in Streams /\ registry # None /\ me[t] = registry /\ t \in Tasks
    BY <1>29, OwnerFacts, StreamsAssumption
       DEF CompleteOrAbort, At, OnlyOwner, OwnerState, Owns, OwnerPcs, RecordingPcs, EndingPcs
  <2>2. \A f \in Finalizers : f # t => pc[f] \notin LoadedPcs \cup {"complete", "saving"}
    BY <1>29, OwnerFacts
       DEF CompleteOrAbort, At, OnlyOwner, Owns, OwnerPcs, RecordingPcs, EndingPcs, LoadedPcs
  <2>3. Balance(0) /\ buffer[registry] = 0
    BY <1>29, <2>1, <2>2 DEF CompleteOrAbort, At, Counted, LoadedPcs
  <2>4. PICK st : sess' = [sess EXCEPT ![me[t]].status = st]
    BY <1>29 DEF CompleteOrAbort
  <2>5. /\ registry' = registry /\ lost' = lost /\ received' = received /\ buffer' = buffer
        /\ sess'[registry].stored = sess[registry].stored /\ pc'[t] = "saving"
        /\ \A f \in Finalizers : f # t => pc'[f] = pc[f]
    BY <1>29, <2>1, <2>4, StatusSet DEF CompleteOrAbort, Yield, TypeOK, TaskTypes
  <2> QED
    BY <2>2, <2>3, <2>5 DEF Counted, Balance, LoadedPcs
<1>28. ASSUME NEW t \in Finalizers, PopAndReport(t) PROVE Counted'
  BY <1>28 DEF PopAndReport, At, Yield, Counted
<1>39. ASSUME Crash PROVE Counted'
  BY <1>39 DEF Crash, Counted
<1>o. ASSUME OffStage PROVE Counted'
  <2>1. \A f \in Finalizers : /\ pc[f] \in LoadedPcs \cup {"complete", "saving"} <=>
                                 pc'[f] \in LoadedPcs \cup {"complete", "saving"}
                              /\ pc[f] \in LoadedPcs => pc'[f] = pc[f]
                              /\ pc'[f] \in LoadedPcs => pc'[f] = pc[f]
    BY <1>o DEF OffStage, OffPcs, LoadedPcs
  <2>2. \A u \in Streams : lost'[u] = lost[u]
    <3>1. ASSUME NEW s \in Streams, UploadPart(s) PROVE FALSE
      BY <1>o, <3>1 DEF UploadPart, At, Yield, Go, OffStage, OffPcs, TypeOK, TaskTypes
    <3>2. ASSUME NEW t \in Finalizers, FlushBuffer(t) PROVE FALSE
      BY <1>o, <3>2 DEF FlushBuffer, At, Yield, OffStage, OffPcs, TypeOK, TaskTypes
    <3>3. CASE Crash
      BY <3>3 DEF Crash
    <3> QED
      BY <3>1, <3>2, <3>3, CountMoves
  <2>3. registry' = registry /\ buffer' = buffer /\ received' = received
    BY <1>o DEF OffStage
  <2>4. registry \in Streams => sess'[registry] = sess[registry]
    BY <1>o DEF OffStage
  <2>5. \A f \in Finalizers : payload'[f] = payload[f]
    BY <1>o DEF OffStage
  <2>6. \A f \in Finalizers : pc'[f] \in {"flush", "complete", "saving"} =>
                                pc[f] \in {"flush", "complete", "saving"}
    BY <1>o DEF OffStage, OffPcs
  <2> QED
    BY <2>1, <2>2, <2>3, <2>4, <2>5, <2>6 DEF Counted, Balance, TypeOK, LockTypes
<1> QED
  BY <1>2, <1>3, <1>4, <1>5, <1>7, <1>8, <1>10, <1>11, <1>12, <1>13, <1>14, <1>15, <1>17,
     <1>19, <1>20, <1>21, <1>22, <1>23, <1>24, <1>26, <1>27, <1>29, <1>28, <1>39, <1>o,
     StageStepOrOff DEF StageStep, EndStep

\* The counts at first ...
LEMMA CountInit == Init => CountInv
  BY TaskFacts, StreamsAssumption
     DEF Init, CountInv, NoPayload, FreshCounts, Counted, LoadedPcs, NoSession

\* ... and after every step.
LEMMA CountStep ==
    ASSUME ~Overlap, ~BreakAnywhere, AllInv, Unarmed, CountInv, [Next]_vars
    PROVE  CountInv'
<1>1. CASE Next
  BY <1>1, NoPayloadStep, FreshCountsStep, CountedStep DEF CountInv
<1>2. CASE UNCHANGED vars
  BY <1>2
     DEF vars, localVars, memoryVars, s3Vars, CountInv, NoPayload, FreshCounts, Counted,
         Balance, LoadedPcs
<1> QED
  BY <1>1, <1>2

\* Whoever adds to the counts works on the registered session, whose upload is open.
LEMMA FedIsOpen ==
    ASSUME AllInv, NEW t \in Finalizers, pc[t] \in {"append", "upload", "flush"}
    PROVE  me[t] = registry /\ registry \in Streams /\ upload[registry] = "open"
  BY OwnerFacts
     DEF OnlyOwner, OwnerState, Owns, OwnerPcs, RecordingPcs, EndingPcs

\* What a finalizer closes in the bucket is all there is of its session.
LEMMA ClosedInFull ==
    ASSUME AllInv, OwnDoc, CountInv, NEW t \in Finalizers, CompleteOrAbort(t)
    PROVE  \/ UNCHANGED s3Vars
           \/ /\ \A u \in Streams \ {registry} :
                   upload'[u] = upload[u] /\ object'[u] = object[u]
              /\ registry \in Streams /\ object'[registry] + lost[registry] = received[registry]
<1>1. /\ registry \in Streams /\ registry # None /\ me[t] = registry
      /\ sess[registry].upload = registry
  BY OwnerFacts, StreamsAssumption
     DEF CompleteOrAbort, At, OnlyOwner, OwnerState, Owns, OwnerPcs, EndingPcs, OwnDoc
<1>2. \A f \in Finalizers : pc[f] \notin LoadedPcs
  BY OwnerFacts
     DEF CompleteOrAbort, At, OnlyOwner, Owns, OwnerPcs, RecordingPcs, EndingPcs, LoadedPcs
<1>3. sess[registry].stored + lost[registry] = received[registry]
  <2>1. Balance(0) /\ buffer[registry] = 0
    BY <1>1, <1>2 DEF CompleteOrAbort, At, CountInv, Counted
  <2> QED
    BY <1>1, <2>1
       DEF Balance, AllInv, Inv, TypeOK, MemoryTypes, WorldTypes, Session
<1>4. CASE Closes(sess[registry])
  <2>1. /\ object'[registry] = sess[registry].stored
        /\ \A u \in Streams \ {registry} : upload'[u] = upload[u] /\ object'[u] = object[u]
    BY <1>1, <1>4 DEF Closes, AllInv, Inv, TypeOK, WorldTypes
  <2> QED
    BY <1>1, <1>3, <2>1
<1> QED
  BY <1>1, <1>4 DEF CompleteOrAbort

\* Until the first crash, a step leaves every completed object whole.
LEMMA CompletedHoldsAllStep ==
    ASSUME ~Overlap, ~BreakAnywhere, AllInv, FileInv, CountInv,
           crashes = 0, CompletedHoldsAll, Next, ~Crash
    PROVE  CompletedHoldsAll'
<1> SUFFICES ASSUME NEW u \in Streams, upload'[u] = "completed"
             PROVE  object'[u] + lost'[u] = received'[u]
  BY DEF CompletedHoldsAll
<1> USE TaskFacts DEF AllInv, Inv, FileInv, CountInv
<1>1. ASSUME NEW s \in Streams, AppendFrame(s)
      PROVE  upload[u] = "completed" => received'[u] = received[u]
  <2>1. me[Conn(s)] = registry /\ upload[registry] = "open"
    BY <1>1, FedIsOpen DEF AppendFrame, At
  <2> QED
    BY <1>1, <2>1 DEF AppendFrame, TypeOK, MemoryTypes
<1>2. ASSUME NEW t \in Finalizers, me[t] = registry, upload[registry] = "open",
             Stores(t) \/ GivesUp(t)
      PROVE  upload[u] = "completed" => lost'[u] = lost[u]
  BY <1>2 DEF Stores, GivesUp, TypeOK, WorldTypes
<1>3. upload[u] = "completed" => lost'[u] = lost[u] /\ received'[u] = received[u]
  <2>1. ASSUME NEW s \in Streams, UploadPart(s)
        PROVE  upload[u] = "completed" => lost'[u] = lost[u]
    BY <1>2, <2>1, FedIsOpen DEF UploadPart, At
  <2>2. ASSUME NEW t \in Finalizers, FlushBuffer(t)
        PROVE  upload[u] = "completed" => lost'[u] = lost[u]
    BY <1>2, <2>2, FedIsOpen DEF FlushBuffer, At
  <2> QED
    BY <1>1, <2>1, <2>2, CountMoves
<1>4. CASE upload'[u] = upload[u] /\ object'[u] = object[u]
  BY <1>3, <1>4 DEF CompletedHoldsAll
<1>5. ASSUME NEW s \in Streams, CreateUpload(s)
      PROVE  upload'[u] = upload[u] /\ object'[u] = object[u]
  BY <1>5 DEF CreateUpload, TypeOK, WorldTypes
<1>6. ASSUME NEW t \in Finalizers, CompleteOrAbort(t)
      PROVE  object'[u] + lost'[u] = received'[u]
  <2>1. lost' = lost /\ received' = received
    BY <1>6 DEF CompleteOrAbort
  <2> QED
    BY <1>4, <1>6, <2>1, ClosedInFull DEF s3Vars
<1>7. ~CompleteOrAbort(Reconciler)
  BY DEF CompleteOrAbort, At, Repaired
<1> QED
  BY <1>4, <1>5, <1>6, <1>7, CountMoves

\* Until the first crash, and while recording.started is not overtaken, connections break
\* between two messages only, streams never overlap and the disk does not fail, an object
\* that S3 completed holds every chunk accepted for it but for the parts given up
\* (finalize_recording.py, append_audio.py).
THEOREM CompletedHoldsAllAlways ==
    ASSUME ~Overlap, ~BreakAnywhere, ~ScanLag, ~LateStarted, "disk" \notin Faults
    PROVE  Spec => [](crashes = 0 => CompletedHoldsAll)
<1> DEFINE Whole == crashes = 0 => CompletedHoldsAll
<1> DEFINE I == AllInv /\ FileInv /\ CountInv /\ Whole
<1>1. Init => I
  BY AllInit, FileInit, CountInit DEF Init, CompletedHoldsAll
<1>2. I /\ [Next]_vars => I'
  <2> SUFFICES ASSUME I, [Next]_vars PROVE I'
    OBVIOUS
  <2>1. AllInv' /\ FileInv' /\ CountInv'
    BY AllStep, FileStep, CountStep DEF FileInv
  <2>2. CASE Crash
    BY <2>1, <2>2 DEF Crash, AllInv, Inv, TypeOK, WorldTypes
  <2>3. CASE Next /\ ~Crash
    <3>1. crashes' = crashes
      BY <2>3, NextFrames DEF AllInv, Inv
    <3> QED
      BY <2>1, <2>3, <3>1, CompletedHoldsAllStep
  <2>4. CASE UNCHANGED vars
    BY <2>1, <2>4 DEF vars, s3Vars, memoryVars, CompletedHoldsAll
  <2> QED
    BY <2>2, <2>3, <2>4
<1>3. I => Whole
  OBVIOUS
<1> QED
  BY <1>1, <1>2, <1>3, PTL DEF Spec

--------------------------------------------------------------------------------
(* One stream: what the state file is good for after a crash                *)

OneStream == \A r, s \in Streams : r = s
FedPcs == {"newsaving", "open"} \cup AppendPcs
Outcomes == {"completed", "failed"}

\* Until a stream has its session there is none to recover.
Beginning ==
    \A s \in Streams :
        /\ pc[Conn(s)] \notin {"resume", "resaving"}
        /\ pc[Conn(s)] \in FreshPcs => file = NoSession /\ pc[Reconciler] = "idle"

\* While it feeds its session the reconciler leaves it alone, and it goes on only when the
\* document it has saved is in the file.
Current ==
    \A s \in Streams :
        /\ pc[Conn(s)] \in FedPcs => pc[Reconciler] \in {"idle", "check"}
        /\ pc[Conn(s)] \in {"newsaving", "appsaving"} /\ write[Conn(s)] = {} => file = sess[s]
        /\ pc[Conn(s)] = "open" => file = sess[s]

\* The file names an upload unless it is empty, and so does what the reconciler works on.
Named ==
    /\ file = NoSession \/ file.upload \in Streams
    /\ pc[Reconciler] # "idle" => sess[None].upload \in Streams

\* A registered session is in the file, but for its first save; a closed upload stays there
\* until the orchestrator has been told.
OnDisk ==
    registry # None =>
        file.upload = registry \/ (pc[Conn(registry)] = "newsaving" /\ write[Conn(registry)] # {})
ClosedOnDisk ==
    \A u \in Streams :
        \/ upload[u] \in {"none", "open"} \/ file.upload = u \/ told[u] \cap Outcomes # {}

\* Only a session whose outcome has been told is erased.
ErasedTold ==
    \A t \in Finalizers \cup {Reconciler} : pc[t] \in {"acked", "deleting"} =>
        \A u \in Streams : told[u] \cap Outcomes # {}

DiskInv == Beginning /\ Current /\ Named /\ OnDisk /\ ClosedOnDisk /\ ErasedTold

\* Nothing is registered or written for a stream that has no session yet.
LEMMA NoneYet ==
    ASSUME OneStream, AllInv, FileInv, Beginning, NEW s \in Streams, pc[Conn(s)] \in FreshPcs
    PROVE  registry = None /\ \A t \in Tasks : write[t] = {}
<1> USE TaskFacts DEF AllInv, SeqInv, FileInv
<1>1. pc[Grace(s)] = "idle" /\ pc[Started(s)] \in {"idle", "end"} /\ pc[Reconciler] = "idle"
  BY DEF Unarmed, StartedWaits, Beginning, FreshPcs
<1>2. \A t \in Tasks : t \in {Conn(s), Grace(s), Started(s), Reconciler}
  BY DEF Tasks, Finalizers, OneStream
<1>3. \A t \in Finalizers : ~Owns(t)
  BY <1>1, <1>2
     DEF Owns, Resuming, FreshPcs, OwnerPcs, RecordingPcs, WaitingPcs, EndingPcs
<1> QED
  BY <1>1, <1>2, <1>3, OwnerFacts DEF OnlyOwner, Quiet, SavePcs, FreshPcs

\* A task does not move while its write is under way.
LEMMA WriterWaits ==
    ASSUME ~BreakAnywhere, AllInv, FileInv, Next, ~Crash, NEW d \in Finalizers, write[d] # {}
    PROVE  pc'[d] = pc[d]
<1> DEFINE Goal == pc'[d] = pc[d]
<1>0. pc[d] \in SavePcs
  BY TaskFacts DEF FileInv, Quiet
<1> USE <1>0, TaskFacts DEF SavePcs, AllInv, Inv, TypeOK, TaskTypes, At, Yield, Go, Saved
<1>1. ASSUME NEW s \in Streams, StartStep(s) PROVE Goal
  <2>1. CASE ResumeCancelsTimer(s)
    BY <2>1, CancelledSleeps DEF ResumeCancelsTimer
  <2>2. CASE LookUp(s)
    BY <2>2 DEF LookUp, Acquire
  <2> QED
    BY <1>1, <2>1, <2>2
       DEF StartStep, OpenStream, Resume, Resumed, Reuse, DropStale, CreateUpload, CreateFails,
           Created
<1>2. ASSUME NEW s \in Streams, AppendStep(s) PROVE Goal
  BY <1>2 DEF AppendStep, RecvAudio, AppendFrame, UploadPart, AppendSaved, Acquire
<1>3. ASSUME NEW s \in Streams, StopStep(s) PROVE Goal
  <2>1. ~StopCancelsTimer(s) /\ ~BreakMidCall(s)
    BY DEF StopCancelsTimer, BreakMidCall, SeqInv, NoCancel
  <2>2. CASE ArmTimer(s)
    BY <2>2, FinalizerKinds DEF ArmTimer, FileInv, Unarmed
  <2> QED
    BY <1>3, <2>1, <2>2
       DEF StopStep, GracefulEnd, BreakReading, Drop, GraceWait, TimerFires, Claim, Acquire
<1>4. ASSUME NEW t \in Finalizers, FinalizeStep(t) PROVE Goal
  BY <1>4
     DEF FinalizeStep, BeginFinalize, SkipFinalize, TakeBuffer, FlushBuffer, PopAndReport,
         Acquire
<1>5. ASSUME NEW t \in Finalizers \cup {Reconciler}, CompleteOrAbort(t) PROVE Goal
  BY <1>5 DEF CompleteOrAbort
<1>6. ASSUME NEW t \in Tasks, ReportStep(t) PROVE Goal
  BY <1>6 DEF ReportStep, WriteLands, localVars, Report, Acked, Unacked, Deleted, Finished
<1>7. ASSUME ReconcilerStep PROVE Goal
  BY <1>7 DEF ReconcilerStep, ListUnfinished, SkipLive, Recover, RecoveredSaved, Finished
<1> QED
  BY <1>1, <1>2, <1>3, <1>4, <1>5, <1>6, <1>7 DEF Next

\* Only one that recovers an unregistered session leaves the reconciler's first two places.
LEMMA RecoversUnowned ==
    ASSUME ~BreakAnywhere, AllInv, Next, pc[Reconciler] \in {"idle", "check"}
    PROVE  pc'[Reconciler] \in {"idle", "check"} \/ registry = None
<1> DEFINE Goal == pc'[Reconciler] \in {"idle", "check"} \/ registry = None
<1> USE TaskFacts DEF AllInv, Inv, TypeOK, TaskTypes, At, Yield, Go
<1>1. ASSUME NEW s \in Streams, StartStep(s) PROVE Goal
  <2>1. CASE ResumeCancelsTimer(s)
    BY <2>1, CancelledSleeps DEF ResumeCancelsTimer
  <2> QED
    BY <1>1, <2>1
       DEF StartStep, OpenStream, LookUp, Acquire, Resume, Resumed, Reuse, DropStale,
           CreateUpload, CreateFails, Created
<1>2. ASSUME NEW s \in Streams, AppendStep(s) PROVE Goal
  BY <1>2 DEF AppendStep, RecvAudio, AppendFrame, UploadPart, AppendSaved, Acquire
<1>3. ASSUME NEW s \in Streams, StopStep(s) PROVE Goal
  <2>1. ~StopCancelsTimer(s) /\ ~BreakMidCall(s)
    BY DEF StopCancelsTimer, BreakMidCall, SeqInv, NoCancel
  <2> QED
    BY <1>3, <2>1
       DEF StopStep, GracefulEnd, BreakReading, Drop, GraceWait, ArmTimer, TimerFires, Claim,
           Acquire
<1>4. ASSUME NEW t \in Finalizers, FinalizeStep(t) PROVE Goal
  BY <1>4
     DEF FinalizeStep, BeginFinalize, SkipFinalize, TakeBuffer, FlushBuffer, PopAndReport,
         Acquire
<1>5. ASSUME NEW t \in Finalizers \cup {Reconciler}, CompleteOrAbort(t) PROVE Goal
  BY <1>5 DEF CompleteOrAbort
<1>6. ASSUME NEW t \in Tasks, ReportStep(t) PROVE Goal
  BY <1>6 DEF ReportStep, WriteLands, localVars, Report, Acked, Unacked, Deleted, Finished
<1>7. ASSUME ReconcilerStep PROVE Goal
  BY <1>7
     DEF ReconcilerStep, ListUnfinished, SkipLive, OwnedHere, Recover, RecoveredSaved, Finished
<1>8. CASE Crash
  BY <1>8 DEF Crash
<1> QED
  BY <1>1, <1>2, <1>3, <1>4, <1>5, <1>6, <1>7, <1>8 DEF Next

\* A terminal report is acknowledged, and the file erased, by a task that has told.
LEMMA AckedMoves ==
    ASSUME ~BreakAnywhere, AllInv, Next, NEW d \in Finalizers \cup {Reconciler},
           pc'[d] \in {"acked", "deleting"}
    PROVE  pc[d] \in {"acked", "deleting"} \/ (Report(d) /\ Tell(d))
<1> DEFINE Goal == pc[d] \in {"acked", "deleting"} \/ (Report(d) /\ Tell(d))
<1> USE TaskFacts DEF AllInv, Inv, TypeOK, TaskTypes, At, Yield, Go
<1>1. ASSUME NEW s \in Streams, StartStep(s) PROVE Goal
  <2>1. CASE ResumeCancelsTimer(s)
    BY <2>1, CancelledSleeps DEF ResumeCancelsTimer
  <2>2. CASE LookUp(s)
    BY <2>2 DEF LookUp, Acquire
  <2>3. CASE Created(s)
    BY <2>3 DEF Created
  <2> QED
    BY <1>1, <2>1, <2>2, <2>3
       DEF StartStep, OpenStream, Resume, Resumed, Reuse, DropStale, CreateUpload, CreateFails
<1>2. ASSUME NEW s \in Streams, AppendStep(s) PROVE Goal
  BY <1>2 DEF AppendStep, RecvAudio, AppendFrame, UploadPart, AppendSaved, Acquire
<1>3. ASSUME NEW s \in Streams, StopStep(s) PROVE Goal
  <2>1. ~StopCancelsTimer(s) /\ ~BreakMidCall(s)
    BY DEF StopCancelsTimer, BreakMidCall, SeqInv, NoCancel
  <2>2. CASE GracefulEnd(s)
    BY <2>2 DEF GracefulEnd
  <2>3. CASE BreakReading(s)
    BY <2>3 DEF BreakReading
  <2>4. CASE Drop(s)
    BY <2>4 DEF Drop, Acquire
  <2>5. CASE GraceWait(s)
    BY <2>5 DEF GraceWait
  <2>6. CASE ArmTimer(s)
    BY <2>6 DEF ArmTimer
  <2>7. CASE TimerFires(s)
    BY <2>7 DEF TimerFires, Acquire
  <2>8. CASE Claim(s)
    BY <2>8 DEF Claim
  <2> QED
    BY <1>3, <2>1, <2>2, <2>3, <2>4, <2>5, <2>6, <2>7, <2>8 DEF StopStep
<1>4. ASSUME NEW t \in Finalizers, FinalizeStep(t) PROVE Goal
  BY <1>4
     DEF FinalizeStep, BeginFinalize, SkipFinalize, TakeBuffer, FlushBuffer, PopAndReport,
         Acquire
<1>5. ASSUME NEW t \in Finalizers \cup {Reconciler}, CompleteOrAbort(t) PROVE Goal
  BY <1>5 DEF CompleteOrAbort
<1>6. ASSUME NEW t \in Tasks, ReportStep(t) PROVE Goal
  BY <1>6 DEF ReportStep, WriteLands, localVars, Report, Acked, Unacked, Deleted, Finished
<1>7. ASSUME ReconcilerStep PROVE Goal
  BY <1>7 DEF ReconcilerStep, ListUnfinished, SkipLive, Recover, RecoveredSaved, Finished
<1>8. CASE Crash
  BY <1>8 DEF Crash
<1> QED
  BY <1>1, <1>2, <1>3, <1>4, <1>5, <1>6, <1>7, <1>8 DEF Next

\* What is written names an upload, unless the file is being erased.
LEMMA WriteNames ==
    ASSUME AllInv, FileInv, Named, NEW t \in Tasks, NEW doc \in write[t]
    PROVE  \/ doc.upload \in Streams
           \/ doc = NoSession /\ pc[t] = "deleting" /\ t \in Finalizers \cup {Reconciler}
<1> USE TaskFacts DEF FileInv
<1>1. pc[t] \in SavePcs
  BY DEF Quiet
<1>2. CASE pc[t] = "deleting"
  <2>1. \A s \in Streams : t # Started(s)
    BY <1>2 DEF StartedWaits
  <2> QED
    BY <1>2, <2>1, FinalizerKinds DEF Written
<1>3. CASE pc[t] # "deleting"
  <2>1. doc = sess[me[t]]
    BY <1>3 DEF Written
  <2> QED
    BY <1>1, <2>1, WritersKnown, StreamsAssumption DEF OwnDoc, Named, SavePcs
<1> QED
  BY <1>2, <1>3

\* With one stream nobody erases the file of a registered session.
LEMMA RegisteredNotErased ==
    ASSUME OneStream, AllInv, FileInv, Named, registry # None,
           NEW t \in Finalizers \cup {Reconciler}
    PROVE  pc[t] # "deleting"
<1>1. registry \in Streams
  BY DEF AllInv, Inv, TypeOK, LockTypes
<1>2. CASE t \in Finalizers
  BY <1>1, <1>2 DEF FileInv, Reporters, ReportPcs, OneStream
<1>3. CASE t = Reconciler
  BY <1>1, <1>3 DEF FileInv, Repaired, Named, OneStream
<1> QED
  BY <1>2, <1>3

\* A stream resumes when it finds a session registered.
LEMMA ResumeEntered ==
    ASSUME ~Overlap, ~BreakAnywhere, AllInv, Next, NEW r \in Streams,
           pc'[Conn(r)] \in {"resume", "resaving"}
    PROVE  \/ pc[Conn(r)] \in {"resume", "resaving"}
           \/ pc[Conn(r)] \in FreshPcs /\ registry # None
<1> DEFINE Goal ==
      pc[Conn(r)] \in {"resume", "resaving"} \/ (pc[Conn(r)] \in FreshPcs /\ registry # None)
<1> USE TaskFacts DEF AllInv, Inv, FreshPcs
<1>2. ASSUME NEW s \in Streams, LookUp(s), registry # None PROVE Goal
  BY <1>2 DEF LookUp, At, CreationHeld, Yield, Acquire, TypeOK, TaskTypes
<1>3. ASSUME NEW s \in Streams, ResumeCancelsTimer(s) PROVE Goal
  BY <1>3, CancelTarget DEF ResumeCancelsTimer, At, TypeOK, TaskTypes
<1>4. ASSUME NEW s \in Streams, Resume(s) PROVE Goal
  BY <1>4 DEF Resume, At, Yield, TypeOK, TaskTypes
<1>5. ASSUME NEW s \in Streams, Resumed(s) PROVE Goal
  BY <1>5 DEF Resumed, At, Yield, TypeOK, TaskTypes
<1>7. ASSUME NEW s \in Streams, DropStale(s) PROVE Goal
  BY <1>7 DEF DropStale, At, Yield, TypeOK, TaskTypes
<1>8. ASSUME NEW s \in Streams, CreateUpload(s) PROVE Goal
  BY <1>8 DEF CreateUpload, At, Yield, TypeOK, TaskTypes
<1>10. ASSUME NEW s \in Streams, Created(s) PROVE Goal
  BY <1>10 DEF Created, At, TypeOK, TaskTypes
<1>11. ASSUME NEW s \in Streams, RecvAudio(s) PROVE Goal
  BY <1>11 DEF RecvAudio, At, Yield, Acquire, TypeOK, TaskTypes
<1>12. ASSUME NEW s \in Streams, AppendFrame(s) PROVE Goal
  BY <1>12 DEF AppendFrame, At, Yield, TypeOK, TaskTypes
<1>13. ASSUME NEW s \in Streams, UploadPart(s) PROVE Goal
  BY <1>13 DEF UploadPart, At, Stores, GivesUp, Yield, Go, TypeOK, TaskTypes
<1>14. ASSUME NEW s \in Streams, AppendSaved(s) PROVE Goal
  BY <1>14 DEF AppendSaved, At, Yield, TypeOK, TaskTypes
<1>15. ASSUME NEW s \in Streams, GracefulEnd(s) PROVE Goal
  BY <1>15 DEF GracefulEnd, At, Yield, Go, TypeOK, TaskTypes
<1>17. ASSUME NEW s \in Streams, BreakReading(s) PROVE Goal
  BY <1>17 DEF BreakReading, At, Go, TypeOK, TaskTypes
<1>19. ASSUME NEW s \in Streams, Drop(s) PROVE Goal
  BY <1>19 DEF Drop, At, Yield, Acquire, TypeOK, TaskTypes
<1>20. ASSUME NEW s \in Streams, GraceWait(s) PROVE Goal
  BY <1>20 DEF GraceWait, At, Yield, TypeOK, TaskTypes
<1>21. ASSUME NEW s \in Streams, ArmTimer(s) PROVE Goal
  BY <1>21 DEF ArmTimer, At, TypeOK, TaskTypes
<1>22. ASSUME NEW s \in Streams, TimerFires(s) PROVE Goal
  BY <1>22 DEF TimerFires, At, Yield, Acquire, TypeOK, TaskTypes
<1>23. ASSUME NEW s \in Streams, Claim(s) PROVE Goal
  BY <1>23 DEF Claim, At, Go, Yield, TypeOK, TaskTypes
<1>24. ASSUME NEW t \in Finalizers, BeginFinalize(t) PROVE Goal
  BY <1>24 DEF BeginFinalize, At, Yield, Acquire, TypeOK, TaskTypes
<1>26. ASSUME NEW t \in Finalizers, TakeBuffer(t) PROVE Goal
  BY <1>26 DEF TakeBuffer, At, Yield, TypeOK, TaskTypes
<1>27. ASSUME NEW t \in Finalizers, FlushBuffer(t) PROVE Goal
  BY <1>27 DEF FlushBuffer, At, Stores, GivesUp, Yield, TypeOK, TaskTypes
<1>29. ASSUME NEW t \in Finalizers, CompleteOrAbort(t) PROVE Goal
  BY <1>29 DEF CompleteOrAbort, At, Yield, TypeOK, TaskTypes
<1>28. ASSUME NEW t \in Finalizers, PopAndReport(t) PROVE Goal
  BY <1>28 DEF PopAndReport, At, Yield, TypeOK, TaskTypes
<1>39. ASSUME Crash PROVE Goal
  BY <1>39 DEF Crash, TypeOK, TaskTypes
<1>o. ASSUME OffStage PROVE Goal
  BY <1>o DEF OffStage, OffPcs
<1> QED
  BY <1>2, <1>3, <1>4, <1>5, <1>7, <1>8, <1>10, <1>11, <1>12, <1>13, <1>14, <1>15, <1>17,
     <1>19, <1>20, <1>21, <1>22, <1>23, <1>24, <1>26, <1>27, <1>29, <1>28, <1>39, <1>o,
     StageStepOrOff DEF StageStep, EndStep

\* Beginning is inductive.
LEMMA BeginningStep ==
    ASSUME OneStream, ~Overlap, ~BreakAnywhere, AllInv, FileInv, Beginning, Next
    PROVE  Beginning'
<1> SUFFICES ASSUME NEW s \in Streams
             PROVE  /\ pc'[Conn(s)] \notin {"resume", "resaving"}
                    /\ pc'[Conn(s)] \in FreshPcs => file' = NoSession /\ pc'[Reconciler] = "idle"
  BY DEF Beginning
<1> USE TaskFacts DEF AllInv, Inv
<1>1. pc[Conn(s)] \notin {"resume", "resaving"}
  BY DEF Beginning
<1>2. pc'[Conn(s)] \notin {"resume", "resaving"}
  BY <1>1, ResumeEntered, NoneYet
<1>3. ASSUME pc'[Conn(s)] \in FreshPcs
      PROVE  file' = NoSession /\ pc'[Reconciler] = "idle"
  <2>1. /\ pc[Conn(s)] \in FreshPcs /\ file = NoSession /\ pc[Reconciler] = "idle"
        /\ \A t \in Tasks : write[t] = {}
    BY <1>1, <1>3, StartsFresh, NoneYet DEF FreshPcs, Beginning
  <2>2. file' = file
    BY <2>1, NextFrames DEF WriteLands, Crash
  <2>3. pc'[Reconciler] = "idle"
    <3>1. CASE ListUnfinished
      BY <2>1, <3>1 DEF ListUnfinished, Finished, Yield, TypeOK, TaskTypes
    <3>2. CASE Crash
      BY <3>2 DEF Crash
    <3>3. ~CompleteOrAbort(Reconciler)
      BY <2>1 DEF CompleteOrAbort, At
    <3> QED
      BY <2>1, <3>1, <3>2, <3>3, CopyStays
  <2> QED
    BY <2>1, <2>2, <2>3
<1> QED
  BY <1>2, <1>3

\* Named is inductive.
LEMMA NamedStep ==
    ASSUME ~Overlap, ~BreakAnywhere, "disk" \notin Faults, AllInv, FileInv, Named, Next
    PROVE  Named'
<1> USE TaskFacts DEF AllInv, Inv
<1>1. CASE Crash
  BY <1>1 DEF Crash, Named
<1>2. CASE ~Crash
  <2>1. file' = NoSession \/ file'.upload \in Streams
    BY <1>2, NextFrames, Landed, WriteNames DEF Named
  <2>2. ASSUME pc'[Reconciler] # "idle" PROVE sess'[None].upload \in Streams
    <3>1. CASE ListUnfinished
      BY <2>2, <3>1 DEF ListUnfinished, Finished, Yield, Named, TypeOK, TaskTypes, MemoryTypes
    <3>2. CASE CompleteOrAbort(Reconciler)
      <4>1. me[Reconciler] = None /\ pc[Reconciler] # "idle"
        BY <3>2 DEF CompleteOrAbort, At, TruthInv, Roles
      <4>2. PICK st : sess' = [sess EXCEPT ![me[Reconciler]].status = st]
        BY <3>2 DEF CompleteOrAbort
      <4> QED
        BY <4>1, <4>2, StatusSet DEF Named
    <3> QED
      BY <1>2, <2>2, <3>1, <3>2, CopyStays DEF Named
  <2> QED
    BY <2>1, <2>2 DEF Named
<1> QED
  BY <1>1, <1>2

\* OnDisk is inductive.
LEMMA OnDiskStep ==
    ASSUME OneStream, ~Overlap, ~BreakAnywhere, "disk" \notin Faults,
           AllInv, FileInv, Named, OnDisk, Next
    PROVE  OnDisk'
<1> SUFFICES ASSUME registry' # None
             PROVE  \/ file'.upload = registry'
                    \/ pc'[Conn(registry')] = "newsaving" /\ write'[Conn(registry')] # {}
  BY DEF OnDisk
<1> USE TaskFacts DEF AllInv, Inv
<1>1. ~Crash
  BY DEF Crash
<1>2. CASE \E s \in Streams : registry' = s /\ CreateUpload(s)
  <2>1. PICK s \in Streams : registry' = s /\ CreateUpload(s)
    BY <1>2
  <2>2. write'[Conn(s)] = {NewSession(s)} /\ pc'[Conn(s)] = "newsaving"
    BY <2>1 DEF CreateUpload, Save, Yield, TypeOK, TaskTypes
  <2> QED
    BY <2>1, <2>2
<1>3. CASE registry' = registry
  <2>1. registry \in Streams
    BY <1>3 DEF TypeOK, LockTypes
  <2>2. ASSUME NEW t \in Tasks, WriteLands(t) PROVE file'.upload = registry
    BY <1>3, <2>1, <2>2, Landed, WriteNames, RegisteredNotErased DEF OneStream
  <2>3. CASE \A t \in Tasks : ~WriteLands(t)
    BY <1>1, <1>3, <2>1, <2>3, NextFrames, WriterWaits DEF OnDisk
  <2> QED
    BY <1>3, <2>2, <2>3
<1> QED
  BY <1>1, <1>2, <1>3, NextFrames, SessionChanges

\* What has been told stays told.
LEMMA ToldGrows ==
    ASSUME ~BreakAnywhere, AllInv, Next, NEW u \in Streams
    PROVE  told[u] \subseteq told'[u]
  BY ToldMoves DEF Tell, AllInv, Inv, TypeOK, WorldTypes

\* ClosedOnDisk is inductive: the one who closes an upload has its document in the file.
LEMMA ClosedOnDiskStep ==
    ASSUME OneStream, ~Overlap, ~BreakAnywhere, "disk" \notin Faults,
           AllInv, FileInv, NoPayload, Named, OnDisk, ClosedOnDisk, ErasedTold, Next
    PROVE  ClosedOnDisk'
<1> SUFFICES ASSUME NEW u \in Streams, upload'[u] \notin {"none", "open"},
                    told'[u] \cap Outcomes = {}
             PROVE  file'.upload = u
  BY DEF ClosedOnDisk
<1> USE TaskFacts DEF AllInv, Inv, FileInv
<1>1. told[u] \cap Outcomes = {}
  BY ToldGrows
<1>2. CASE Crash
  BY <1>1, <1>2 DEF Crash, s3Vars, ClosedOnDisk
<1>3. CASE ~Crash
  <2>1. ASSUME upload'[u] = upload[u] PROVE file.upload = u
    BY <1>1, <2>1 DEF ClosedOnDisk
  <2>2. ASSUME NEW s \in Streams, CreateUpload(s) PROVE FALSE
    BY <2>2 DEF CreateUpload, OneStream, TypeOK, WorldTypes
  <2>3. ASSUME NEW t \in Finalizers, CompleteOrAbort(t) PROVE file.upload = u
    <3>1. /\ pc[t] = "complete" /\ OnlyOwner(t) /\ registry \in Streams /\ registry # None
      BY <2>3, OwnerPlace, StreamsAssumption DEF CompleteOrAbort, At, OwnerPcs, EndingPcs
    <3>2. pc[Conn(registry)] # "newsaving"
      BY <3>1 DEF OnlyOwner, Owns, OwnerPcs, RecordingPcs
    <3> QED
      BY <3>1, <3>2 DEF OnDisk, OneStream
  <2>4. ASSUME CompleteOrAbort(Reconciler) PROVE file.upload = u
    BY <2>4 DEF CompleteOrAbort, At, Repaired, Named, OneStream
  <2>5. file.upload = u
    BY <1>3, <2>1, <2>2, <2>3, <2>4, CountMoves
  <2>6. ASSUME NEW t \in Tasks, WriteLands(t) PROVE file'.upload = u
    BY <1>1, <2>6, Landed, WriteNames DEF ErasedTold, OneStream
  <2> QED
    BY <1>3, <2>5, <2>6, NextFrames
<1> QED
  BY <1>2, <1>3

\* ErasedTold is inductive.
LEMMA ErasedToldStep ==
    ASSUME OneStream, ~BreakAnywhere, AllInv, FileInv, Named, ErasedTold, Next
    PROVE  ErasedTold'
<1> SUFFICES ASSUME NEW t \in Finalizers \cup {Reconciler}, pc'[t] \in {"acked", "deleting"},
                    NEW u \in Streams
             PROVE  told'[u] \cap Outcomes # {}
  BY DEF ErasedTold
<1> USE TaskFacts DEF AllInv, Inv, FileInv
<1>1. CASE pc[t] \in {"acked", "deleting"}
  BY <1>1, ToldGrows DEF ErasedTold
<1>2. CASE Report(t) /\ Tell(t)
  <2>1. pc[t] = "report"
    BY <1>2 DEF Report, At
  <2>2. event[t] \in Outcomes /\ sess[me[t]].upload \in Streams
    <3>1. CASE t \in Finalizers
      BY <2>1, <3>1 DEF Reporters, ReportPcs, Outcome, Outcomes
    <3>2. CASE t = Reconciler
      BY <2>1, <3>2 DEF Repaired, Named, ReportPcs, Outcome, Outcomes, TruthInv, Roles
    <3> QED
      BY <3>1, <3>2
  <2>3. sess[me[t]].upload = u
    BY <2>2 DEF OneStream
  <2> QED
    BY <1>2, <2>2, <2>3 DEF Tell, TypeOK, WorldTypes
<1> QED
  BY <1>1, <1>2, AckedMoves

\* A stream saves its session before it goes on to feed it.
LEMMA FedMoves ==
    ASSUME OneStream, ~Overlap, ~BreakAnywhere, AllInv, FileInv, Beginning, Next,
           NEW r \in Streams, pc'[Conn(r)] \in FedPcs
    PROVE  /\ pc[Conn(r)] \in FedPcs \/ CreateUpload(r)
           /\ \/ pc'[Conn(r)] = pc[Conn(r)] /\ sess'[r] = sess[r]
              \/ pc'[Conn(r)] # "open" /\ write'[Conn(r)] # {}
              \/ Created(r) \/ AppendSaved(r)
              \/ pc'[Conn(r)] \in {"append", "upload"}
<1> DEFINE Goal ==
      /\ pc[Conn(r)] \in FedPcs \/ CreateUpload(r)
      /\ \/ pc'[Conn(r)] = pc[Conn(r)] /\ sess'[r] = sess[r]
         \/ pc'[Conn(r)] # "open" /\ write'[Conn(r)] # {}
         \/ Created(r) \/ AppendSaved(r)
         \/ pc'[Conn(r)] \in {"append", "upload"}
<1> USE TaskFacts DEF AllInv, Inv, FedPcs, AppendPcs, OneStream, Beginning, FileInv, Unarmed
<1>2. ASSUME NEW s \in Streams, LookUp(s), registry # None PROVE Goal
  BY <1>2 DEF LookUp, At, CreationHeld, Yield, Acquire, TypeOK, TaskTypes
<1>3. ASSUME NEW s \in Streams, ResumeCancelsTimer(s) PROVE Goal
  BY <1>3, CancelTarget DEF ResumeCancelsTimer, At, TypeOK, TaskTypes, memoryVars
<1>4. ASSUME NEW s \in Streams, Resume(s) PROVE Goal
  BY <1>4 DEF Resume, At, Yield, TypeOK, TaskTypes, memoryVars
<1>5. ASSUME NEW s \in Streams, Resumed(s) PROVE Goal
  BY <1>5 DEF Resumed, At, Yield, TypeOK, TaskTypes, memoryVars
<1>7. ASSUME NEW s \in Streams, DropStale(s) PROVE Goal
  BY <1>7 DEF DropStale, At, Yield, TypeOK, TaskTypes, memoryVars
<1>8. ASSUME NEW s \in Streams, CreateUpload(s) PROVE Goal
  <2>1. s = r /\ write'[Conn(r)] = {NewSession(r)} /\ pc'[Conn(r)] = "newsaving"
    BY <1>8 DEF CreateUpload, Save, Yield, TypeOK, TaskTypes
  <2> QED
    BY <1>8, <2>1
<1>10. ASSUME NEW s \in Streams, Created(s) PROVE Goal
  BY <1>10 DEF Created, At, TypeOK, TaskTypes, memoryVars
<1>11. ASSUME NEW s \in Streams, RecvAudio(s) PROVE Goal
  BY <1>11 DEF RecvAudio, At, Yield, Acquire, TypeOK, TaskTypes
<1>12. ASSUME NEW s \in Streams, AppendFrame(s) PROVE Goal
  <2>1. s = r /\ pc[Conn(r)] = "append"
    BY <1>12 DEF AppendFrame, At
  <2>2. pc'[Conn(r)] = "upload" \/ write'[Conn(r)] # {}
    BY <1>12, <2>1 DEF AppendFrame, Save, Yield, TypeOK, TaskTypes
  <2>3. pc'[Conn(r)] # "open"
    BY <1>12, <2>1 DEF AppendFrame, Yield, TypeOK, TaskTypes
  <2> QED
    BY <2>1, <2>2, <2>3
<1>13. ASSUME NEW s \in Streams, UploadPart(s) PROVE Goal
  <2>1. s = r /\ pc[Conn(r)] = "upload"
    BY <1>13 DEF UploadPart, At
  <2>2. ~Go(Conn(s), "broken")
    BY <2>1 DEF Go, FedPcs, TypeOK, TaskTypes
  <2>3. Save(Conn(s), sess'[me[Conn(s)]]) /\ Yield(Conn(s), "appsaving")
    BY <1>13, <2>2 DEF UploadPart
  <2>4. pc'[Conn(r)] = "appsaving" /\ write'[Conn(r)] # {}
    BY <2>1, <2>3 DEF Save, Yield, TypeOK, TaskTypes
  <2> QED
    BY <2>1, <2>4
<1>14. ASSUME NEW s \in Streams, AppendSaved(s) PROVE Goal
  BY <1>14 DEF AppendSaved, At, Yield, TypeOK, TaskTypes, memoryVars
<1>15. ASSUME NEW s \in Streams, GracefulEnd(s) PROVE Goal
  BY <1>15 DEF GracefulEnd, At, Yield, Go, TypeOK, TaskTypes, memoryVars
<1>17. ASSUME NEW s \in Streams, BreakReading(s) PROVE Goal
  BY <1>17 DEF BreakReading, At, Go, TypeOK, TaskTypes, memoryVars
<1>19. ASSUME NEW s \in Streams, Drop(s) PROVE Goal
  BY <1>19 DEF Drop, At, Yield, Acquire, TypeOK, TaskTypes
<1>20. ASSUME NEW s \in Streams, GraceWait(s) PROVE Goal
  BY <1>20 DEF GraceWait, At, Yield, TypeOK, TaskTypes, memoryVars
<1>21. ASSUME NEW s \in Streams, ArmTimer(s) PROVE Goal
  BY <1>21 DEF ArmTimer, At, TypeOK, TaskTypes, memoryVars
<1>22. ASSUME NEW s \in Streams, TimerFires(s) PROVE Goal
  BY <1>22 DEF TimerFires, At, Yield, Acquire, TypeOK, TaskTypes
<1>23. ASSUME NEW s \in Streams, Claim(s) PROVE Goal
  BY <1>23 DEF Claim, At, Go, Yield, TypeOK, TaskTypes, memoryVars
<1>24. ASSUME NEW t \in Finalizers, BeginFinalize(t) PROVE Goal
  <2>1. CASE t = Conn(r)
    BY <1>24, <2>1 DEF BeginFinalize, Acquire, Yield, TypeOK, TaskTypes
  <2>2. CASE t = Grace(r)
    <3>1. pc[Conn(r)] = "end" /\ pc'[Conn(r)] = "end"
      BY <1>24, <2>2 DEF BeginFinalize, At, Acquire, Yield, TypeOK, TaskTypes
    <3> QED
      BY <3>1
  <2> QED
    BY <2>1, <2>2, FinalizerKinds
<1>26. ASSUME NEW t \in Finalizers, TakeBuffer(t) PROVE Goal
  BY <1>26 DEF TakeBuffer, At, Yield, TypeOK, TaskTypes, memoryVars
<1>27. ASSUME NEW t \in Finalizers, FlushBuffer(t) PROVE Goal
  <2>1. CASE t = Conn(r)
    BY <1>27, <2>1 DEF FlushBuffer, Yield, TypeOK, TaskTypes
  <2>2. CASE t = Grace(r)
    <3>1. pc[Conn(r)] = "end" /\ pc'[Conn(r)] = "end"
      BY <1>27, <2>2 DEF FlushBuffer, At, Yield, TypeOK, TaskTypes
    <3> QED
      BY <3>1
  <2> QED
    BY <2>1, <2>2, FinalizerKinds
<1>29. ASSUME NEW t \in Finalizers, CompleteOrAbort(t) PROVE Goal
  <2>1. CASE t = Conn(r)
    BY <1>29, <2>1 DEF CompleteOrAbort, Yield, TypeOK, TaskTypes
  <2>2. CASE t = Grace(r)
    <3>1. pc[Conn(r)] = "end" /\ pc'[Conn(r)] = "end"
      BY <1>29, <2>2 DEF CompleteOrAbort, At, Yield, TypeOK, TaskTypes
    <3> QED
      BY <3>1
  <2> QED
    BY <2>1, <2>2, FinalizerKinds
<1>28. ASSUME NEW t \in Finalizers, PopAndReport(t) PROVE Goal
  BY <1>28 DEF PopAndReport, At, Yield, TypeOK, TaskTypes, memoryVars
<1>39. ASSUME Crash PROVE Goal
  BY <1>39 DEF Crash, TypeOK, TaskTypes
<1>o. ASSUME OffStage PROVE Goal
  BY <1>o DEF OffStage, OffPcs
<1> QED
  BY <1>2, <1>3, <1>4, <1>5, <1>7, <1>8, <1>10, <1>11, <1>12, <1>13, <1>14, <1>15, <1>17,
     <1>19, <1>20, <1>21, <1>22, <1>23, <1>24, <1>26, <1>27, <1>29, <1>28, <1>39, <1>o,
     StageStepOrOff DEF StageStep, EndStep

\* Current is inductive: what lands in the file meanwhile is the session that is fed.
LEMMA CurrentStep ==
    ASSUME OneStream, ~Overlap, ~BreakAnywhere, "disk" \notin Faults,
           AllInv, FileInv, Beginning, Current, Next
    PROVE  Current'
<1> SUFFICES ASSUME NEW s \in Streams, pc'[Conn(s)] \in FedPcs
             PROVE  /\ pc'[Reconciler] \in {"idle", "check"}
                    /\ \/ pc'[Conn(s)] \in {"newsaving", "appsaving"} /\ write'[Conn(s)] = {}
                       \/ pc'[Conn(s)] = "open"
                       => file' = sess'[s]
  BY DEF Current, FedPcs, AppendPcs
<1> USE TaskFacts DEF AllInv, Inv, FileInv
<1>1. ~Crash
  BY DEF Crash, FedPcs, AppendPcs
<1>2. CASE CreateUpload(s)
  <2>1. write'[Conn(s)] = {NewSession(s)} /\ pc'[Conn(s)] = "newsaving"
    BY <1>2 DEF CreateUpload, Save, Yield, TypeOK, TaskTypes
  <2>2. pc'[Reconciler] = "idle"
    BY <1>2 DEF CreateUpload, At, Yield, Beginning, FreshPcs, TypeOK, TaskTypes
  <2> QED
    BY <2>1, <2>2
<1>3. CASE pc[Conn(s)] \in FedPcs
  <2>1. /\ Owns(Conn(s)) /\ registry = s /\ me[Conn(s)] = s
        /\ pc[Reconciler] \in {"idle", "check"}
    BY <1>3, OwnerPlace
       DEF FedPcs, AppendPcs, Owns, OwnerPcs, RecordingPcs, OneStream, Current
  <2>2. pc'[Reconciler] \in {"idle", "check"}
    BY <2>1, RecoversUnowned, StreamsAssumption
  <2>3. ASSUME NEW d \in Tasks, WriteLands(d) PROVE file' = sess'[s]
    <3>1. /\ sess' = sess /\ file' = sess[me[d]] /\ write[d] # {}
      <4>1. pc[d] # "deleting"
        BY <2>1, WritersKnown, <2>3
           DEF WriteLands, StartedWaits, Reporters, ReportPcs, OneStream
      <4> QED
        BY <2>3, <4>1, Landed DEF WriteLands, memoryVars, Written
    <3>2. me[d] = s
      BY <2>1, <3>1, WritersKnown DEF Quiet, SavePcs, OneStream
    <3> QED
      BY <3>1, <3>2
  <2>4. CASE file' = file
    <3>1. CASE /\ pc'[Conn(s)] = pc[Conn(s)] /\ sess'[s] = sess[s]
      BY <1>1, <2>2, <2>3, <2>4, <3>1, NextFrames DEF Current
    <3>2. CASE Created(s) \/ AppendSaved(s)
      BY <2>2, <2>4, <3>2
         DEF Created, AppendSaved, At, Saved, Yield, memoryVars, Current, TypeOK, TaskTypes
    <3> QED
      BY <2>2, <3>1, <3>2, FedMoves
  <2> QED
    BY <1>1, <2>2, <2>3, <2>4, NextFrames
<1> QED
  BY <1>2, <1>3, FedMoves

\* The state file at first ...
LEMMA DiskInit == Init => DiskInv
<1> SUFFICES ASSUME Init PROVE DiskInv
  OBVIOUS
<1> USE TaskFacts, StreamsAssumption DEF Init
<1>1. Beginning /\ Current /\ Named
  BY DEF Beginning, Current, Named, FedPcs, AppendPcs
<1>2. OnDisk /\ ClosedOnDisk /\ ErasedTold
  BY DEF OnDisk, ClosedOnDisk, ErasedTold
<1> QED
  BY <1>1, <1>2 DEF DiskInv

\* ... and after every step.
LEMMA DiskStep ==
    ASSUME OneStream, ~Overlap, ~BreakAnywhere, "disk" \notin Faults,
           AllInv, FileInv, NoPayload, DiskInv, [Next]_vars
    PROVE  DiskInv'
<1>1. CASE Next
  BY <1>1, BeginningStep, CurrentStep, NamedStep, OnDiskStep, ClosedOnDiskStep, ErasedToldStep
     DEF DiskInv
<1>2. CASE UNCHANGED vars
  <2> USE <1>2 DEF vars, localVars, memoryVars, s3Vars, DiskInv
  <2>1. Beginning' /\ Current' /\ Named'
    BY DEF Beginning, Current, Named
  <2>2. OnDisk' /\ ClosedOnDisk' /\ ErasedTold'
    BY DEF OnDisk, ClosedOnDisk, ErasedTold
  <2> QED
    BY <2>1, <2>2
<1> QED
  BY <1>1, <1>2

\* With one stream both hold throughout.
LEMMA DiskAlways ==
    ASSUME OneStream, ~Overlap, ~BreakAnywhere, ~ScanLag, ~LateStarted, "disk" \notin Faults
    PROVE  Spec => [](AllInv /\ DiskInv)
<1> DEFINE I == AllInv /\ FileInv /\ CountInv /\ DiskInv
<1>1. Init => I
  BY AllInit, FileInit, CountInit, DiskInit
<1>2. I /\ [Next]_vars => I'
  BY AllStep, FileStep, CountStep, DiskStep DEF FileInv, CountInv
<1>3. I => AllInv /\ DiskInv
  OBVIOUS
<1> QED
  BY <1>1, <1>2, <1>3, PTL DEF Spec

\* While a stream waits for its next chunk, the state file is what a restarted process
\* needs, if the session has no other stream (append_audio.py, start_recording.py).
THEOREM FileIsCurrentAlways ==
    ASSUME OneStream, ~Overlap, ~BreakAnywhere, ~ScanLag, ~LateStarted, "disk" \notin Faults
    PROVE  Spec => []FileIsCurrent
<1>1. AllInv /\ DiskInv => FileIsCurrent
  <2> SUFFICES ASSUME AllInv, DiskInv, NEW s \in Streams, pc[Conn(s)] = "open"
               PROVE  file = sess[me[Conn(s)]]
    BY DEF FileIsCurrent
  <2>1. me[Conn(s)] = s
    BY OwnerPlace, TaskFacts DEF OwnerPcs, RecordingPcs, OneStream
  <2> QED
    BY <2>1 DEF DiskInv, Current
<1> QED
  BY <1>1, DiskAlways, PTL

\* A recording whose outcome nobody is reporting has been told, or is on disk for the
\* reconciler to tell, if the session has no other stream (report_event.py:3-6).
THEOREM UnreportedIsKeptAlways ==
    ASSUME OneStream, ~Overlap, ~BreakAnywhere, ~ScanLag, ~LateStarted, "disk" \notin Faults
    PROVE  Spec => []UnreportedIsKept
<1>1. DiskInv => UnreportedIsKept
  BY DEF DiskInv, ClosedOnDisk, Outcomes, UnreportedIsKept
<1> QED
  BY <1>1, DiskAlways, PTL

================================================================================
