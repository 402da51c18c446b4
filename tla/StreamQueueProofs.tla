--------------------------- MODULE StreamQueueProofs ---------------------------
(***************************************************************************)
(* What TLAPS proves of StreamQueue for every set of tasks and workers,    *)
(* every retry limit and any number of failures, stops, kills and redrives:*)
(* its type, its two safety invariants, and that it implements the safety  *)
(* part of TaskQueue.                                                      *)
(***************************************************************************)
EXTENDS StreamQueue, SequenceTheorems, FiniteSetTheorems, TLAPS

--------------------------------------------------------------------------------
(* The inductive invariant *)

\* Where a loop holds an entry.
Holding == InProcess \cup {"check"}

\* A loop that is about an entry has one; a worker that is not running has none.
LoopInv ==
    /\ \A w \in Workers, l \in Loops : loop[w][l].pc \in Holding => loop[w][l].msg \in Ids
    /\ \A w \in Workers : up[w] # "running" => busy[w] = None /\ \A l \in Loops : loop[w][l] = Idle

\* busy says which of the two loops processes a task, if any.
BusyInv ==
    \A w \in Workers :
        /\ \A l \in Loops : loop[w][l].pc \in InProcess => busy[w] = Task(w, l)
        /\ \A l, k \in Loops : loop[w][l].pc \in InProcess /\ loop[w][k].pc \in InProcess => l = k
        /\ busy[w] # None => \E l \in Loops : loop[w][l].pc \in InProcess

\* A dead letter that no redrive is about to delete.
Buried(t) == dlq[t] > IF redrive = t THEN 1 ELSE 0
\* An entry the group will still hand out.
Here(k) == log[k].kept /\ (k > last \/ Pending(k))
\* A task that is settled, or handed out again by an entry added after the n-th.
Safe(t, n) == t \in done \/ Buried(t) \/ \E k \in Ids : k > n /\ log[k].task = t /\ Here(k)

\* A task that is about to be taken off the stream succeeded, or its copy or its dead
\* letter is there already.  Copies come after the entries they are made of, so two
\* loops that reject the same task never rely on each other's entry.
SafeInv ==
    /\ \A m \in Ids : Safe(log[m].task, 0)
    /\ \A w \in Workers, l \in Loops :
          /\ loop[w][l].pc \in {"ack", "del"} => Task(w, l) \in done
          /\ loop[w][l].pc = "drop" => Safe(Task(w, l), loop[w][l].msg)

\* A redriven task has its entry already, and its dead letter still.
RedriveInv ==
    redrive # None => dlq[redrive] > 0 /\ \E m \in Ids : log[m].task = redrive

Inv == TypeOK /\ LoopInv /\ BusyInv /\ SafeInv /\ RedriveInv

--------------------------------------------------------------------------------
(* The stream *)

\* What every step leaves of the stream: entries are added and marked, never renamed.
Evolves ==
    /\ log' \in Seq(Entries) /\ Len(log') \in Nat /\ Len(log) <= Len(log')
    /\ Ids \subseteq Ids'
    /\ \A m \in Ids : log'[m].task = log[m].task /\ log'[m] \in Entries

\* An XADD appends one entry that nobody was given.
LEMMA Added ==
    ASSUME TypeOK, NEW t \in Tasks, NEW n \in Nat, Xadd(t, n)
    PROVE  /\ Evolves /\ Len(log') = Len(log) + 1 /\ Ids' = Ids \cup {Len(log) + 1}
           /\ \A m \in Ids : log'[m] = log[m]
           /\ log'[Len(log) + 1] = NewEntry(t, n)
<1>1. NewEntry(t, n) \in Entries
  BY DEF NewEntry, Entries
<1>2. log \in Seq(Entries) /\ Len(log) \in Nat
  BY DEF TypeOK
<1>3. /\ log' \in Seq(Entries) /\ Len(log') = Len(log) + 1
      /\ \A m \in 1..Len(log) : log'[m] = log[m]
      /\ log'[Len(log) + 1] = NewEntry(t, n)
  BY <1>1, <1>2, AppendProperties DEF Xadd
<1>4. \A m \in Ids : log[m] \in Entries
  BY <1>2, ElementOfSeq DEF Ids
<1> QED
  BY <1>2, <1>3, <1>4 DEF Evolves, Ids

\* It comes after every entry and after the last delivered one.
LEMMA NewIsLast ==
    ASSUME TypeOK, NEW t \in Tasks, NEW n \in Nat, Xadd(t, n)
    PROVE  \E e \in Nat : /\ e = Len(log) + 1 /\ e > last /\ Ids' = Ids \cup {e}
                          /\ log'[e] = NewEntry(t, n) /\ \A k \in Ids : log'[k] = log[k] /\ e > k
<1>1. Len(log) \in Nat /\ last \in 0..Len(log) /\ \A k \in Ids : k \in 1..Len(log)
  BY DEF TypeOK, Ids
<1>2. \A k \in Ids : Len(log) + 1 > k
  BY <1>1
<1>3. Len(log) + 1 \in Nat /\ Len(log) + 1 > last
  BY <1>1
<1> QED
  BY <1>2, <1>3, Added

\* To mark entries, one or several, changes no other entry and no task.
LEMMA Marked ==
    ASSUME TypeOK, NEW f \in [Ids -> Entries], log' = f,
           \A m \in Ids : f[m].task = log[m].task
    PROVE  Evolves /\ Len(log') = Len(log) /\ Ids' = Ids
<1>1. log \in Seq(Entries) /\ Len(log) \in Nat
  BY DEF TypeOK
<1>2. log' \in Seq(Entries) /\ Len(log') = Len(log)
  BY <1>1, IsASeq, LenProperties DEF Ids
<1> QED
  BY <1>1, <1>2 DEF Evolves, Ids

\* The same for one entry.
LEMMA MarkedOne ==
    ASSUME TypeOK, NEW m \in Ids, NEW e \in Entries, e.task = log[m].task,
           log' = [log EXCEPT ![m] = e]
    PROVE  /\ Evolves /\ Len(log') = Len(log) /\ Ids' = Ids
           /\ log'[m] = e /\ \A k \in Ids \ {m} : log'[k] = log[k]
<1>1. log \in [Ids -> Entries]
  BY LenProperties DEF TypeOK, Ids
<1>2. [log EXCEPT ![m] = e] \in [Ids -> Entries]
  BY <1>1
<1>3. \A k \in Ids : [log EXCEPT ![m] = e][k].task = log[k].task
  BY <1>1
<1> QED
  BY <1>1, <1>2, <1>3, Marked

\* The stream is a sequence of entries.
LEMMA LogFacts ==
    ASSUME TypeOK
    PROVE  /\ log \in Seq(Entries) /\ Len(log) \in Nat
           /\ \A m \in Ids : /\ m \in 0..Len(log) /\ log[m] \in Entries /\ log[m].task \in Tasks
                              /\ log[m].retry \in Nat /\ log[m].kept \in BOOLEAN
<1>1. log \in Seq(Entries) /\ Len(log) \in Nat
  BY DEF TypeOK
<1>2. ASSUME NEW m \in Ids PROVE log[m] \in Entries /\ m \in 0..Len(log)
  BY <1>1, ElementOfSeq DEF Ids
<1> QED
  BY <1>1, <1>2 DEF Entries

\* The ways an entry is marked keep its type and its task.
LEMMA Marks ==
    ASSUME TypeOK, NEW m \in Ids
    PROVE  /\ log[m] \in Entries
           /\ \A c \in Workers \cup {None, Released} :
                /\ Given(log[m], c) \in Entries /\ Given(log[m], c).task = log[m].task
                /\ Given(log[m], c).owner = c /\ Given(log[m], c).kept = log[m].kept
           /\ [log[m] EXCEPT !.owner = None, !.ripe = FALSE] \in Entries
           /\ [log[m] EXCEPT !.kept = FALSE] \in Entries
           /\ [log[m] EXCEPT !.ripe = TRUE] \in Entries
           /\ [log[m] EXCEPT !.owner = Released] \in Entries
<1>1. log[m] \in Entries
  BY ElementOfSeq DEF TypeOK, Ids
<1> QED
  BY <1>1 DEF Entries, Given

\* An entry given to a consumer is pending for it, and nothing else of it changes.
LEMMA GivenTo ==
    ASSUME TypeOK, NEW m \in Ids, NEW c \in Workers \cup {None, Released},
           log' = [log EXCEPT ![m] = Given(log[m], c)]
    PROVE  /\ Ids' = Ids /\ \A k \in Ids \ {m} : log'[k] = log[k]
           /\ log'[m].owner = c /\ log'[m].kept = log[m].kept /\ log'[m].task = log[m].task
<1>1. /\ Given(log[m], c) \in Entries /\ Given(log[m], c).task = log[m].task
      /\ Given(log[m], c).owner = c /\ Given(log[m], c).kept = log[m].kept
  BY Marks
<1> DEFINE e == Given(log[m], c)
<1>2. e \in Entries /\ e.task = log[m].task /\ log' = [log EXCEPT ![m] = e]
  BY <1>1
<1> HIDE DEF e
<1>3. Ids' = Ids /\ log'[m] = e /\ \A k \in Ids \ {m} : log'[k] = log[k]
  BY <1>2, MarkedOne
<1> QED
  BY <1>1, <1>3 DEF e

--------------------------------------------------------------------------------
(* The loops *)

LoopStates == [pc : Pcs, msg : 0..Len(log), retry : Nat]
Sets(w, l, r) == loop' = [loop EXCEPT ![w][l] = r]

\* A loop that is given a state keeps its type, and the other loops keep theirs.
LEMMA LoopSet ==
    ASSUME TypeOK, NEW w \in Workers, NEW l \in Loops, NEW r \in LoopStates, Sets(w, l, r)
    PROVE  /\ loop' \in [Workers -> [Loops -> LoopStates]]
           /\ loop'[w][l] = r
           /\ \A v \in Workers, k \in Loops : v # w \/ k # l => loop'[v][k] = loop[v][k]
  BY DEF TypeOK, LoopStates, Sets

\* The same when it only goes on to another step.
LEMMA LoopGoes ==
    ASSUME TypeOK, NEW w \in Workers, NEW l \in Loops, NEW s \in Pcs, Goes(w, l, s)
    PROVE  /\ loop' \in [Workers -> [Loops -> LoopStates]]
           /\ loop'[w][l].pc = s /\ loop'[w][l].msg = loop[w][l].msg
           /\ loop'[w][l].retry = loop[w][l].retry
           /\ \A v \in Workers, k \in Loops : v # w \/ k # l => loop'[v][k] = loop[v][k]
<1>1. loop[w][l] \in LoopStates
  BY DEF TypeOK, LoopStates
<1>2. [loop[w][l] EXCEPT !.pc = s] \in LoopStates
  BY <1>1 DEF LoopStates
<1>3. loop' = [loop EXCEPT ![w][l] = [loop[w][l] EXCEPT !.pc = s]]
  BY DEF Goes, TypeOK
<1>4. /\ loop' \in [Workers -> [Loops -> LoopStates]]
      /\ loop'[w][l] = [loop[w][l] EXCEPT !.pc = s]
      /\ \A v \in Workers, k \in Loops : v # w \/ k # l => loop'[v][k] = loop[v][k]
  <2> DEFINE r == [loop[w][l] EXCEPT !.pc = s]
  <2>1. r \in LoopStates /\ loop' = [loop EXCEPT ![w][l] = r]
    BY <1>2, <1>3
  <2> HIDE DEF r
  <2>2. Sets(w, l, r)
    BY <2>1 DEF Sets
  <2>3. /\ loop' \in [Workers -> [Loops -> LoopStates]] /\ loop'[w][l] = r
        /\ \A v \in Workers, k \in Loops : v # w \/ k # l => loop'[v][k] = loop[v][k]
    BY <2>1, <2>2, LoopSet
  <2> QED
    BY <2>3 DEF r
<1> QED
  BY <1>1, <1>4 DEF LoopStates

\* The same when _process_task returns.
LEMMA LoopReturns ==
    ASSUME TypeOK, NEW w \in Workers, NEW l \in Loops, Returns(w, l)
    PROVE  /\ loop' \in [Workers -> [Loops -> LoopStates]]
           /\ loop'[w][l] = Idle
           /\ \A v \in Workers, k \in Loops : v # w \/ k # l => loop'[v][k] = loop[v][k]
           /\ busy' \in [Workers -> Tasks \cup {None}]
           /\ busy'[w] = None /\ \A v \in Workers \ {w} : busy'[v] = busy[v]
<1>1. Idle \in LoopStates
  BY DEF Idle, LoopStates, Pcs, TypeOK
<1>2. Sets(w, l, Idle) /\ busy' = [busy EXCEPT ![w] = None]
  BY DEF Returns, Sets
<1>3. /\ busy' \in [Workers -> Tasks \cup {None}]
      /\ busy'[w] = None /\ \A v \in Workers \ {w} : busy'[v] = busy[v]
  BY <1>2 DEF TypeOK
<1> QED
  BY <1>1, <1>2, <1>3, LoopSet

\* The same when the worker forgets everything.
LEMMA AllForgotten ==
    ASSUME TypeOK, NEW w \in Workers, Forgotten(w)
    PROVE  /\ loop' \in [Workers -> [Loops -> LoopStates]]
           /\ \A l \in Loops : loop'[w][l] = Idle
           /\ \A v \in Workers \ {w}, k \in Loops : loop'[v][k] = loop[v][k]
           /\ busy' \in [Workers -> Tasks \cup {None}]
           /\ busy'[w] = None /\ \A v \in Workers \ {w} : busy'[v] = busy[v]
           /\ todo' \in [Workers -> SUBSET Ids]
<1>1. Idle \in LoopStates
  BY DEF Idle, LoopStates, Pcs, TypeOK
<1>2. loop \in [Workers -> [Loops -> LoopStates]]
  BY DEF TypeOK, LoopStates
<1>3. /\ loop' \in [Workers -> [Loops -> LoopStates]]
      /\ \A l \in Loops : loop'[w][l] = Idle
      /\ \A v \in Workers \ {w} : loop'[v] = loop[v]
  BY <1>1, <1>2 DEF Forgotten
<1>4. /\ busy' \in [Workers -> Tasks \cup {None}]
      /\ busy'[w] = None /\ \A v \in Workers \ {w} : busy'[v] = busy[v]
  BY DEF Forgotten, TypeOK
<1>5. todo' \in [Workers -> SUBSET Ids]
  BY DEF Forgotten, TypeOK
<1> QED
  BY <1>3, <1>4, <1>5

\* A loop that holds an entry holds a known one, of a known task.
LEMMA HeldEntry ==
    ASSUME TypeOK, LoopInv, NEW w \in Workers, NEW l \in Loops, loop[w][l].pc \in Holding
    PROVE  /\ loop[w][l].msg \in Ids /\ log[loop[w][l].msg] \in Entries
           /\ Task(w, l) \in Tasks /\ loop[w][l].retry \in Nat /\ up[w] = "running"
<1>1. loop[w][l].msg \in Ids
  BY DEF LoopInv
<1>2. log[loop[w][l].msg] \in Entries
  BY <1>1, Marks
<1>3. up[w] = "running"
  BY DEF LoopInv, Holding, InProcess, Idle
<1>4. log[loop[w][l].msg].task \in Tasks
  BY <1>2 DEF Entries
<1>5. loop[w][l].retry \in Nat
  BY DEF TypeOK
<1> QED
  BY <1>1, <1>2, <1>3, <1>4, <1>5 DEF Task

--------------------------------------------------------------------------------
(* What the steps do to the stream *)

\* An XACK of an entry a loop holds.
LEMMA Acked ==
    ASSUME TypeOK, NEW m \in Ids, Xack(m)
    PROVE  /\ Evolves /\ Len(log') = Len(log) /\ Ids' = Ids
           /\ log'[m] = [log[m] EXCEPT !.owner = None, !.ripe = FALSE]
           /\ \A k \in Ids \ {m} : log'[k] = log[k]
<1>1. log' = [log EXCEPT ![m] = [log[m] EXCEPT !.owner = None, !.ripe = FALSE]]
  BY DEF Xack, TypeOK
<1>2. log[m] \in Entries /\ [log[m] EXCEPT !.owner = None, !.ripe = FALSE] \in Entries
  BY Marks
<1> QED
  BY <1>1, <1>2, MarkedOne DEF Entries

\* XAUTOCLAIM gives entries to this worker, or lets go of deleted ones.
LEMMA ClaimMarks ==
    ASSUME TypeOK, NEW w \in Workers, ClaimOrphans(w)
    PROVE  /\ Evolves /\ Len(log') = Len(log) /\ Ids' = Ids
           /\ \A m \in Ids : log'[m].kept = log[m].kept
           /\ \A m \in Ids : log[m].kept => (Pending(m) <=> log'[m].owner # None)
<1> DEFINE f == [m \in Ids |-> IF m \notin Claimed THEN log[m]
                              ELSE Given(log[m], IF log[m].kept THEN w ELSE None)]
<1>1. f \in [Ids -> Entries] /\ \A m \in Ids : f[m].task = log[m].task /\ f[m].kept = log[m].kept
  BY Marks
<1>2. \A m \in Ids : log[m].kept => (Pending(m) <=> f[m].owner # None)
  BY Marks, NamesAssumption DEF Claimed, Ripe, Claimable, Pending
<1> QED
  BY <1>1, <1>2, Marked DEF ClaimOrphans

\* A worker that goes leaves its entries pending.
LEMMA OrphanMarks ==
    ASSUME TypeOK, NEW w \in Workers, log' = Orphaned(w)
    PROVE  /\ Evolves /\ Len(log') = Len(log) /\ Ids' = Ids
           /\ \A m \in Ids : log'[m].kept = log[m].kept /\ (Pending(m) <=> log'[m].owner # None)
<1> DEFINE f == Orphaned(w)
<1>1. f \in [Ids -> Entries] /\ \A m \in Ids : f[m].task = log[m].task /\ f[m].kept = log[m].kept
  BY Marks DEF Orphaned, Entries
<1>2. \A m \in Ids : Pending(m) <=> f[m].owner # None
  BY Marks, NamesAssumption DEF Orphaned, Pending, Entries
<1> QED
  BY <1>1, <1>2, Marked

--------------------------------------------------------------------------------
(* Types *)

\* Loops, claimed entries and entries to release keep their type when entries are added.
LEMMA Widened ==
    ASSUME TypeOK, Evolves
    PROVE  /\ LoopStates \subseteq LoopStates'
           /\ \A s : s \in [Workers -> [Loops -> LoopStates]] =>
                s \in [Workers -> [Loops -> [pc : Pcs, msg : 0..Len(log'), retry : Nat]]]
           /\ \A s : s \in [Workers -> SUBSET Ids] => s \in [Workers -> SUBSET Ids']
           /\ last \in 0..Len(log')
<1>1. 0..Len(log) \subseteq 0..Len(log')
  BY DEF Evolves, TypeOK
<1>2. LoopStates \subseteq LoopStates'
  BY <1>1 DEF LoopStates
<1>3. LoopStates' = [pc : Pcs, msg : 0..Len(log'), retry : Nat]
  BY DEF LoopStates
<1> QED
  BY <1>1, <1>2, <1>3 DEF Evolves, TypeOK

\* What the histories of runs and claims count stays a number.
LEMMA TriedType == ASSUME TypeOK, NEW T PROVE Tried(T) \in [Tasks -> Nat]
  BY DEF TypeOK, Tried

\* Trouble is counted up to its bound.
LEMMA TroubleType ==
    ASSUME TypeOK
    PROVE  /\ Trouble => trouble' \in 0..MaxTrouble
           /\ UNCHANGED trouble => trouble' \in 0..MaxTrouble
  BY LimitsAssumption DEF Trouble, TypeOK

\* Every step keeps every variable's type and the tasks of the stream.
LEMMA TypeStep == TypeOK /\ LoopInv /\ RedriveInv /\ [Next]_vars => TypeOK' /\ Evolves
<1> SUFFICES ASSUME TypeOK, LoopInv, RedriveInv, [Next]_vars PROVE TypeOK' /\ Evolves
  OBVIOUS
<1>0. log' = log => Evolves
  <2>1. log \in Seq(Entries) /\ Len(log) \in Nat /\ \A m \in Ids : log[m] \in Entries
    BY LogFacts
  <2> QED
    BY <2>1 DEF Evolves, Ids
<1>1. ASSUME UNCHANGED vars PROVE TypeOK' /\ Evolves
  BY <1>0, <1>1 DEF vars, TypeOK, Ids
<1>2. ASSUME NEW t \in Tasks, Enqueue(t) \/ RedriveAdds(t) PROVE TypeOK' /\ Evolves
  <2>1. Evolves
    BY <1>2, Added DEF Enqueue, RedriveAdds
  <2>2. trouble' \in 0..MaxTrouble /\ redrive' \in Tasks \cup {None}
    BY <1>2, TroubleType DEF Enqueue, RedriveAdds, TypeOK
  <2>3. UNCHANGED <<maxRetries, last, dlq, up, loop, todo, busy, leaving, done, tries>>
    BY <1>2 DEF Enqueue, RedriveAdds
  <2> QED
    BY <2>1, <2>2, <2>3, Widened DEF TypeOK, Evolves, LoopStates
<1>3. ASSUME RedriveDeletes PROVE TypeOK' /\ Evolves
  <2>1. dlq' \in [Tasks -> Nat]
    BY <1>3 DEF RedriveDeletes, RedriveInv, Exhumed, TypeOK
  <2> QED
    BY <1>0, <1>3, <2>1, TroubleType DEF RedriveDeletes, TypeOK, Ids
<1>4. ASSUME NEW m \in Ids, Ripen(m) PROVE TypeOK' /\ Evolves
  <2>1. Evolves /\ Ids' = Ids /\ Len(log') = Len(log)
    <3>1. log' = [log EXCEPT ![m] = [log[m] EXCEPT !.ripe = TRUE]]
      BY <1>4 DEF Ripen, TypeOK
    <3> QED
      BY <3>1, Marks, MarkedOne DEF Entries
  <2> QED
    BY <1>4, <2>1 DEF Ripen, TypeOK, Evolves
<1>5. ASSUME NEW w \in Workers, ReadTask(w) PROVE TypeOK' /\ Evolves
  <2>1. PICK m \in Ids :
            /\ last' = m /\ log' = [log EXCEPT ![m] = Given(log[m], w)]
            /\ \/ /\ loop' = [loop EXCEPT ![w]["consumer"] = [pc |-> "check", msg |-> m, retry |-> log[m].retry]]
                  /\ UNCHANGED trouble
               \/ Trouble /\ UNCHANGED loop
    BY <1>5 DEF ReadTask, TypeOK
  <2>2. Evolves /\ Ids' = Ids /\ Len(log') = Len(log)
    BY <2>1, Marks, MarkedOne
  <2>3. [pc |-> "check", msg |-> m, retry |-> log[m].retry] \in LoopStates
    <3>1. log[m].retry \in Nat /\ m \in 0..Len(log)
      BY LogFacts
    <3> QED
      BY <3>1 DEF LoopStates, Pcs
  <2>4. loop' \in [Workers -> [Loops -> LoopStates]]
    <3> DEFINE r == [pc |-> "check", msg |-> m, retry |-> log[m].retry]
    <3>1. loop' = [loop EXCEPT ![w]["consumer"] = r] \/ loop' = loop
      BY <2>1
    <3>2. r \in LoopStates
      BY <2>3
    <3> HIDE DEF r
    <3>3. loop \in [Workers -> [Loops -> LoopStates]] /\ "consumer" \in Loops
      BY DEF TypeOK, LoopStates, Loops
    <3> QED
      BY <3>1, <3>2, <3>3
  <2>5. trouble' \in 0..MaxTrouble
    BY <2>1, TroubleType
  <2>6. last' \in 0..Len(log')
    BY <2>1, <2>2 DEF Ids
  <2>7. UNCHANGED <<maxRetries, dlq, up, todo, busy, leaving, redrive, done, tries>>
    BY <1>5 DEF ReadTask
  <2> QED
    BY <2>2, <2>4, <2>5, <2>6, <2>7 DEF TypeOK, Evolves, LoopStates
<1>6. ASSUME NEW w \in Workers, OrphanWakes(w) PROVE TypeOK' /\ Evolves
  <2>1. loop' \in [Workers -> [Loops -> LoopStates]]
    BY <1>6, LoopGoes DEF OrphanWakes, Pcs, Loops
  <2> QED
    BY <1>0, <1>6, <2>1 DEF OrphanWakes, TypeOK, LoopStates, Ids
<1>7. ASSUME NEW w \in Workers, ClaimOrphans(w) PROVE TypeOK' /\ Evolves
  <2>1. loop' \in [Workers -> [Loops -> LoopStates]]
    BY <1>7, LoopGoes DEF ClaimOrphans, Pcs, Loops
  <2>2. Evolves /\ Ids' = Ids /\ Len(log') = Len(log)
    BY <1>7, ClaimMarks
  <2>3. todo' \in [Workers -> SUBSET Ids]
    BY <1>7 DEF ClaimOrphans, TypeOK, Claimed, Ripe
  <2>4. tries' \in [Tasks -> Nat] /\ trouble' \in 0..MaxTrouble
    <3>1. trouble' \in 0..MaxTrouble
      BY <1>7, TroubleType DEF ClaimOrphans
    <3>2. (\E T : tries' = Tried(T)) \/ tries' = tries
      BY <1>7 DEF ClaimOrphans
    <3> QED
      BY <3>1, <3>2, TriedType DEF TypeOK
  <2> QED
    BY <1>7, <2>1, <2>2, <2>3, <2>4 DEF ClaimOrphans, TypeOK, Evolves, LoopStates
<1>8. ASSUME NEW w \in Workers, NextClaimed(w) PROVE TypeOK' /\ Evolves
  <2>1. PICK m \in todo[w] :
            /\ todo' = [todo EXCEPT ![w] = @ \ {m}]
            /\ loop' = [loop EXCEPT ![w]["orphan"] = [pc |-> "check", msg |-> m, retry |-> log[m].retry + 1]]
    BY <1>8 DEF NextClaimed
  <2>2. m \in Ids /\ log[m].retry \in Nat
    BY LogFacts DEF TypeOK
  <2>3. [pc |-> "check", msg |-> m, retry |-> log[m].retry + 1] \in LoopStates
    BY <2>2 DEF LoopStates, Pcs, Ids
  <2>4. loop' \in [Workers -> [Loops -> LoopStates]]
    BY <2>1, <2>3 DEF TypeOK, LoopStates, Loops
  <2>5. todo' \in [Workers -> SUBSET Ids]
    BY <2>1 DEF TypeOK
  <2> QED
    BY <1>0, <1>8, <2>4, <2>5 DEF NextClaimed, TypeOK, LoopStates, Ids
<1>9. ASSUME NEW w \in Workers, NEW l \in Loops, EnterProcess(w, l) PROVE TypeOK' /\ Evolves
  <2>1. loop' \in [Workers -> [Loops -> LoopStates]]
    <3>1. CASE Goes(w, l, "run")
      BY <3>1, LoopGoes DEF Pcs
    <3>2. CASE loop' = [loop EXCEPT ![w][l] = Idle]
      BY <3>2 DEF Idle, LoopStates, Pcs, TypeOK
    <3> QED
      BY <1>9, <3>1, <3>2 DEF EnterProcess
  <2>2. busy' \in [Workers -> Tasks \cup {None}]
    BY <1>9, HeldEntry DEF EnterProcess, At, Holding, TypeOK
  <2>3. tries' \in [Tasks -> Nat]
    BY <1>9, TriedType DEF EnterProcess, TypeOK
  <2> QED
    BY <1>0, <1>9, <2>1, <2>2, <2>3 DEF EnterProcess, TypeOK, LoopStates, Ids
<1>10. ASSUME NEW w \in Workers, NEW l \in Loops, RunProcessor(w, l) PROVE TypeOK' /\ Evolves
  <2>1. loop' \in [Workers -> [Loops -> LoopStates]]
    BY <1>10, LoopGoes DEF RunProcessor, Pcs, RejectsFrom
  <2>2. done' \in SUBSET Tasks
    BY <1>10, HeldEntry DEF RunProcessor, At, Holding, InProcess, TypeOK
  <2> QED
    BY <1>0, <1>10, <2>1, <2>2, TroubleType DEF RunProcessor, TypeOK, LoopStates, Ids
<1>11. ASSUME NEW w \in Workers, NEW l \in Loops, Acknowledge(w, l) PROVE TypeOK' /\ Evolves
  <2>1. loop[w][l].msg \in Ids
    BY <1>11, HeldEntry DEF Acknowledge, At, Holding, InProcess
  <2>2. Evolves /\ Ids' = Ids /\ Len(log') = Len(log)
    BY <1>0, <1>11, <2>1, Acked DEF Acknowledge, Ids
  <2>3. loop' \in [Workers -> [Loops -> LoopStates]] /\ busy' \in [Workers -> Tasks \cup {None}]
    BY <1>11, LoopGoes, LoopReturns DEF Acknowledge, Pcs, TypeOK
  <2> QED
    BY <1>11, <2>2, <2>3 DEF Acknowledge, TypeOK, Evolves, LoopStates
<1>12. ASSUME NEW w \in Workers, NEW l \in Loops, DeleteEntry(w, l) PROVE TypeOK' /\ Evolves
  <2>1. loop[w][l].msg \in Ids
    BY <1>12, HeldEntry DEF DeleteEntry, At, Holding, InProcess
  <2>2. log' = [log EXCEPT ![loop[w][l].msg] = [log[loop[w][l].msg] EXCEPT !.kept = FALSE]]
    BY <1>12 DEF DeleteEntry, TypeOK
  <2>3. Evolves /\ Ids' = Ids /\ Len(log') = Len(log)
    BY <2>1, <2>2, Marks, MarkedOne DEF Entries
  <2>4. loop' \in [Workers -> [Loops -> LoopStates]] /\ busy' \in [Workers -> Tasks \cup {None}]
    BY <1>12, LoopReturns DEF DeleteEntry
  <2> QED
    BY <1>12, <2>3, <2>4 DEF DeleteEntry, TypeOK, Evolves, LoopStates
<1>13. ASSUME NEW w \in Workers, NEW l \in Loops, RejectTask(w, l) PROVE TypeOK' /\ Evolves
  <2>1. Task(w, l) \in Tasks /\ loop[w][l].retry + 1 \in Nat
    BY <1>13, HeldEntry DEF RejectTask, At, Holding, InProcess
  <2>2. Evolves
    BY <1>0, <1>13, <2>1, Added DEF RejectTask
  <2>3. loop' \in [Workers -> [Loops -> LoopStates]]
    BY <1>13, LoopGoes DEF RejectTask, Pcs
  <2>4. dlq' \in [Tasks -> Nat]
    BY <1>13, <2>1 DEF RejectTask, TypeOK
  <2> QED
    BY <1>13, <2>2, <2>3, <2>4, Widened DEF RejectTask, TypeOK, Evolves
<1>14. ASSUME NEW w \in Workers, NEW l \in Loops, DropOriginal(w, l) PROVE TypeOK' /\ Evolves
  <2>1. loop[w][l].msg \in Ids
    BY <1>14, HeldEntry DEF DropOriginal, At, Holding, InProcess
  <2>2. Evolves /\ Ids' = Ids /\ Len(log') = Len(log)
    BY <1>14, <2>1, Acked DEF DropOriginal
  <2>3. loop' \in [Workers -> [Loops -> LoopStates]] /\ busy' \in [Workers -> Tasks \cup {None}]
    BY <1>14, LoopReturns DEF DropOriginal
  <2> QED
    BY <1>14, <2>2, <2>3 DEF DropOriginal, TypeOK, Evolves, LoopStates
<1>15. ASSUME NEW w \in Workers, NEW l \in Loops, CommandFails(w, l) PROVE TypeOK' /\ Evolves
  <2>1. loop' \in [Workers -> [Loops -> LoopStates]] /\ busy' \in [Workers -> Tasks \cup {None}]
    BY <1>15, LoopGoes, LoopReturns DEF CommandFails, Pcs, RejectsFrom, TypeOK
  <2>2. todo' \in [Workers -> SUBSET Ids]
    BY <1>15 DEF CommandFails, TypeOK
  <2> QED
    BY <1>0, <1>15, <2>1, <2>2, TroubleType DEF CommandFails, TypeOK, LoopStates, Ids
<1>16. ASSUME NEW w \in Workers, Kill(w) PROVE TypeOK' /\ Evolves
  <2>1. Evolves /\ Ids' = Ids /\ Len(log') = Len(log)
    BY <1>16, OrphanMarks DEF Kill
  <2>2. leaving' \in [Workers -> SUBSET Ids] /\ up' \in [Workers -> {"running", "stopping", "down"}]
    BY <1>16 DEF Kill, TypeOK
  <2>3. /\ loop' \in [Workers -> [Loops -> LoopStates]] /\ busy' \in [Workers -> Tasks \cup {None}]
        /\ todo' \in [Workers -> SUBSET Ids]
    BY <1>16, AllForgotten DEF Kill
  <2> QED
    BY <1>16, <2>1, <2>2, <2>3, TroubleType DEF Kill, TypeOK, Evolves, LoopStates
<1>17. ASSUME NEW w \in Workers, Stop(w) PROVE TypeOK' /\ Evolves
  <2>1. leaving' \in [Workers -> SUBSET Ids] /\ up' \in [Workers -> {"running", "stopping", "down"}]
    BY <1>17 DEF Stop, TypeOK
  <2>2. /\ loop' \in [Workers -> [Loops -> LoopStates]] /\ busy' \in [Workers -> Tasks \cup {None}]
        /\ todo' \in [Workers -> SUBSET Ids]
    BY <1>17, AllForgotten DEF Stop
  <2> QED
    BY <1>0, <1>17, <2>1, <2>2, TroubleType DEF Stop, TypeOK, LoopStates, Ids
<1>18. ASSUME NEW w \in Workers, ReleasePending(w) PROVE TypeOK' /\ Evolves
  <2>1. PICK m \in leaving[w] :
            /\ leaving' = [leaving EXCEPT ![w] = @ \ {m}]
            /\ log' = IF log[m].kept THEN [log EXCEPT ![m] = Given(@, Released)] ELSE log
    BY <1>18 DEF ReleasePending
  <2>2. m \in Ids
    BY DEF TypeOK
  <2>3. Evolves /\ Ids' = Ids /\ Len(log') = Len(log)
    <3>1. CASE log[m].kept
      <4>1. log' = [log EXCEPT ![m] = Given(log[m], Released)]
        BY <2>1, <3>1 DEF TypeOK
      <4> QED
        BY <2>2, <4>1, Marks, MarkedOne
    <3> QED
      BY <1>0, <2>1, <3>1 DEF Ids
  <2>4. leaving' \in [Workers -> SUBSET Ids]
    BY <2>1 DEF TypeOK
  <2> QED
    BY <1>18, <2>3, <2>4 DEF ReleasePending, TypeOK, Evolves, LoopStates
<1>19. ASSUME NEW w \in Workers, Disconnected(w) PROVE TypeOK' /\ Evolves
  <2>1. Evolves /\ Ids' = Ids /\ Len(log') = Len(log)
    BY <1>19, OrphanMarks DEF Disconnected
  <2> QED
    BY <1>19, <2>1 DEF Disconnected, TypeOK, Evolves, LoopStates
<1>20. ASSUME NEW w \in Workers, Restart(w) PROVE TypeOK' /\ Evolves
  BY <1>0, <1>20 DEF Restart, TypeOK, Ids
<1> QED
  BY <1>1, <1>2, <1>3, <1>4, <1>5, <1>6, <1>7, <1>8, <1>9, <1>10, <1>11, <1>12, <1>13, <1>14,
     <1>15, <1>16, <1>17, <1>18, <1>19, <1>20
     DEF Next, ConsumerStep, OrphanStep, ProcessStep, StopStep, Loops

--------------------------------------------------------------------------------
(* One task at a time *)

\* A step that leaves the loops alone keeps what is known of them.
LEMMA LoopsKept ==
    ASSUME TypeOK, LoopInv, BusyInv, Evolves, UNCHANGED <<loop, busy, up>>
    PROVE  LoopInv' /\ BusyInv'
<1>1. LoopInv'
  BY DEF LoopInv, Evolves
<1>2. \A w \in Workers, l \in Loops : loop[w][l].pc \in InProcess => Task(w, l)' = Task(w, l)
  BY DEF LoopInv, Holding, Task, Evolves
<1> QED
  BY <1>1, <1>2 DEF BusyInv

\* A worker that processes nothing has both loops elsewhere.
LEMMA FreeMeans ==
    ASSUME TypeOK, LoopInv, BusyInv, NEW w \in Workers, busy[w] = None, NEW l \in Loops
    PROVE  loop[w][l].pc \notin InProcess
  BY HeldEntry, NamesAssumption DEF BusyInv, Holding

\* A step of one loop keeps it when the loop stays in _process_task with the task it
\* entered with, enters while the worker is free, leaves and clears busy, or stays out.
LEMMA OneLoop ==
    ASSUME TypeOK, LoopInv, BusyInv, Evolves, NEW w \in Workers, NEW l \in Loops,
           UNCHANGED up, up[w] = "running",
           \A v \in Workers, k \in Loops : v # w \/ k # l => loop'[v][k] = loop[v][k],
           loop'[w][l].pc \in Holding => loop'[w][l].msg \in Ids,
           \A v \in Workers \ {w} : busy'[v] = busy[v],
           \/ /\ loop'[w][l].pc \in InProcess /\ busy'[w] = log[loop'[w][l].msg].task
              /\ \/ loop[w][l].pc \in InProcess
                 \/ busy[w] = None
           \/ /\ loop'[w][l].pc \notin InProcess
              /\ \/ loop[w][l].pc \in InProcess /\ busy'[w] = None
                 \/ loop[w][l].pc \notin InProcess /\ busy'[w] = busy[w]
    PROVE  LoopInv' /\ BusyInv'
<1>1. LoopInv'
  BY DEF LoopInv, Evolves
<1>2. ASSUME NEW v \in Workers, NEW k \in Loops, v # w \/ k # l, loop[v][k].pc \in InProcess
      PROVE  Task(v, k)' = Task(v, k)
  BY <1>2 DEF LoopInv, Holding, Task, Evolves
<1>3. loop'[w][l].pc \in InProcess => Task(w, l)' = log[loop'[w][l].msg].task
  BY DEF Holding, Task, Evolves
<1>4. ASSUME NEW k \in Loops, k # l, loop[w][k].pc \in InProcess
      PROVE  loop[w][l].pc \notin InProcess /\ busy'[w] = busy[w] /\ loop'[w][l].pc \notin InProcess
  BY <1>4, FreeMeans DEF BusyInv
<1>5. ASSUME NEW v \in Workers, NEW k \in Loops, loop'[v][k].pc \in InProcess
      PROVE  busy'[v] = Task(v, k)'
  BY <1>2, <1>3, <1>4, <1>5 DEF BusyInv
<1>6. ASSUME NEW v \in Workers, NEW k \in Loops, NEW j \in Loops,
             loop'[v][k].pc \in InProcess, loop'[v][j].pc \in InProcess
      PROVE  k = j
  BY <1>4, <1>6 DEF BusyInv
<1>7. ASSUME NEW v \in Workers, busy'[v] # None
      PROVE  \E k \in Loops : loop'[v][k].pc \in InProcess
  <2>1. CASE v # w
    BY <1>7, <2>1 DEF BusyInv
  <2>2. CASE v = w
    BY <1>7, <2>2 DEF BusyInv
  <2> QED
    BY <2>1, <2>2
<1>8. BusyInv'
  BY <1>5, <1>6, <1>7 DEF BusyInv
<1> QED
  BY <1>1, <1>8

\* A worker that forgets everything processes nothing, whatever becomes of it.
LEMMA AllGone ==
    ASSUME TypeOK, LoopInv, BusyInv, Evolves, NEW w \in Workers, Forgotten(w),
           \A v \in Workers \ {w} : up'[v] = up[v]
    PROVE  LoopInv' /\ BusyInv'
<1>1. /\ \A l \in Loops : loop'[w][l] = Idle
      /\ \A v \in Workers \ {w}, k \in Loops : loop'[v][k] = loop[v][k]
      /\ busy'[w] = None /\ \A v \in Workers \ {w} : busy'[v] = busy[v]
  BY AllForgotten
<1>2. Idle.pc \notin Holding /\ Idle.pc \notin InProcess
  BY DEF Idle, Holding, InProcess
<1>3. LoopInv'
  BY <1>1, <1>2 DEF LoopInv, Evolves
<1>4. ASSUME NEW v \in Workers \ {w}, NEW k \in Loops, loop[v][k].pc \in InProcess
      PROVE  Task(v, k)' = Task(v, k)
  BY <1>1, <1>4 DEF LoopInv, Holding, Task, Evolves
<1> QED
  BY <1>1, <1>2, <1>3, <1>4 DEF BusyInv

\* Every step keeps the loops apart.
LEMMA LoopStep == TypeOK /\ LoopInv /\ BusyInv /\ RedriveInv /\ [Next]_vars => LoopInv' /\ BusyInv'
<1> SUFFICES ASSUME TypeOK, LoopInv, BusyInv, RedriveInv, [Next]_vars PROVE LoopInv' /\ BusyInv'
  OBVIOUS
<1>0. Evolves
  BY TypeStep
<1>1. CASE UNCHANGED vars
  BY <1>0, <1>1, LoopsKept DEF vars
<1>2. ASSUME NEW t \in Tasks, Enqueue(t) \/ RedriveAdds(t) PROVE LoopInv' /\ BusyInv'
  BY <1>0, <1>2, LoopsKept DEF Enqueue, RedriveAdds
<1>3. CASE RedriveDeletes
  BY <1>0, <1>3, LoopsKept DEF RedriveDeletes
<1>4. ASSUME NEW m \in Ids, Ripen(m) PROVE LoopInv' /\ BusyInv'
  BY <1>0, <1>4, LoopsKept DEF Ripen
<1>5. ASSUME NEW w \in Workers, ReadTask(w) PROVE LoopInv' /\ BusyInv'
  <2>1. PICK m \in Ids : \/ loop' = [loop EXCEPT ![w]["consumer"] = [pc |-> "check", msg |-> m, retry |-> log[m].retry]]
                         \/ UNCHANGED loop
    BY <1>5 DEF ReadTask
  <2>2. up[w] = "running" /\ loop[w]["consumer"].pc \notin InProcess /\ UNCHANGED <<up, busy>>
    BY <1>5 DEF ReadTask, At, InProcess
  <2>3. CASE UNCHANGED loop
    BY <1>0, <2>2, <2>3, LoopsKept
  <2>4. CASE loop' = [loop EXCEPT ![w]["consumer"] = [pc |-> "check", msg |-> m, retry |-> log[m].retry]]
    <3> DEFINE r == [pc |-> "check", msg |-> m, retry |-> log[m].retry]
    <3>1. r \in LoopStates /\ r.pc \notin InProcess /\ r.msg \in Ids
      BY LogFacts DEF LoopStates, Pcs, InProcess
    <3>2. "consumer" \in Loops /\ Sets(w, "consumer", r)
      BY <2>4 DEF Loops, Sets
    <3> HIDE DEF r
    <3>3. /\ loop'[w]["consumer"] = r
          /\ \A v \in Workers, k \in Loops : v # w \/ k # "consumer" => loop'[v][k] = loop[v][k]
      BY <3>1, <3>2, LoopSet
    <3> QED
      BY <1>0, <2>2, <3>1, <3>2, <3>3, OneLoop
  <2> QED
    BY <2>1, <2>3, <2>4
<1>6. ASSUME NEW w \in Workers, OrphanWakes(w) \/ ClaimOrphans(w) PROVE LoopInv' /\ BusyInv'
  <2>1. PICK s \in {"claim", "idle"} : Goes(w, "orphan", s)
    BY <1>6 DEF OrphanWakes, ClaimOrphans
  <2>2. /\ up[w] = "running" /\ loop[w]["orphan"].pc \notin InProcess /\ UNCHANGED <<up, busy>>
        /\ s \in Pcs /\ s \notin Holding /\ s \notin InProcess /\ "orphan" \in Loops
    BY <1>6 DEF OrphanWakes, ClaimOrphans, At, InProcess, Holding, Pcs, Loops
  <2>3. /\ loop'[w]["orphan"].pc = s
        /\ \A v \in Workers, k \in Loops : v # w \/ k # "orphan" => loop'[v][k] = loop[v][k]
    BY <2>1, <2>2, LoopGoes
  <2> QED
    BY <1>0, <2>2, <2>3, OneLoop
<1>7. ASSUME NEW w \in Workers, NextClaimed(w) PROVE LoopInv' /\ BusyInv'
  <2>1. PICK m \in todo[w] : loop' = [loop EXCEPT ![w]["orphan"] = [pc |-> "check", msg |-> m, retry |-> log[m].retry + 1]]
    BY <1>7 DEF NextClaimed
  <2>2. /\ up[w] = "running" /\ loop[w]["orphan"].pc \notin InProcess /\ UNCHANGED <<up, busy>>
        /\ "orphan" \in Loops
    BY <1>7 DEF NextClaimed, At, InProcess, Loops
  <2> DEFINE r == [pc |-> "check", msg |-> m, retry |-> log[m].retry + 1]
  <2>3. m \in Ids
    BY DEF TypeOK
  <2>4. r \in LoopStates /\ r.pc \notin InProcess /\ r.msg \in Ids
    BY <2>3, LogFacts DEF LoopStates, Pcs, InProcess
  <2>5. Sets(w, "orphan", r)
    BY <2>1 DEF Sets
  <2> HIDE DEF r
  <2>6. /\ loop'[w]["orphan"] = r
        /\ \A v \in Workers, k \in Loops : v # w \/ k # "orphan" => loop'[v][k] = loop[v][k]
    BY <2>2, <2>4, <2>5, LoopSet
  <2> QED
    BY <1>0, <2>2, <2>4, <2>6, OneLoop
<1>8. ASSUME NEW w \in Workers, NEW l \in Loops, EnterProcess(w, l) PROVE LoopInv' /\ BusyInv'
  <2>1. up[w] = "running" /\ loop[w][l].pc = "check" /\ UNCHANGED up /\ loop[w][l].pc \notin InProcess
    BY <1>8 DEF EnterProcess, At, InProcess
  <2>2. loop[w][l].msg \in Ids
    BY <2>1 DEF LoopInv, Holding
  <2>3. CASE Free(w)
    <3>1. Goes(w, l, "run") /\ busy' = [busy EXCEPT ![w] = Task(w, l)]
      BY <1>8, <2>3 DEF EnterProcess
    <3>2. /\ loop'[w][l].pc = "run" /\ loop'[w][l].msg = loop[w][l].msg
          /\ \A v \in Workers, k \in Loops : v # w \/ k # l => loop'[v][k] = loop[v][k]
      BY <3>1, LoopGoes DEF Pcs
    <3>3. busy'[w] = log[loop'[w][l].msg].task /\ \A v \in Workers \ {w} : busy'[v] = busy[v]
      BY <3>1, <3>2 DEF TypeOK, Task
    <3>4. loop'[w][l].pc \in InProcess /\ busy[w] = None
      BY <2>3, <3>2 DEF Free, InProcess
    <3> QED
      BY <1>0, <2>1, <2>2, <3>2, <3>3, <3>4, OneLoop
  <2>4. CASE ~Free(w)
    <3>1. Sets(w, l, Idle) /\ UNCHANGED busy
      BY <1>8, <2>4 DEF EnterProcess, Sets
    <3>2. Idle \in LoopStates /\ Idle.pc \notin Holding /\ Idle.pc \notin InProcess
      BY DEF Idle, LoopStates, Pcs, TypeOK, Holding, InProcess
    <3>3. /\ loop'[w][l] = Idle
          /\ \A v \in Workers, k \in Loops : v # w \/ k # l => loop'[v][k] = loop[v][k]
      BY <3>1, <3>2, LoopSet
    <3> QED
      BY <1>0, <2>1, <3>1, <3>2, <3>3, OneLoop
  <2> QED
    BY <2>3, <2>4
\* inside _process_task
<1>9. ASSUME NEW w \in Workers, NEW l \in Loops, NEW s \in InProcess,
             up[w] = "running", loop[w][l].pc \in InProcess, Goes(w, l, s), UNCHANGED <<busy, up>>
      PROVE  LoopInv' /\ BusyInv'
  <2>1. loop[w][l].msg \in Ids /\ busy[w] = Task(w, l)
    BY <1>9 DEF LoopInv, BusyInv, Holding
  <2>2. s \in Pcs /\ Goes(w, l, s)
    BY <1>9 DEF Pcs, InProcess
  <2>3. /\ loop'[w][l].pc = s /\ loop'[w][l].msg = loop[w][l].msg
        /\ \A v \in Workers, k \in Loops : v # w \/ k # l => loop'[v][k] = loop[v][k]
    BY <2>2, LoopGoes
  <2>4. busy'[w] = log[loop'[w][l].msg].task
    BY <1>9, <2>1, <2>3 DEF Task
  <2> QED
    BY <1>0, <1>9, <2>1, <2>3, <2>4, OneLoop
<1>10. ASSUME NEW w \in Workers, NEW l \in Loops,
              up[w] = "running", loop[w][l].pc \in InProcess, Returns(w, l), UNCHANGED up
       PROVE  LoopInv' /\ BusyInv'
  <2>1. /\ loop'[w][l] = Idle
        /\ \A v \in Workers, k \in Loops : v # w \/ k # l => loop'[v][k] = loop[v][k]
        /\ busy'[w] = None /\ \A v \in Workers \ {w} : busy'[v] = busy[v]
    BY <1>10, LoopReturns
  <2>2. Idle.pc \notin Holding /\ Idle.pc \notin InProcess
    BY DEF Idle, Holding, InProcess
  <2> QED
    BY <1>0, <1>10, <2>1, <2>2, OneLoop
<1>11. ASSUME NEW w \in Workers, NEW l \in Loops, RunProcessor(w, l) PROVE LoopInv' /\ BusyInv'
  BY <1>9, <1>11 DEF RunProcessor, At, InProcess, RejectsFrom
<1>12. ASSUME NEW w \in Workers, NEW l \in Loops, Acknowledge(w, l) PROVE LoopInv' /\ BusyInv'
  BY <1>9, <1>10, <1>12 DEF Acknowledge, At, InProcess
<1>13. ASSUME NEW w \in Workers, NEW l \in Loops, DeleteEntry(w, l) \/ DropOriginal(w, l) PROVE LoopInv' /\ BusyInv'
  BY <1>10, <1>13 DEF DeleteEntry, DropOriginal, At, InProcess
<1>14. ASSUME NEW w \in Workers, NEW l \in Loops, RejectTask(w, l) PROVE LoopInv' /\ BusyInv'
  BY <1>9, <1>14 DEF RejectTask, At, InProcess
<1>15. ASSUME NEW w \in Workers, NEW l \in Loops, CommandFails(w, l) PROVE LoopInv' /\ BusyInv'
  BY <1>9, <1>10, <1>15 DEF CommandFails, InProcess, RejectsFrom
<1>16. ASSUME NEW w \in Workers, Kill(w) \/ Stop(w) PROVE LoopInv' /\ BusyInv'
  BY <1>0, <1>16, AllGone DEF Kill, Stop, TypeOK
<1>17. ASSUME NEW w \in Workers, ReleasePending(w) PROVE LoopInv' /\ BusyInv'
  BY <1>0, <1>17, LoopsKept DEF ReleasePending
<1>18. ASSUME NEW w \in Workers, Disconnected(w) \/ Restart(w) PROVE LoopInv' /\ BusyInv'
  <2>1. up[w] # "running" /\ \A v \in Workers \ {w} : up'[v] = up[v]
    BY <1>18 DEF Disconnected, Restart, TypeOK
  <2>2. UNCHANGED <<loop, busy>>
    BY <1>18 DEF Disconnected, Restart
  <2>3. LoopInv'
    BY <1>0, <2>1, <2>2 DEF LoopInv, Evolves
  <2>4. \A v \in Workers, l \in Loops : loop[v][l].pc \in InProcess => Task(v, l)' = Task(v, l)
    BY <1>0, <2>2 DEF LoopInv, Holding, Task, Evolves
  <2> QED
    BY <2>2, <2>3, <2>4 DEF BusyInv
<1> QED
  BY <1>1, <1>2, <1>3, <1>4, <1>5, <1>6, <1>7, <1>8, <1>11, <1>12, <1>13, <1>14, <1>15, <1>16,
     <1>17, <1>18
     DEF Next, ConsumerStep, OrphanStep, ProcessStep, StopStep, Loops

--------------------------------------------------------------------------------
(* No task is lost *)

\* The step takes no task's safety away.
Preserved == \A t \in Tasks, n \in 0..Len(log) : Safe(t, n) => Safe(t, n)'

\* It does not when what makes the task safe stays: the success, the dead letter and
\* every entry that would be handed out.
LEMMA Stays ==
    ASSUME TypeOK, Evolves, NEW t \in Tasks, NEW n \in 0..Len(log), Safe(t, n),
           done \subseteq done', Buried(t) => Buried(t)',
           \A k \in Ids : log[k].task = t /\ Here(k) => Here(k)'
    PROVE  Safe(t, n)'
  BY DEF Safe, Evolves

\* SafeInv is kept when tasks stay safe, added entries are safe, and the loops that
\* come to a step it speaks of satisfy it.
LEMMA SafeKept ==
    ASSUME TypeOK, LoopInv, SafeInv, Evolves, Preserved, done \subseteq done',
           \A m \in Ids' \ Ids : Safe(log[m].task, 0)',
           \A w \in Workers, l \in Loops :
              \/ loop'[w][l] = loop[w][l]
              \/ loop'[w][l].pc \in {"ack", "del"} /\ Task(w, l)' \in done'
              \/ loop'[w][l].pc = "drop" /\ Safe(Task(w, l), loop[w][l].msg)'
              \/ loop'[w][l].pc \notin {"ack", "del", "drop"}
    PROVE  SafeInv'
<1>1. ASSUME NEW m \in Ids' PROVE Safe(log[m].task, 0)'
  <2>1. CASE m \in Ids
    <3>1. Safe(log[m].task, 0) /\ log[m].task \in Tasks /\ 0 \in 0..Len(log)
      BY <2>1, LogFacts DEF SafeInv
    <3>2. log'[m].task = log[m].task
      BY <2>1 DEF Evolves
    <3> QED
      BY <3>1, <3>2 DEF Preserved, Safe
  <2> QED
    BY <2>1
<1>2. ASSUME NEW w \in Workers, NEW l \in Loops, loop'[w][l] = loop[w][l]
      PROVE  /\ loop'[w][l].pc \in {"ack", "del"} => Task(w, l)' \in done'
             /\ loop'[w][l].pc = "drop" => Safe(Task(w, l), loop[w][l].msg)'
  <2>1. CASE loop[w][l].pc \in {"ack", "del", "drop"}
    <3>1. /\ loop[w][l].msg \in Ids /\ loop[w][l].msg \in 0..Len(log) /\ Task(w, l) \in Tasks
      BY <2>1, HeldEntry, LogFacts DEF Holding, InProcess
    <3>2. Task(w, l)' = Task(w, l)
      BY <1>2, <3>1 DEF Task, Evolves
    <3>3. loop[w][l].pc \in {"ack", "del"} => Task(w, l) \in done
      BY DEF SafeInv
    <3>4. loop[w][l].pc = "drop" => Safe(Task(w, l), loop[w][l].msg)
      BY DEF SafeInv
    <3> QED
      BY <1>2, <3>1, <3>2, <3>3, <3>4 DEF Preserved, Safe
  <2> QED
    BY <1>2, <2>1
<1> QED
  BY <1>1, <1>2 DEF SafeInv

\* A step that leaves the dead letters, the redrive and the given entries alone and
\* takes no entry from the stream.
LEMMA NothingTaken ==
    ASSUME TypeOK, Evolves, done \subseteq done', UNCHANGED <<dlq, redrive>>,
           \A k \in Ids : Here(k) => Here(k)'
    PROVE  Preserved
<1> SUFFICES ASSUME NEW t \in Tasks, NEW n \in 0..Len(log), Safe(t, n) PROVE Safe(t, n)'
  BY DEF Preserved
<1>1. Buried(t) => Buried(t)'
  BY DEF Buried
<1> QED
  BY <1>1, Stays

\* The same when an entry of a task that succeeded is taken.
LEMMA DoneTaken ==
    ASSUME TypeOK, Evolves, UNCHANGED <<dlq, redrive, last, done>>, Ids' = Ids, NEW m \in Ids,
           \A k \in Ids \ {m} : log'[k] = log[k], log[m].task \in done
    PROVE  Preserved
<1> SUFFICES ASSUME NEW t \in Tasks, NEW n \in 0..Len(log), Safe(t, n) PROVE Safe(t, n)'
  BY DEF Preserved
<1>1. CASE t \in done
  BY <1>1 DEF Safe
<1>2. CASE t \notin done
  <2>1. \A k \in Ids : log[k].task = t /\ Here(k) => Here(k)'
    BY <1>2 DEF Here, Pending
  <2>2. Buried(t) => Buried(t)'
    BY DEF Buried
  <2> QED
    BY <2>1, <2>2, Stays
<1> QED
  BY <1>1, <1>2

\* XREADGROUP hands one entry out and passes only deleted ones over.
LEMMA ReadMarks ==
    ASSUME TypeOK, NEW w \in Workers, ReadTask(w)
    PROVE  Ids' = Ids /\ \A k \in Ids : Here(k) <=> Here(k)'
<1>1. PICK m \in Ids : NextEntry(m) /\ last' = m /\ log' = [log EXCEPT ![m] = Given(log[m], w)]
  BY DEF ReadTask, TypeOK
<1>2. /\ Ids' = Ids /\ \A k \in Ids \ {m} : log'[k] = log[k]
      /\ log'[m].owner = w /\ log'[m].kept = log[m].kept
  BY <1>1, GivenTo
<1>3. w # None
  BY NamesAssumption
<1>4. \A k \in Ids : k \in Nat
  BY LogFacts DEF Ids
<1>5. m \in Nat /\ last \in Nat
  BY <1>4 DEF TypeOK
<1>6. ASSUME NEW k \in Ids, k # m PROVE Here(k) <=> Here(k)'
  <2>1. log'[k] = log[k] /\ (Pending(k)' <=> Pending(k))
    BY <1>2, <1>6 DEF Pending
  <2>2. log[k].kept => (k > last <=> k > m)
    <3>1. m > last /\ (k > last /\ k < m => ~log[k].kept)
      BY <1>1 DEF NextEntry
    <3> QED
      BY <1>4, <1>5, <1>6, <3>1
  <2> QED
    BY <1>1, <2>1, <2>2 DEF Here
<1>7. Here(m) <=> Here(m)'
  BY <1>1, <1>2, <1>3 DEF Here, Pending, NextEntry
<1> QED
  BY <1>2, <1>6, <1>7

\* Every step keeps every task safe.
LEMMA SafeStep ==
    TypeOK /\ LoopInv /\ BusyInv /\ SafeInv /\ RedriveInv /\ [Next]_vars => SafeInv'
<1> SUFFICES ASSUME TypeOK, LoopInv, BusyInv, SafeInv, RedriveInv, [Next]_vars PROVE SafeInv'
  OBVIOUS
<1>0. Evolves /\ TypeOK'
  BY TypeStep
\* steps that leave the stream as it is
<1>a. ASSUME UNCHANGED <<log, last>> PROVE Ids' = Ids /\ \A k \in Ids : Here(k) => Here(k)'
  BY <1>a DEF Ids, Here, Pending
<1>1. CASE UNCHANGED vars
  <2>1. Preserved /\ Ids' = Ids /\ done' = done
    BY <1>0, <1>1, <1>a, NothingTaken DEF vars
  <2> QED
    BY <1>0, <1>1, <2>1, SafeKept DEF vars
<1>2. ASSUME NEW t \in Tasks, Enqueue(t) \/ RedriveAdds(t) PROVE SafeInv'
  <2>0. Xadd(t, 0) /\ UNCHANGED <<last, dlq, loop, done>>
    BY <1>2 DEF Enqueue, RedriveAdds
  <2>1. PICK e \in Nat :
            /\ e = Len(log) + 1 /\ e > last /\ Ids' = Ids \cup {e} /\ log'[e] = NewEntry(t, 0)
            /\ \A k \in Ids : log'[k] = log[k]
    BY <2>0, NewIsLast, 0 \in Nat
  <2>2. UNCHANGED <<last, dlq, loop, done>>
    BY <2>0
  <2>3. log'[e].task = t /\ Here(e)' /\ e \in Ids'
    BY <2>1, <2>2 DEF Here, NewEntry
  <2>4. ASSUME NEW n \in 0..Len(log) PROVE Safe(t, n)'
    <3>1. e > n
      BY <2>1, LogFacts
    <3> QED
      BY <2>3, <3>1 DEF Safe
  <2>5. ASSUME NEW s \in Tasks, s # t, NEW n \in 0..Len(log), Safe(s, n) PROVE Safe(s, n)'
    <3>1. \A k \in Ids : Here(k) => Here(k)'
      BY <2>1, <2>2 DEF Here, Pending
    <3>2. Buried(s) => Buried(s)'
      BY <1>2, <2>2, <2>5 DEF Enqueue, RedriveAdds, Buried, TypeOK
    <3> QED
      BY <1>0, <2>2, <2>5, <3>1, <3>2, Stays
  <2>6. Preserved
    BY <2>4, <2>5 DEF Preserved
  <2>7. \A m \in Ids' \ Ids : Safe(log[m].task, 0)'
    <3>1. Safe(t, 0)'
      BY <2>4, LogFacts
    <3>2. \A m \in Ids' \ Ids : log'[m].task = t
      BY <2>1, <2>3
    <3> QED
      BY <3>1, <3>2 DEF Safe
  <2> QED
    BY <1>0, <2>2, <2>6, <2>7, SafeKept
<1>3. CASE RedriveDeletes
  <2>1. UNCHANGED <<log, last, loop, done>> /\ redrive # None /\ redrive' = None
    BY <1>3 DEF RedriveDeletes
  <2>2. Preserved
    <3> SUFFICES ASSUME NEW t \in Tasks, NEW n \in 0..Len(log), Safe(t, n) PROVE Safe(t, n)'
      BY DEF Preserved
    <3>1. Buried(t) => Buried(t)'
      BY <1>3, NamesAssumption DEF RedriveDeletes, Buried, Exhumed, TypeOK
    <3> QED
      BY <1>0, <1>a, <2>1, <3>1, Stays
  <2> QED
    BY <1>0, <1>a, <2>1, <2>2, SafeKept
<1>4. ASSUME NEW m \in Ids, Ripen(m) PROVE SafeInv'
  <2>1. UNCHANGED <<last, dlq, loop, redrive, done>> /\ Ids' = Ids /\ \A k \in Ids : Here(k) => Here(k)'
    <3>1. log' = [log EXCEPT ![m] = [log[m] EXCEPT !.ripe = TRUE]]
      BY <1>4 DEF Ripen, TypeOK
    <3>2. Ids' = Ids /\ log'[m] = [log[m] EXCEPT !.ripe = TRUE] /\ \A k \in Ids \ {m} : log'[k] = log[k]
      BY <3>1, Marks, MarkedOne DEF Entries
    <3>3. log'[m].kept = log[m].kept /\ log'[m].owner = log[m].owner
      BY <3>2, Marks DEF Entries
    <3>4. UNCHANGED <<last, dlq, loop, redrive, done>>
      BY <1>4 DEF Ripen
    <3> QED
      BY <3>2, <3>3, <3>4 DEF Here, Pending
  <2> QED
    BY <1>0, <2>1, NothingTaken, SafeKept
<1>5. ASSUME NEW w \in Workers, ReadTask(w) PROVE SafeInv'
  <2>1. PICK m \in Ids :
            \/ loop' = [loop EXCEPT ![w]["consumer"] = [pc |-> "check", msg |-> m, retry |-> log[m].retry]]
            \/ UNCHANGED loop
    BY <1>5 DEF ReadTask
  <2>2. Ids' = Ids /\ \A k \in Ids : Here(k) => Here(k)'
    BY <1>5, ReadMarks
  <2>4. UNCHANGED <<dlq, redrive, done>>
    BY <1>5 DEF ReadTask
  <2>5. \A v \in Workers, k \in Loops : loop'[v][k] = loop[v][k] \/ loop'[v][k].pc = "check"
    <3> DEFINE r == [pc |-> "check", msg |-> m, retry |-> log[m].retry]
    <3>1. r \in LoopStates /\ r.pc = "check"
      BY LogFacts DEF LoopStates, Pcs
    <3>2. "consumer" \in Loops
      BY DEF Loops
    <3>3. Sets(w, "consumer", r) \/ UNCHANGED loop
      BY <2>1 DEF Sets
    <3> HIDE DEF r
    <3> QED
      BY <3>1, <3>2, <3>3, LoopSet
  <2> QED
    BY <1>0, <2>2, <2>4, <2>5, NothingTaken, SafeKept
<1>6. ASSUME NEW w \in Workers, OrphanWakes(w) \/ ClaimOrphans(w) PROVE SafeInv'
  <2>1. UNCHANGED <<last, dlq, redrive, done>> /\ Ids' = Ids /\ \A k \in Ids : Here(k) => Here(k)'
    <3>1. CASE OrphanWakes(w)
      BY <1>a, <3>1 DEF OrphanWakes
    <3>2. CASE ClaimOrphans(w)
      BY <3>2, ClaimMarks DEF ClaimOrphans, Here, Pending
    <3> QED
      BY <1>6, <3>1, <3>2
  <2>2. \A v \in Workers, k \in Loops : loop'[v][k] = loop[v][k] \/ loop'[v][k].pc \in {"claim", "idle"}
    <3>1. CASE OrphanWakes(w)
      BY <3>1, LoopGoes DEF OrphanWakes, Pcs, Loops
    <3>2. CASE ClaimOrphans(w)
      <4>1. Goes(w, "orphan", "idle")
        BY <3>2 DEF ClaimOrphans
      <4> QED
        BY <4>1, LoopGoes DEF Pcs, Loops
    <3> QED
      BY <1>6, <3>1, <3>2
  <2> QED
    BY <1>0, <2>1, <2>2, NothingTaken, SafeKept
<1>7. ASSUME NEW w \in Workers, NextClaimed(w) PROVE SafeInv'
  <2>1. PICK m \in todo[w] : loop' = [loop EXCEPT ![w]["orphan"] = [pc |-> "check", msg |-> m, retry |-> log[m].retry + 1]]
    BY <1>7 DEF NextClaimed
  <2>2. UNCHANGED <<log, last, dlq, redrive, done>>
    BY <1>7 DEF NextClaimed
  <2>3. \A v \in Workers, k \in Loops : loop'[v][k] = loop[v][k] \/ loop'[v][k].pc = "check"
    BY <2>1 DEF TypeOK, Loops
  <2> QED
    BY <1>0, <1>a, <2>2, <2>3, NothingTaken, SafeKept
<1>8. ASSUME NEW w \in Workers, NEW l \in Loops, EnterProcess(w, l) PROVE SafeInv'
  <2>1. UNCHANGED <<log, last, dlq, redrive, done>>
    BY <1>8 DEF EnterProcess
  <2>2. \A v \in Workers, k \in Loops : loop'[v][k] = loop[v][k] \/ loop'[v][k].pc \in {"run", "idle"}
    <3>1. CASE Goes(w, l, "run")
      BY <3>1, LoopGoes DEF Pcs
    <3>2. CASE loop' = [loop EXCEPT ![w][l] = Idle]
      BY <3>2 DEF Idle, TypeOK
    <3> QED
      BY <1>8, <3>1, <3>2 DEF EnterProcess
  <2> QED
    BY <1>0, <1>a, <2>1, <2>2, NothingTaken, SafeKept
<1>9. ASSUME NEW w \in Workers, NEW l \in Loops, RunProcessor(w, l) PROVE SafeInv'
  <2>1. UNCHANGED <<log, last, dlq, redrive>> /\ done \subseteq done'
    BY <1>9 DEF RunProcessor
  <2>2. \/ Goes(w, l, "ack") /\ Task(w, l) \in done'
        \/ Goes(w, l, "add")
    BY <1>9 DEF RunProcessor, RejectsFrom
  <2>3. \/ loop'[w][l].pc = "ack" /\ loop'[w][l].msg = loop[w][l].msg /\ Task(w, l) \in done'
        \/ loop'[w][l].pc = "add"
    BY <2>2, LoopGoes DEF Pcs
  <2>4. \A v \in Workers, k \in Loops : v # w \/ k # l => loop'[v][k] = loop[v][k]
    BY <2>2, LoopGoes DEF Pcs
  <2>5. \/ loop'[w][l].pc = "ack" /\ Task(w, l)' \in done'
        \/ loop'[w][l].pc = "add"
    BY <2>1, <2>3 DEF Task
  <2> QED
    BY <1>0, <1>a, <2>1, <2>4, <2>5, NothingTaken, SafeKept
<1>10. ASSUME NEW w \in Workers, NEW l \in Loops, Acknowledge(w, l) PROVE SafeInv'
  <2> DEFINE m == loop[w][l].msg
  <2>1. loop[w][l].pc = "ack" /\ m \in Ids /\ Task(w, l) \in done /\ UNCHANGED <<last, dlq, redrive, done>>
    BY <1>10, HeldEntry DEF Acknowledge, At, Holding, InProcess, SafeInv
  <2>2. CASE Pending(m)
    <3>1. Xack(m) /\ Goes(w, l, "del")
      BY <1>10, <2>2 DEF Acknowledge
    <3>2. Ids' = Ids /\ \A k \in Ids \ {m} : log'[k] = log[k]
      BY <2>1, <3>1, Acked
    <3>3. Preserved
      BY <1>0, <2>1, <3>2, DoneTaken DEF Task
    <3>4. /\ loop'[w][l].pc = "del" /\ loop'[w][l].msg = m
          /\ \A v \in Workers, k \in Loops : v # w \/ k # l => loop'[v][k] = loop[v][k]
      BY <3>1, LoopGoes DEF Pcs
    <3>5. Task(w, l)' \in done'
      BY <1>0, <2>1, <3>4 DEF Task, Evolves
    <3> QED
      BY <1>0, <2>1, <3>2, <3>3, <3>4, <3>5, SafeKept
  <2>3. CASE ~Pending(m)
    <3>1. Returns(w, l) /\ UNCHANGED log
      BY <1>10, <2>3 DEF Acknowledge
    <3>2. \A v \in Workers, k \in Loops : loop'[v][k] = loop[v][k] \/ loop'[v][k] = Idle
      BY <3>1, LoopReturns
    <3> QED
      BY <1>0, <1>a, <2>1, <3>1, <3>2, NothingTaken, SafeKept DEF Idle
  <2> QED
    BY <2>2, <2>3
<1>11. ASSUME NEW w \in Workers, NEW l \in Loops, DeleteEntry(w, l) PROVE SafeInv'
  <2> DEFINE m == loop[w][l].msg
  <2>1. m \in Ids /\ Task(w, l) \in done /\ Returns(w, l) /\ UNCHANGED <<last, dlq, redrive, done>>
    BY <1>11, HeldEntry DEF DeleteEntry, At, Holding, InProcess, SafeInv
  <2>2. log' = [log EXCEPT ![m] = [log[m] EXCEPT !.kept = FALSE]]
    BY <1>11 DEF DeleteEntry, TypeOK
  <2>3. Ids' = Ids /\ \A k \in Ids \ {m} : log'[k] = log[k]
    BY <2>1, <2>2, Marks, MarkedOne DEF Entries
  <2>4. Preserved
    BY <1>0, <2>1, <2>3, DoneTaken DEF Task
  <2>5. \A v \in Workers, k \in Loops : loop'[v][k] = loop[v][k] \/ loop'[v][k] = Idle
    BY <2>1, LoopReturns
  <2> QED
    BY <1>0, <2>1, <2>3, <2>4, <2>5, SafeKept DEF Idle
<1>12. ASSUME NEW w \in Workers, NEW l \in Loops, RejectTask(w, l) PROVE SafeInv'
  <2>0. /\ loop[w][l].msg \in Ids /\ Task(w, l) \in Tasks /\ loop[w][l].retry + 1 \in Nat
        /\ Goes(w, l, "drop") /\ UNCHANGED <<last, redrive, done>>
    BY <1>12, HeldEntry DEF RejectTask, At, Holding, InProcess
  <2>1. PICK t \in Tasks, n \in Nat, m \in Ids :
            /\ t = Task(w, l) /\ n = loop[w][l].retry + 1 /\ m = loop[w][l].msg
            /\ Goes(w, l, "drop") /\ UNCHANGED <<last, redrive, done>>
    BY <2>0
  <2>2. /\ loop'[w][l].pc = "drop" /\ loop'[w][l].msg = m
        /\ \A v \in Workers, k \in Loops : v # w \/ k # l => loop'[v][k] = loop[v][k]
    BY <2>1, LoopGoes DEF Pcs
  <2>3. Task(w, l)' = t
    BY <1>0, <2>1, <2>2 DEF Task, Evolves
  <2>4. CASE RetriesLeft(n)
    <3>1. Xadd(t, n) /\ UNCHANGED dlq
      BY <1>12, <2>1, <2>4 DEF RejectTask
    <3>2. PICK e \in Nat :
              /\ e > last /\ Ids' = Ids \cup {e} /\ log'[e] = NewEntry(t, n)
              /\ \A k \in Ids : log'[k] = log[k] /\ e > k
      BY <3>1, NewIsLast
    <3>3. log'[e].task = t /\ Here(e)' /\ e \in Ids'
      BY <2>1, <3>2 DEF Here, NewEntry
    <3>4. \A k \in Ids : Here(k) => Here(k)'
      BY <2>1, <3>2 DEF Here, Pending
    <3>5. Preserved
      BY <1>0, <2>1, <3>1, <3>4, NothingTaken
    <3>6. Safe(t, m)' /\ Safe(t, 0)'
      <4>1. e > m /\ e > 0
        BY <3>2 DEF Ids
      <4> QED
        BY <3>3, <4>1 DEF Safe
    <3>7. Safe(Task(w, l), loop[w][l].msg)'
      BY <2>2, <2>3, <3>6
    <3>8. \A k \in Ids' \ Ids : Safe(log[k].task, 0)'
      <4>1. \A k \in Ids' \ Ids : log'[k].task = t
        BY <3>2, <3>3
      <4> QED
        BY <3>6, <4>1 DEF Safe
    <3> QED
      BY <1>0, <2>1, <2>2, <3>5, <3>7, <3>8, SafeKept
  <2>5. CASE ~RetriesLeft(n)
    <3>1. dlq' = [dlq EXCEPT ![t] = @ + 1] /\ UNCHANGED log
      BY <1>12, <2>1, <2>5 DEF RejectTask
    <3>2. \A s \in Tasks : Buried(s) => Buried(s)'
      BY <2>1, <3>1 DEF Buried, TypeOK
    <3>3. Preserved
      BY <1>0, <1>a, <2>1, <3>1, <3>2, Stays DEF Preserved
    <3>4. Buried(t)'
      <4>1. dlq[t] \in Nat /\ dlq'[t] = dlq[t] + 1 /\ (redrive = t => dlq[t] > 0)
        BY <2>1, <3>1, NamesAssumption DEF TypeOK, RedriveInv
      <4>2. CASE redrive = t
        BY <2>1, <4>1, <4>2 DEF Buried
      <4>3. CASE redrive # t
        BY <2>1, <4>1, <4>3 DEF Buried
      <4> QED
        BY <4>2, <4>3
    <3>5. Safe(Task(w, l), loop[w][l].msg)'
      BY <2>3, <3>4 DEF Safe, Buried
    <3> QED
      BY <1>0, <1>a, <2>1, <2>2, <3>1, <3>3, <3>5, SafeKept
  <2> QED
    BY <2>4, <2>5
<1>13. ASSUME NEW w \in Workers, NEW l \in Loops, DropOriginal(w, l) PROVE SafeInv'
  <2> DEFINE m == loop[w][l].msg
  <2>1. /\ m \in Ids /\ m \in Nat /\ Task(w, l) = log[m].task /\ Xack(m) /\ Returns(w, l)
        /\ UNCHANGED <<last, dlq, redrive, done>> /\ Safe(log[m].task, m)
    BY <1>13, HeldEntry DEF DropOriginal, At, Holding, InProcess, SafeInv, Task, Ids
  <2>2. Ids' = Ids /\ \A k \in Ids \ {m} : log'[k] = log[k]
    BY <2>1, Acked
  <2>3. Preserved
    <3> SUFFICES ASSUME NEW t \in Tasks, NEW n \in 0..Len(log), Safe(t, n) PROVE Safe(t, n)'
      BY DEF Preserved
    <3>1. \A k \in Ids \ {m} : Here(k) => Here(k)'
      BY <2>1, <2>2 DEF Here, Pending
    <3>2. Buried(t) => Buried(t)'
      BY <2>1 DEF Buried
    <3>3. CASE \E k \in Ids : k > n /\ log[k].task = t /\ Here(k)
      <4>1. PICK k \in Ids : k > n /\ log[k].task = t /\ Here(k)
        BY <3>3
      <4>2. CASE k # m
        BY <2>1, <2>2, <3>1, <4>1, <4>2 DEF Safe
      <4>3. CASE k = m
        <5>1. Safe(t, m) /\ m > n
          BY <2>1, <4>1, <4>3
        <5>2. CASE t \in done
          BY <2>1, <5>2 DEF Safe
        <5>3. CASE Buried(t)
          BY <3>2, <5>3 DEF Safe
        <5>4. CASE \E j \in Ids : j > m /\ log[j].task = t /\ Here(j)
          <6>1. PICK j \in Ids : j > m /\ log[j].task = t /\ Here(j)
            BY <5>4
          <6>2. j # m /\ j > n
            BY <2>1, <5>1, <6>1 DEF Ids
          <6> QED
            BY <2>2, <3>1, <6>1, <6>2 DEF Safe
        <5> QED
          BY <5>1, <5>2, <5>3, <5>4 DEF Safe
      <4> QED
        BY <4>2, <4>3
    <3> QED
      BY <2>1, <3>2, <3>3 DEF Safe
  <2>4. \A v \in Workers, k \in Loops : loop'[v][k] = loop[v][k] \/ loop'[v][k] = Idle
    BY <2>1, LoopReturns
  <2> QED
    BY <1>0, <2>1, <2>2, <2>3, <2>4, SafeKept DEF Idle
<1>14. ASSUME NEW w \in Workers, NEW l \in Loops, CommandFails(w, l) PROVE SafeInv'
  <2>1. UNCHANGED <<log, last, dlq, redrive, done>>
    BY <1>14 DEF CommandFails
  <2>2. \A v \in Workers, k \in Loops : loop'[v][k] = loop[v][k] \/ loop'[v][k].pc \in {"add", "idle"}
    <3>1. CASE Goes(w, l, "add")
      BY <3>1, LoopGoes DEF Pcs
    <3>2. CASE Returns(w, l)
      BY <3>2, LoopReturns DEF Idle
    <3> QED
      BY <1>14, <3>1, <3>2 DEF CommandFails, RejectsFrom
  <2> QED
    BY <1>0, <1>a, <2>1, <2>2, NothingTaken, SafeKept
<1>15. ASSUME NEW w \in Workers, Kill(w) \/ Stop(w) \/ Disconnected(w) PROVE SafeInv'
  <2>1. UNCHANGED <<last, dlq, redrive, done>>
    BY <1>15 DEF Kill, Stop, Disconnected
  <2>2. Ids' = Ids /\ \A k \in Ids : Here(k) => Here(k)'
    <3>1. CASE log' = Orphaned(w)
      BY <2>1, <3>1, OrphanMarks DEF Here, Pending
    <3>2. CASE UNCHANGED log
      BY <1>a, <2>1, <3>2
    <3> QED
      BY <1>15, <3>1, <3>2 DEF Kill, Stop, Disconnected
  <2>3. \A v \in Workers, k \in Loops : loop'[v][k] = loop[v][k] \/ loop'[v][k] = Idle
    BY <1>15, AllForgotten DEF Kill, Stop, Disconnected
  <2> QED
    BY <1>0, <2>1, <2>2, <2>3, NothingTaken, SafeKept DEF Idle
<1>16. ASSUME NEW w \in Workers, ReleasePending(w) PROVE SafeInv'
  <2>1. PICK m \in leaving[w] : log' = IF log[m].kept THEN [log EXCEPT ![m] = Given(@, Released)] ELSE log
    BY <1>16 DEF ReleasePending
  <2>2. m \in Ids /\ UNCHANGED <<last, dlq, loop, redrive, done>>
    BY <1>16 DEF ReleasePending, TypeOK
  <2>3. Ids' = Ids /\ \A k \in Ids : Here(k) => Here(k)'
    <3>1. CASE log[m].kept
      <4>1. log' = [log EXCEPT ![m] = Given(log[m], Released)]
        BY <2>1, <3>1 DEF TypeOK
      <4>2. /\ Ids' = Ids /\ \A k \in Ids \ {m} : log'[k] = log[k]
            /\ log'[m].kept = log[m].kept /\ log'[m].owner = Released
        BY <2>2, <4>1, GivenTo
      <4>3. Released # None
        BY NamesAssumption
      <4> QED
        BY <2>2, <3>1, <4>2, <4>3 DEF Here, Pending
    <3> QED
      BY <1>a, <2>1, <2>2, <3>1
  <2> QED
    BY <1>0, <2>2, <2>3, NothingTaken, SafeKept
<1>17. ASSUME NEW w \in Workers, Restart(w) PROVE SafeInv'
  <2>1. UNCHANGED <<log, last, dlq, loop, redrive, done>>
    BY <1>17 DEF Restart
  <2> QED
    BY <1>0, <1>a, <2>1, NothingTaken, SafeKept
<1> QED
  BY <1>1, <1>2, <1>3, <1>4, <1>5, <1>6, <1>7, <1>8, <1>9, <1>10, <1>11, <1>12, <1>13, <1>14,
     <1>15, <1>16, <1>17
     DEF Next, ConsumerStep, OrphanStep, ProcessStep, StopStep, Loops

\* A redrive adds the entry before it deletes the dead letter.
LEMMA RedriveStep == TypeOK /\ LoopInv /\ RedriveInv /\ [Next]_vars => RedriveInv'
<1> SUFFICES ASSUME TypeOK, LoopInv, RedriveInv, [Next]_vars, redrive' # None
             PROVE  dlq'[redrive'] > 0 /\ \E m \in Ids' : log'[m].task = redrive'
  BY DEF RedriveInv
<1>0. Evolves
  BY TypeStep
<1>1. ASSUME NEW t \in Tasks, RedriveAdds(t)
      PROVE  dlq'[redrive'] > 0 /\ \E m \in Ids' : log'[m].task = redrive'
  <2>1. Xadd(t, 0) /\ redrive' = t /\ dlq'[t] > 0
    BY <1>1 DEF RedriveAdds
  <2>2. PICK e \in Nat : e \in Ids' /\ log'[e] = NewEntry(t, 0)
    BY <2>1, NewIsLast, 0 \in Nat
  <2> QED
    BY <2>1, <2>2 DEF NewEntry
<1>2. redrive = redrive' /\ (\A t \in Tasks : dlq'[t] = dlq[t] \/ dlq'[t] = dlq[t] + 1)
      => dlq'[redrive'] > 0 /\ \E m \in Ids' : log'[m].task = redrive'
  <2> SUFFICES ASSUME redrive = redrive', \A t \in Tasks : dlq'[t] = dlq[t] \/ dlq'[t] = dlq[t] + 1
               PROVE  dlq'[redrive'] > 0 /\ \E m \in Ids' : log'[m].task = redrive'
    OBVIOUS
  <2>1. redrive \in Tasks /\ dlq[redrive] \in Nat /\ dlq[redrive] > 0
    BY DEF TypeOK, RedriveInv
  <2>2. PICK m \in Ids : log[m].task = redrive
    BY DEF RedriveInv
  <2> QED
    BY <1>0, <2>1, <2>2 DEF Evolves
<1>3. CASE UNCHANGED <<redrive, dlq>>
  BY <1>2, <1>3
<1>4. ASSUME NEW w \in Workers, NEW l \in Loops, RejectTask(w, l)
      PROVE  dlq'[redrive'] > 0 /\ \E m \in Ids' : log'[m].task = redrive'
  <2>1. UNCHANGED redrive
    BY <1>4 DEF RejectTask
  <2>2. \A t \in Tasks : dlq'[t] = dlq[t] \/ dlq'[t] = dlq[t] + 1
    BY <1>4 DEF RejectTask, TypeOK
  <2> QED
    BY <1>2, <2>1, <2>2
<1> QED
  BY <1>1, <1>3, <1>4
     DEF Next, vars, Enqueue, RedriveDeletes, Ripen, ConsumerStep, ReadTask, OrphanStep, OrphanWakes,
         ClaimOrphans, NextClaimed, ProcessStep, EnterProcess, RunProcessor, Acknowledge, DeleteEntry,
         DropOriginal, CommandFails, StopStep, ReleasePending, Disconnected, Kill, Stop, Restart, Loops

--------------------------------------------------------------------------------
(* The invariant *)

LEMMA InvInit == Init => Inv
<1> SUFFICES ASSUME Init PROVE Inv
  OBVIOUS
<1>1. log = <<>> /\ Len(log) = 0 /\ Ids = {} /\ last = 0
  BY DEF Init, Ids
<1>2. Idle \in [pc : Pcs, msg : 0..Len(log), retry : Nat]
  BY <1>1 DEF Idle, Pcs
<1>3. TypeOK
  <2>1. log \in Seq(Entries) /\ last \in 0..Len(log)
    BY <1>1
  <2>2. /\ dlq \in [Tasks -> Nat] /\ tries \in [Tasks -> Nat]
        /\ up \in [Workers -> {"running", "stopping", "down"}]
        /\ todo \in [Workers -> SUBSET Ids] /\ leaving \in [Workers -> SUBSET Ids]
        /\ busy \in [Workers -> Tasks \cup {None}]
    BY DEF Init
  <2>3. loop \in [Workers -> [Loops -> [pc : Pcs, msg : 0..Len(log), retry : Nat]]]
    BY <1>2 DEF Init
  <2>4. /\ redrive \in Tasks \cup {None} /\ trouble \in 0..MaxTrouble
        /\ maxRetries \in RetryLimits /\ done \in SUBSET Tasks
    BY LimitsAssumption DEF Init
  <2> QED
    BY <2>1, <2>2, <2>3, <2>4 DEF TypeOK
<1>4. \A w \in Workers, l \in Loops : loop[w][l] = Idle /\ loop[w][l].pc = "idle"
  BY DEF Init, Idle
<1>5. LoopInv /\ BusyInv
  BY <1>4 DEF Init, LoopInv, BusyInv, Holding, InProcess
<1>6. SafeInv /\ RedriveInv
  BY <1>1, <1>4 DEF Init, SafeInv, RedriveInv
<1> QED
  BY <1>3, <1>5, <1>6 DEF Inv

LEMMA InvStep == Inv /\ [Next]_vars => Inv'
  BY TypeStep, LoopStep, SafeStep, RedriveStep DEF Inv

THEOREM Invariant == Spec => []Inv
  BY InvInit, InvStep, PTL DEF Spec

\* The type of StreamQueue.
THEOREM TypeCorrect == Spec => []TypeOK
<1>1. Inv => TypeOK
  BY DEF Inv
<1> QED
  BY <1>1, Invariant, PTL

\* No order of claims, failures, stops, kills and redrives, however many, loses a task
\* that was enqueued: it succeeded, is a dead letter or will be given to a worker.
THEOREM NeverLostAlways == Spec => []NeverLost
<1>1. Inv => NeverLost
  <2> SUFFICES ASSUME Inv, NEW m \in Ids
               PROVE  log[m].task \in done \cup Held \/ dlq[log[m].task] > 0
    BY DEF NeverLost
  <2>1. Safe(log[m].task, 0) /\ dlq[log[m].task] \in Nat
    BY LogFacts DEF Inv, SafeInv, TypeOK
  <2>2. Buried(log[m].task) => dlq[log[m].task] > 0
    BY <2>1 DEF Buried
  <2>3. \A k \in Ids : Here(k) => log[k].task \in Held
    BY DEF Here, Held
  <2> QED
    BY <2>1, <2>2, <2>3 DEF Safe
<1> QED
  BY <1>1, Invariant, PTL

\* The two loops of a worker never process two tasks at once, and the flag that keeps
\* them apart is set exactly while one of them does.
THEOREM OneAtATimeAlways == Spec => []OneAtATime
<1>1. Inv => OneAtATime
  <2> SUFFICES ASSUME Inv, NEW w \in Workers
               PROVE  LET active == {l \in Loops : loop[w][l].pc \in InProcess} IN
                      /\ Cardinality(active) <= 1
                      /\ busy[w] # None <=> active # {}
                      /\ \A l \in active : busy[w] = Task(w, l)
    BY DEF OneAtATime
  <2> DEFINE active == {l \in Loops : loop[w][l].pc \in InProcess}
  <2>1. ASSUME NEW l \in active PROVE busy[w] = Task(w, l) /\ Task(w, l) # None
    <3>1. Task(w, l) \in Tasks
      BY HeldEntry DEF Inv, Holding
    <3> QED
      BY <3>1, NamesAssumption DEF Inv, BusyInv
  <2>2. busy[w] # None <=> active # {}
    BY <2>1 DEF Inv, BusyInv
  <2>3. Cardinality(active) <= 1
    <3>1. \A l, k \in active : l = k
      BY DEF Inv, BusyInv
    <3>2. CASE active = {}
      BY <3>2, FS_EmptySet
    <3>3. CASE active # {}
      <4>1. PICK l \in active : active = {l}
        BY <3>1, <3>3
      <4>2. Cardinality({l}) = 1
        BY FS_Singleton
      <4> HIDE DEF active
      <4>3. Cardinality(active) = 1
        BY <4>1, <4>2
      <4> QED
        BY <4>3
    <3> QED
      BY <3>2, <3>3
  <2> QED
    BY <2>1, <2>2, <2>3
<1> QED
  BY <1>1, Invariant, PTL

--------------------------------------------------------------------------------
(* Refinement *)

Dead == {t \in Tasks : dlq[t] > 0}

\* A step of the queue that leaves the successes, the dead letters and the set of held
\* tasks alone, or adds a task to it, is a step of the contract or none.
LEMMA Resubmits ==
    ASSUME NEW t \in Tasks, UNCHANGED <<done, dlq>>, Held' = Held \/ Held' = Held \cup {t}
    PROVE  [Queue!Next]_Queue!vars
  BY DEF Queue!Next, Queue!Submit, Queue!vars

\* So is one that takes a single task out of the held ones, when it is settled.
LEMMA Releases ==
    ASSUME NEW t \in done \cup Dead, t \in Tasks, UNCHANGED <<done, dlq>>,
           Held' = Held \/ Held' = Held \ {t}
    PROVE  [Queue!Next]_Queue!vars
  BY DEF Queue!Next, Queue!Release, Queue!vars, Dead

\* What is held when entries are marked that would be handed out before and after.
LEMMA SameHeld ==
    ASSUME TypeOK, Evolves, Ids' = Ids, \A k \in Ids : Here(k) <=> Here(k)'
    PROVE  Held' = Held
<1>1. Held = {log[m].task : m \in {k \in Ids : Here(k)}}
  BY DEF Held, Here
<1>2. Held' = {log'[m].task : m \in {k \in Ids' : Here(k)'}}
  BY DEF Held, Here
<1> QED
  BY <1>1, <1>2 DEF Evolves

\* What is held when one entry is no longer handed out.
LEMMA OneTaken ==
    ASSUME TypeOK, Evolves, Ids' = Ids, NEW m \in Ids,
           \A k \in Ids \ {m} : Here(k) <=> Here(k)', Here(m)' => Here(m)
    PROVE  Held' = Held \/ Held' = Held \ {log[m].task}
<1>0. CASE Here(m)'
  BY <1>0, SameHeld
<1>1. Held = {log[k].task : k \in {j \in Ids : Here(j)}}
  BY DEF Held, Here
<1>2. Held' = {log'[k].task : k \in {j \in Ids' : Here(j)'}}
  BY DEF Held, Here
<1>3. CASE ~Here(m)'
  <2>1. Held' = {log[k].task : k \in {j \in Ids \ {m} : Here(j)}}
    BY <1>2, <1>3 DEF Evolves
  <2> QED
    BY <1>1, <2>1
<1> QED
  BY <1>0, <1>3

\* What is held when an entry is added.
LEMMA OneAdded ==
    ASSUME TypeOK, NEW t \in Tasks, NEW n \in Nat, Xadd(t, n), UNCHANGED last
    PROVE  Held' = Held \cup {t}
<1>1. PICK e \in Nat :
          /\ e > last /\ Ids' = Ids \cup {e} /\ log'[e] = NewEntry(t, n)
          /\ \A k \in Ids : log'[k] = log[k] /\ e > k
  BY NewIsLast
<1>2. Held = {log[k].task : k \in {j \in Ids : Here(j)}}
  BY DEF Held, Here
<1>3. Held' = {log'[k].task : k \in {j \in Ids' : Here(j)'}}
  BY DEF Held, Here
<1>4. Here(e)' /\ log'[e].task = t
  BY <1>1 DEF Here, NewEntry
<1>5. \A k \in Ids : (Here(k)' <=> Here(k)) /\ log'[k].task = log[k].task
  BY <1>1 DEF Here, Pending
<1> QED
  BY <1>1, <1>2, <1>3, <1>4, <1>5

\* A known task is held, settled, or both: what Safe says, for the contract.
LEMMA Accounted ==
    ASSUME TypeOK, NEW t \in Tasks, Safe(t, 0)
    PROVE  t \in Held \cup done \cup Dead
<1>1. Buried(t) => t \in Dead
  BY DEF Buried, Dead, TypeOK
<1>2. \A k \in Ids : Here(k) => log[k].task \in Held
  BY DEF Here, Held
<1> QED
  BY <1>1, <1>2 DEF Safe

\* Every step is a step of the contract or leaves what it speaks of alone.
LEMMA QueueStep == Inv /\ [Next]_vars => [Queue!Next]_Queue!vars
<1> SUFFICES ASSUME Inv, [Next]_vars PROVE [Queue!Next]_Queue!vars
  OBVIOUS
<1> USE DEF Inv
<1>0. Evolves /\ TypeOK'
  BY TypeStep
<1>a. ASSUME UNCHANGED <<log, last, done, dlq>> PROVE [Queue!Next]_Queue!vars
  BY <1>a DEF Queue!vars, Held, Ids, Pending
<1>b. ASSUME UNCHANGED <<last, done, dlq>>, Ids' = Ids, \A k \in Ids : Here(k) <=> Here(k)'
      PROVE  [Queue!Next]_Queue!vars
  <2>1. Held' = Held
    BY <1>0, <1>b, SameHeld
  <2> QED
    BY <1>b, <2>1 DEF Queue!vars
<1>c. ASSUME NEW w \in Workers, NEW l \in Loops, loop[w][l].pc \in InProcess
      PROVE  Task(w, l) \in Tasks /\ Task(w, l) \in Held \cup done \cup Dead
  <2>1. loop[w][l].msg \in Ids /\ Task(w, l) \in Tasks
    BY <1>c, HeldEntry DEF Holding
  <2>2. Safe(Task(w, l), 0)
    BY <2>1 DEF SafeInv, Task
  <2> QED
    BY <2>1, <2>2, Accounted
<1>1. CASE UNCHANGED vars
  BY <1>a, <1>1 DEF vars
<1>2. ASSUME NEW t \in Tasks, Enqueue(t) \/ RedriveAdds(t) PROVE [Queue!Next]_Queue!vars
  <2>1. Xadd(t, 0) /\ UNCHANGED <<last, done, dlq>>
    BY <1>2 DEF Enqueue, RedriveAdds
  <2>2. Held' = Held \cup {t}
    BY <2>1, OneAdded, 0 \in Nat
  <2> QED
    BY <2>1, <2>2, Resubmits
<1>3. CASE RedriveDeletes
  <2>1. UNCHANGED <<log, last, done>> /\ redrive \in Tasks /\ redrive # None
    BY <1>3 DEF RedriveDeletes, TypeOK
  <2>2. PICK t \in Tasks : t = redrive
    BY <2>1
  <2>3. CASE UNCHANGED dlq
    BY <1>a, <2>1, <2>3
  <2>4. CASE dlq' = [dlq EXCEPT ![t] = dlq[t] - 1]
    <3>1. dlq[t] \in Nat /\ dlq[t] > 0 /\ \A s \in Tasks \ {t} : dlq'[s] = dlq[s]
      BY <2>1, <2>2, <2>4 DEF TypeOK, RedriveInv
    <3>2. Held' = Held
      BY <2>1 DEF Held, Ids, Pending
    <3>3. CASE dlq[t] = 1
      <4>1. dlq'[t] = 0
        BY <2>4, <3>3 DEF TypeOK
      <4>2. Dead' = Dead \ {t}
        BY <3>1, <4>1 DEF Dead
      <4>3. Safe(t, 0) /\ ~Buried(t)
        BY <2>1, <2>2, <3>3 DEF SafeInv, RedriveInv, Buried
      <4>4. t \in Held \cup done
        BY <4>3 DEF Safe, Held, Here
      <4> QED
        BY <2>1, <3>2, <4>2, <4>4 DEF Queue!Next, Queue!Exhume, Dead
    <3>4. CASE dlq[t] # 1
      <4>1. dlq'[t] > 0
        BY <2>4, <3>1, <3>4 DEF TypeOK
      <4>2. Dead' = Dead
        BY <3>1, <4>1 DEF Dead
      <4> QED
        BY <2>1, <3>2, <4>2 DEF Queue!vars, Dead
    <3> QED
      BY <3>3, <3>4
  <2> QED
    BY <1>3, <2>2, <2>3, <2>4 DEF RedriveDeletes, Exhumed
<1>4. ASSUME NEW m \in Ids, Ripen(m) PROVE [Queue!Next]_Queue!vars
  <2>1. log' = [log EXCEPT ![m] = [log[m] EXCEPT !.ripe = TRUE]]
    BY <1>4 DEF Ripen, TypeOK
  <2>2. Ids' = Ids /\ log'[m] = [log[m] EXCEPT !.ripe = TRUE] /\ \A k \in Ids \ {m} : log'[k] = log[k]
    BY <2>1, Marks, MarkedOne DEF Entries
  <2>3. log'[m].kept = log[m].kept /\ log'[m].owner = log[m].owner
    BY <2>2, Marks DEF Entries
  <2>4. UNCHANGED <<last, done, dlq>>
    BY <1>4 DEF Ripen
  <2> QED
    BY <1>b, <2>2, <2>3, <2>4 DEF Here, Pending
<1>5. ASSUME NEW w \in Workers, ReadTask(w) PROVE [Queue!Next]_Queue!vars
  <2>1. UNCHANGED <<done, dlq>>
    BY <1>5 DEF ReadTask
  <2>2. Ids' = Ids /\ \A k \in Ids : Here(k) <=> Here(k)'
    BY <1>5, ReadMarks
  <2>3. Held' = Held
    BY <1>0, <2>2, SameHeld
  <2> QED
    BY <2>1, <2>3 DEF Queue!vars
<1>6. ASSUME NEW w \in Workers, ClaimOrphans(w) PROVE [Queue!Next]_Queue!vars
  <2>1. UNCHANGED <<last, done, dlq>>
    BY <1>6 DEF ClaimOrphans
  <2>2. Ids' = Ids /\ \A k \in Ids : Here(k) <=> Here(k)'
    BY <1>6, <2>1, ClaimMarks DEF Here, Pending
  <2> QED
    BY <1>b, <2>1, <2>2
<1>7. ASSUME NEW w \in Workers, OrphanWakes(w) \/ NextClaimed(w) \/ Stop(w) \/ Restart(w)
      PROVE  [Queue!Next]_Queue!vars
  BY <1>a, <1>7 DEF OrphanWakes, NextClaimed, Stop, Restart
<1>8. ASSUME NEW w \in Workers, NEW l \in Loops, EnterProcess(w, l) \/ CommandFails(w, l)
      PROVE  [Queue!Next]_Queue!vars
  BY <1>a, <1>8 DEF EnterProcess, CommandFails
<1>9. ASSUME NEW w \in Workers, NEW l \in Loops, RunProcessor(w, l) PROVE [Queue!Next]_Queue!vars
  <2>1. UNCHANGED <<log, last, dlq>>
    BY <1>9 DEF RunProcessor
  <2>2. Task(w, l) \in Tasks /\ Task(w, l) \in Held \cup done \cup Dead
    BY <1>9, <1>c DEF RunProcessor, At, InProcess
  <2>3. Held' = Held
    BY <2>1 DEF Held, Ids, Pending
  <2>4. CASE UNCHANGED done
    BY <1>a, <2>1, <2>4
  <2>5. CASE done' = done \cup {Task(w, l)}
    BY <2>1, <2>2, <2>3, <2>5 DEF Queue!Next, Queue!Complete, Dead
  <2> QED
    BY <1>9, <2>4, <2>5 DEF RunProcessor
<1>10. ASSUME NEW w \in Workers, NEW l \in Loops, NEW m \in Ids, m = loop[w][l].msg,
              Xack(m), UNCHANGED <<last, done, dlq>>, log[m].task \in done \cup Dead
       PROVE  [Queue!Next]_Queue!vars
  <2>1. /\ Ids' = Ids /\ log'[m] = [log[m] EXCEPT !.owner = None, !.ripe = FALSE]
        /\ \A k \in Ids \ {m} : log'[k] = log[k]
    BY <1>10, Acked
  <2>2. log[m] \in Entries /\ log[m].task \in Tasks
    BY LogFacts
  <2>3. log'[m].kept = log[m].kept /\ log'[m].owner = None
    BY <2>1, <2>2 DEF Entries
  <2>4. Here(m)' => Here(m)
    BY <1>10, <2>3 DEF Here, Pending
  <2>5. \A k \in Ids \ {m} : Here(k) <=> Here(k)'
    BY <1>10, <2>1 DEF Here, Pending
  <2>6. Held' = Held \/ Held' = Held \ {log[m].task}
    BY <1>0, <2>1, <2>4, <2>5, OneTaken
  <2> QED
    BY <1>10, <2>2, <2>6, Releases
<1>11. ASSUME NEW w \in Workers, NEW l \in Loops, Acknowledge(w, l) PROVE [Queue!Next]_Queue!vars
  <2>1. loop[w][l].msg \in Ids /\ log[loop[w][l].msg].task \in done /\ UNCHANGED <<last, done, dlq>>
    BY <1>11, HeldEntry DEF Acknowledge, At, Holding, InProcess, SafeInv, Task
  <2>2. Xack(loop[w][l].msg) \/ UNCHANGED log
    BY <1>11 DEF Acknowledge
  <2> QED
    BY <1>10, <1>a, <2>1, <2>2
<1>12. ASSUME NEW w \in Workers, NEW l \in Loops, DropOriginal(w, l) PROVE [Queue!Next]_Queue!vars
  <2>1. PICK m \in Ids : m = loop[w][l].msg
    BY <1>12, HeldEntry DEF DropOriginal, At, Holding, InProcess
  <2>2. Xack(m) /\ UNCHANGED <<last, done, dlq>> /\ Safe(log[m].task, m)
    BY <1>12, <2>1 DEF DropOriginal, At, SafeInv, Task
  <2>3. CASE log[m].task \in done \cup Dead
    BY <1>10, <2>1, <2>2, <2>3
  \* another entry of the task is there
  <2>4. CASE log[m].task \notin done \cup Dead
    <3>1. ~Buried(log[m].task)
      BY <2>4, LogFacts DEF Buried, Dead, TypeOK
    <3>2. PICK k \in Ids : k > m /\ log[k].task = log[m].task /\ Here(k)
      BY <2>2, <2>4, <3>1 DEF Safe
    <3>3. k # m
      BY <3>2 DEF Ids
    <3>4. Ids' = Ids /\ \A j \in Ids \ {m} : log'[j] = log[j]
      BY <2>2, Acked
    <3>5. log'[m] = [log[m] EXCEPT !.owner = None, !.ripe = FALSE]
      BY <2>2, Acked
    <3>6. log[m] \in Entries
      BY LogFacts
    <3>7. log'[m].kept = log[m].kept /\ log'[m].owner = None
      BY <3>5, <3>6 DEF Entries
    <3>8. (Here(m)' => Here(m)) /\ \A j \in Ids \ {m} : Here(j) <=> Here(j)'
      BY <2>2, <3>4, <3>7 DEF Here, Pending
    <3>9. Held' = Held \/ Held' = Held \ {log[m].task}
      BY <1>0, <3>4, <3>8, OneTaken
    <3>10. log[m].task \in Held'
      <4>1. Here(k)' /\ log'[k].task = log[m].task /\ k \in Ids'
        BY <3>2, <3>3, <3>4, <3>8
      <4> QED
        BY <4>1 DEF Held, Here
    <3>11. Held' = Held
      BY <3>9, <3>10
    <3> QED
      BY <2>2, <3>11 DEF Queue!vars
  <2> QED
    BY <2>3, <2>4
<1>13. ASSUME NEW w \in Workers, NEW l \in Loops, DeleteEntry(w, l) PROVE [Queue!Next]_Queue!vars
  <2>1. PICK m \in Ids : m = loop[w][l].msg
    BY <1>13, HeldEntry DEF DeleteEntry, At, Holding, InProcess
  <2>2. log[m].task \in done /\ log[m].task \in Tasks /\ UNCHANGED <<last, done, dlq>>
    BY <1>13, <2>1, LogFacts DEF DeleteEntry, At, SafeInv, Task
  <2>3. log' = [log EXCEPT ![m] = [log[m] EXCEPT !.kept = FALSE]]
    BY <1>13, <2>1 DEF DeleteEntry, TypeOK
  <2>4. Ids' = Ids /\ log'[m] = [log[m] EXCEPT !.kept = FALSE] /\ \A k \in Ids \ {m} : log'[k] = log[k]
    BY <2>3, Marks, MarkedOne DEF Entries
  <2>5. ~log'[m].kept
    BY <2>4, Marks DEF Entries
  <2>6. ~Here(m)' /\ \A k \in Ids \ {m} : Here(k) <=> Here(k)'
    BY <2>2, <2>4, <2>5 DEF Here, Pending
  <2>7. Held' = Held \/ Held' = Held \ {log[m].task}
    BY <1>0, <2>4, <2>6, OneTaken
  <2> QED
    BY <2>2, <2>7, Releases
<1>14. ASSUME NEW w \in Workers, NEW l \in Loops, RejectTask(w, l) PROVE [Queue!Next]_Queue!vars
  <2>1. PICK t \in Tasks, n \in Nat : t = Task(w, l) /\ n = loop[w][l].retry + 1
    BY <1>14, HeldEntry DEF RejectTask, At, Holding, InProcess
  <2>2. UNCHANGED <<last, done>> /\ t \in Held \cup done \cup Dead
    BY <1>14, <1>c, <2>1 DEF RejectTask, At, InProcess
  <2>3. CASE Xadd(t, n) /\ UNCHANGED dlq
    BY <2>2, <2>3, OneAdded, Resubmits
  <2>4. CASE dlq' = [dlq EXCEPT ![t] = dlq[t] + 1] /\ UNCHANGED log
    <3>1. dlq'[t] > 0 /\ \A s \in Tasks \ {t} : dlq'[s] = dlq[s]
      BY <2>4 DEF TypeOK
    <3>2. Dead' = Dead \cup {t}
      BY <3>1 DEF Dead
    <3>3. Held' = Held
      BY <2>2, <2>4 DEF Held, Ids, Pending
    <3> QED
      BY <2>2, <3>2, <3>3 DEF Queue!Next, Queue!Bury, Dead
  <2> QED
    BY <1>14, <2>1, <2>3, <2>4 DEF RejectTask
<1>15. ASSUME NEW w \in Workers, Kill(w) \/ Disconnected(w) PROVE [Queue!Next]_Queue!vars
  <2>1. log' = Orphaned(w) /\ UNCHANGED <<last, done, dlq>>
    BY <1>15 DEF Kill, Disconnected
  <2>2. Ids' = Ids /\ \A k \in Ids : Here(k) <=> Here(k)'
    BY <2>1, OrphanMarks DEF Here, Pending
  <2> QED
    BY <1>b, <2>1, <2>2
<1>16. ASSUME NEW w \in Workers, ReleasePending(w) PROVE [Queue!Next]_Queue!vars
  <2>1. PICK m \in leaving[w] : log' = IF log[m].kept THEN [log EXCEPT ![m] = Given(@, Released)] ELSE log
    BY <1>16 DEF ReleasePending
  <2>2. m \in Ids /\ UNCHANGED <<last, dlq, done>>
    BY <1>16 DEF ReleasePending, TypeOK
  <2>3. CASE ~log[m].kept
    BY <1>a, <2>1, <2>2, <2>3
  <2>4. CASE log[m].kept
    <3>1. log' = [log EXCEPT ![m] = Given(log[m], Released)]
      BY <2>1, <2>4 DEF TypeOK
    <3>2. /\ Ids' = Ids /\ \A k \in Ids \ {m} : log'[k] = log[k]
          /\ log'[m].kept = log[m].kept /\ log'[m].owner = Released
      BY <2>2, <3>1, GivenTo
    <3>3. Here(m)' /\ \A k \in Ids \ {m} : Here(k) <=> Here(k)'
      BY <2>2, <2>4, <3>2, NamesAssumption DEF Here, Pending
    <3>4. Held' = Held \cup {log[m].task}
      <4>1. Held = {log[k].task : k \in {j \in Ids : Here(j)}}
        BY DEF Held, Here
      <4>2. Held' = {log'[k].task : k \in {j \in Ids' : Here(j)'}}
        BY DEF Held, Here
      <4> QED
        BY <1>0, <2>2, <3>2, <3>3, <4>1, <4>2 DEF Evolves
    <3> QED
      BY <2>2, <3>4, LogFacts, Resubmits
  <2> QED
    BY <2>3, <2>4
<1> QED
  BY <1>1, <1>2, <1>3, <1>4, <1>5, <1>6, <1>7, <1>8, <1>9, <1>11, <1>12, <1>13, <1>14, <1>15, <1>16
     DEF Next, ConsumerStep, OrphanStep, ProcessStep, StopStep, Loops

\* The queue implements the safety part of its contract: whatever the loops, the failures
\* and the operator do, only what succeeded or was dead-lettered is let go.
THEOREM QueueImplements == Spec => Queue!Safety
<1>1. Init => Queue!Init
  BY DEF Init, Queue!Init, Held, Ids
<1> QED
  BY <1>1, Invariant, QueueStep, PTL DEF Spec, Queue!Safety

================================================================================
