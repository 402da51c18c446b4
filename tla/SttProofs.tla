-------------------------------- MODULE SttProofs --------------------------------
(***************************************************************************)
(* What TLAPS proves of two parts of stt_service: of TranscriptPipeline    *)
(* for every number of attempts and batches, every retry limit and any     *)
(* number of failures, its type and its three safety invariants; and of    *)
(* LivePipelines for every set of clients and connections, all sizes of    *)
(* queue, batch and block and any number of failures, the order of its     *)
(* results and what a shutdown recognises.  NeverStuck speaks of ENABLED   *)
(* and stays with TLC.                                                     *)
(***************************************************************************)
EXTENDS TranscriptPipeline, LiveState, Integers, SequenceTheorems, FiniteSetTheorems, TLAPS

--------------------------------------------------------------------------------
(* Types *)

Words == {"batch", "done", "error"}
KindsOfEntry == {"pending", "completed", "failed"}
Threads == [pc : {"none", "decode", "put", "wait", "ended"}, sent : Nat, msg : Words \cup {"none"}]
Coros == [pc : {"none", "get", "enqueue", "join", "fail", "over"}, chunk : Nat,
          got : Words \cup {"none"}]
Entries == [attempt : Attempts, kind : KindsOfEntry, chunk : Nat, retry : Nat, kept : BOOLEAN,
            pending : BOOLEAN, ripe : BOOLEAN]
Savers == [pc : {"idle", "process", "append", "ack", "reject"}, msg : Nat, retry : Nat, index : Nat]
Rows == [attempt : Attempts, chunk : Nat, index : Nat]

ProducerTypes ==
    /\ thread \in [Attempts -> Threads]
    /\ slot \in [Attempts -> Words \cup {"empty"}]
    /\ future \in [Attempts -> {"none", "waiting", "set", "failed"}]
    /\ coro \in [Attempts -> Coros]
    /\ \A a \in Attempts : /\ thread[a].pc = "put" => thread[a].msg # "none"
                           /\ coro[a].pc = "enqueue" => coro[a].got # "none"
    /\ stopped \in [Attempts -> BOOLEAN]
    /\ outcome \in [Attempts -> {"none", "succeeded", "failed", "cancelled"}]

\* A loop that is about an entry holds one, and appends only what is a batch.
ConsumerTypes ==
    /\ save \in Seq(Entries) /\ last \in 0..Len(save)
    /\ saver \in [Loops -> Savers]
    /\ \A l \in Loops : /\ saver[l].pc # "idle" => saver[l].msg \in Ids
                        /\ saver[l].pc = "append" => save[saver[l].msg].kind = "pending"
    /\ todo \subseteq Ids /\ given_up \subseteq Ids
    /\ rows \in Seq(Rows) /\ count \in Nat
    /\ status \in {"wait_process", "completed", "failed"} /\ completed \subseteq Attempts
    /\ trouble \in 0..MaxTrouble

\* The rows have a highest index once there is one: the maximum query has an answer.
HighestIndex == rows # <<>> => \E i \in Indexes : \A j \in Indexes : j <= i

TypeOK == ProducerTypes /\ ConsumerTypes /\ HighestIndex

--------------------------------------------------------------------------------
(* The handshake of one attempt *)

BatchIds(a) == {m \in Ids : save[m].attempt = a /\ save[m].retry = 0 /\ save[m].kind = "pending"}
MarkerIds(a) == {m \in Ids : save[m].attempt = a /\ save[m].retry = 0 /\ save[m].kind # "pending"}
Written(a) == Cardinality(BatchIds(a))

\* What the attempt has on the stream: n batches, numbered in their order, ...
Numbered(a) ==
    /\ \A m \in BatchIds(a) : save[m].chunk = Cardinality({k \in BatchIds(a) : k < m})
    /\ \A n \in 0..Batches : n < Written(a) => \E m \in BatchIds(a) : save[m].chunk = n
\* ... no marker, ...
Unmarked(a) == MarkerIds(a) = {}
\* ... or one that comes after them.
MarkedBy(a, kinds) ==
    /\ \A m, k \in MarkerIds(a) : m = k
    /\ \A m \in MarkerIds(a) : /\ save[m].kind \in kinds
                               /\ \A k \in BatchIds(a) : k < m

Ready(a) == coro[a].pc = "get" \/ coro[a].pc = "over"
GaveUp(a) == coro[a].pc = "fail" \/ coro[a].pc = "over"

\* Decoding, or about to put: all batches so far are on the stream, nothing is under way.
Working(a) ==
    /\ Ready(a) /\ slot[a] = "empty" /\ future[a] = "none"
    /\ Written(a) = thread[a].sent /\ thread[a].sent <= Batches /\ Unmarked(a)
    /\ coro[a].pc = "get" => coro[a].chunk = thread[a].sent
    /\ thread[a].pc = "put" =>
         /\ thread[a].msg = "batch" => thread[a].sent < Batches
         /\ thread[a].msg = "done" => thread[a].sent = Batches

\* Waiting for the answer to a batch, or to the end.
Asked(a) ==
    /\ thread[a].msg \in {"batch", "done"}
    /\ thread[a].msg = "batch" => thread[a].sent < Batches
    /\ thread[a].msg = "done" => thread[a].sent = Batches
    /\ \/ /\ future[a] = "waiting" /\ Written(a) = thread[a].sent /\ Unmarked(a)
          /\ \/ coro[a].pc = "get" /\ slot[a] = thread[a].msg /\ coro[a].chunk = thread[a].sent
             \/ coro[a].pc = "enqueue" /\ coro[a].got = thread[a].msg /\ slot[a] = "empty"
                  /\ coro[a].chunk = thread[a].sent
             \/ coro[a].pc = "over"
       \/ /\ future[a] = "set" /\ slot[a] = "empty" /\ thread[a].msg = "batch"
          /\ Ready(a) /\ Written(a) = thread[a].sent + 1 /\ Unmarked(a)
          /\ coro[a].pc = "get" => coro[a].chunk = thread[a].sent + 1
       \/ /\ future[a] = "set" /\ slot[a] = "empty" /\ thread[a].msg = "done"
          /\ coro[a].pc \in {"join", "over"}
          /\ Written(a) = Batches /\ MarkedBy(a, {"completed"})
       \/ /\ future[a] = "failed" /\ slot[a] = "empty" /\ thread[a].msg = "batch"
          /\ GaveUp(a) /\ Written(a) \in {thread[a].sent, thread[a].sent + 1} /\ Unmarked(a)
       \/ /\ future[a] = "failed" /\ slot[a] = "empty" /\ thread[a].msg = "done"
          /\ GaveUp(a) /\ Written(a) = Batches /\ MarkedBy(a, {"completed"})

\* The thread has ended: with an error yet to be taken or written, or for good.
Ended(a) ==
    \/ /\ coro[a].pc = "get" /\ slot[a] = "error"
       /\ Written(a) = thread[a].sent /\ Unmarked(a)
    \/ /\ coro[a].pc = "enqueue" /\ slot[a] = "empty" /\ coro[a].got = "error"
       /\ Written(a) = thread[a].sent /\ Unmarked(a)
    \/ /\ coro[a].pc = "join"
       /\ Written(a) = Batches /\ thread[a].sent = Batches /\ MarkedBy(a, {"completed"})
    \/ /\ GaveUp(a) /\ Written(a) \in {thread[a].sent, thread[a].sent + 1} /\ Unmarked(a)
    \/ /\ GaveUp(a) /\ Written(a) = thread[a].sent /\ MarkedBy(a, {"failed"})
    \/ /\ GaveUp(a) /\ Written(a) = Batches /\ thread[a].sent = Batches /\ MarkedBy(a, {"completed"})

Handshake(a) ==
    /\ Numbered(a)
    /\ stopped[a] => GaveUp(a)
    /\ thread[a].pc = "none" =>
         /\ coro[a].pc = "none" /\ coro[a].chunk = 0 /\ slot[a] = "empty" /\ future[a] = "none"
         /\ thread[a].sent = 0 /\ Written(a) = 0 /\ Unmarked(a)
    /\ thread[a].pc \in {"decode", "put"} => Working(a)
    /\ thread[a].pc = "wait" => Asked(a)
    /\ thread[a].pc = "ended" => Ended(a)

--------------------------------------------------------------------------------
(* What the save service does with it *)

\* Every copy is a copy of something the attempt wrote.
Copied ==
    \A m \in Ids : \E k \in Ids : /\ save[k].retry = 0 /\ save[k].attempt = save[m].attempt
                                  /\ save[k].kind = save[m].kind /\ save[k].chunk = save[m].chunk

Stored(m) == \E i \in DOMAIN rows : rows[i].attempt = save[m].attempt /\ rows[i].chunk = save[m].chunk
\* A batch that is stored, on its way or given up.
Settled(m) ==
    \/ Stored(m)
    \/ \E k \in Ids : /\ save[k].kind = "pending" /\ save[k].attempt = save[m].attempt
                      /\ save[k].chunk = save[m].chunk /\ (Held(k) \/ k \in given_up)

Delivery ==
    /\ \A m \in Ids : save[m].kind = "pending" => Settled(m)
    /\ \A l \in Loops : saver[l].pc = "ack" /\ save[saver[l].msg].kind = "pending" =>
         Stored(saver[l].msg) \/ saver[l].msg \in given_up

Completion == \A a \in completed : \E m \in Ids : save[m].attempt = a /\ save[m].kind = "completed"

Inv ==
    /\ TypeOK /\ \A a \in Attempts : Handshake(a)
    /\ Copied /\ Delivery /\ Completion /\ CountIsRows

--------------------------------------------------------------------------------
(* The stream *)

\* What every step leaves of the stream: entries are added and marked, never renamed.
Same(e, d) == e.attempt = d.attempt /\ e.kind = d.kind /\ e.chunk = d.chunk /\ e.retry = d.retry
Evolves ==
    /\ save' \in Seq(Entries) /\ Len(save') \in Nat /\ Len(save) <= Len(save')
    /\ Ids \subseteq Ids'
    /\ \A m \in Ids : Same(save'[m], save[m])

\* The stream is a sequence of entries.
LEMMA SaveFacts ==
    ASSUME TypeOK
    PROVE  /\ save \in Seq(Entries) /\ Len(save) \in Nat /\ save \in [Ids -> Entries]
           /\ \A m \in Ids : m \in Nat /\ m >= 1 /\ m <= Len(save) /\ save[m] \in Entries
<1>1. save \in Seq(Entries) /\ Len(save) \in Nat
  BY DEF TypeOK, ConsumerTypes
<1>2. save \in [Ids -> Entries]
  BY <1>1, LenProperties DEF Ids
<1>3. \A m \in Ids : m \in Nat /\ m >= 1 /\ m <= Len(save)
  BY <1>1 DEF Ids
<1> QED
  BY <1>1, <1>2, <1>3

\* To mark entries, one or several, adds and renames none.
LEMMA Marked ==
    ASSUME TypeOK, NEW f \in [Ids -> Entries], save' = f, \A m \in Ids : Same(f[m], save[m])
    PROVE  Evolves /\ Len(save') = Len(save) /\ Ids' = Ids
<1>1. save \in Seq(Entries) /\ Len(save) \in Nat
  BY SaveFacts
<1>2. save' \in Seq(Entries) /\ Len(save') = Len(save)
  BY <1>1, IsASeq, LenProperties DEF Ids
<1> QED
  BY <1>1, <1>2 DEF Evolves, Ids

\* The same for one entry.
LEMMA MarkedOne ==
    ASSUME TypeOK, NEW m \in Ids, NEW e \in Entries, Same(e, save[m]),
           save' = [save EXCEPT ![m] = e]
    PROVE  /\ Evolves /\ Len(save') = Len(save) /\ Ids' = Ids
           /\ save'[m] = e /\ \A k \in Ids \ {m} : save'[k] = save[k]
<1>1. save \in [Ids -> Entries]
  BY SaveFacts
<1>2. [save EXCEPT ![m] = e] \in [Ids -> Entries]
  BY <1>1
<1>3. \A k \in Ids : Same([save EXCEPT ![m] = e][k], save[k])
  BY <1>1 DEF Same
<1> QED
  BY <1>1, <1>2, <1>3, Marked

\* To append an entry leaves the others and puts it after them.
LEMMA Appended ==
    ASSUME TypeOK, NEW e \in Entries, save' = Append(save, e)
    PROVE  /\ Evolves
           /\ \E n \in Nat : /\ n = Len(save) + 1 /\ Ids' = Ids \cup {n} /\ save'[n] = e
                             /\ n > last /\ n \notin Ids /\ \A k \in Ids : k < n
           /\ \A m \in Ids : save'[m] = save[m]
<1>1. save \in Seq(Entries) /\ Len(save) \in Nat /\ last \in 0..Len(save)
  BY SaveFacts DEF TypeOK, ConsumerTypes
<1>2. /\ save' \in Seq(Entries) /\ Len(save') = Len(save) + 1
      /\ \A m \in 1..Len(save) : save'[m] = save[m]
      /\ save'[Len(save) + 1] = e
  BY <1>1, AppendProperties
<1>3. Ids' = 1..(Len(save) + 1)
  BY <1>2 DEF Ids
<1>4. PICK n \in Nat : n = Len(save) + 1
  BY <1>1
<1>5. /\ Ids' = Ids \cup {n} /\ n > last /\ n \notin Ids /\ \A k \in Ids : k < n
  BY <1>1, <1>3, <1>4 DEF Ids
<1> QED
  BY <1>1, <1>2, <1>4, <1>5 DEF Evolves, Ids, Same

\* A step that leaves the stream alone.
LEMMA Untouched ==
    ASSUME TypeOK, UNCHANGED save
    PROVE  Evolves /\ Ids' = Ids
  BY SaveFacts DEF Evolves, Ids, Same

--------------------------------------------------------------------------------
(* The attempt's variables *)

\* The steps of one attempt.
AttemptStep(a) ==
    StartAttempt(a) \/ DownloadFails(a) \/ ThreadStep(a) \/ CoroStep(a) \/ EnqueueFails(a) \/ Cancel(a)

\* What a step of attempt a leaves of the others: their variables.
Only(a) ==
    \A b \in Attempts \ {a} :
        /\ thread'[b] = thread[b] /\ slot'[b] = slot[b] /\ future'[b] = future[b]
        /\ coro'[b] = coro[b] /\ stopped'[b] = stopped[b] /\ outcome'[b] = outcome[b]

\* Whatever the thread takes out of the slot is a kind of entry.
LEMMA KindFacts == \A w \in Words : Kind(w) \in KindsOfEntry
  BY DEF Words, KindsOfEntry, Kind

\* A thread, or a coroutine, that is given a state keeps its type, and the others theirs.
LEMMA ThreadSet ==
    ASSUME TypeOK, NEW a \in Attempts, NEW t \in Threads, thread' = [thread EXCEPT ![a] = t]
    PROVE  /\ thread' \in [Attempts -> Threads] /\ thread'[a] = t
           /\ \A b \in Attempts \ {a} : thread'[b] = thread[b]
  BY DEF TypeOK, ProducerTypes

LEMMA CoroSet ==
    ASSUME TypeOK, NEW a \in Attempts, NEW c \in Coros, coro' = [coro EXCEPT ![a] = c]
    PROVE  /\ coro' \in [Attempts -> Coros] /\ coro'[a] = c
           /\ \A b \in Attempts \ {a} : coro'[b] = coro[b]
  BY DEF TypeOK, ProducerTypes

\* The same by its fields.
Turns(a, pc, puts, msg) == thread' = [thread EXCEPT ![a].pc = pc, ![a].sent = puts, ![a].msg = msg]
LEMMA ThreadBecomes ==
    ASSUME TypeOK, NEW a \in Attempts, NEW pc \in {"none", "decode", "put", "wait", "ended"},
           NEW puts \in Nat, NEW msg \in Words \cup {"none"}, Turns(a, pc, puts, msg)
    PROVE  /\ thread' \in [Attempts -> Threads]
           /\ thread'[a].pc = pc /\ thread'[a].sent = puts /\ thread'[a].msg = msg
           /\ \A b \in Attempts \ {a} : thread'[b] = thread[b]
<1>0. thread[a] \in Threads
  BY DEF TypeOK, ProducerTypes
<1>1. PICK t \in Threads : t = [thread[a] EXCEPT !.pc = pc, !.sent = puts, !.msg = msg]
  BY <1>0 DEF Threads
<1>2. thread' = [thread EXCEPT ![a] = t]
  BY <1>1 DEF Turns, TypeOK, ProducerTypes
<1>3. t.pc = pc /\ t.sent = puts /\ t.msg = msg
  BY <1>0, <1>1 DEF Threads
<1> QED
  BY <1>2, <1>3, ThreadSet

\* What the steps of an attempt make of its thread and its coroutine.
LEMMA Began ==
    ASSUME TypeOK, NEW a \in Attempts,
           NEW pc \in {"decode", "ended"}, NEW at \in {"get", "over"},
           thread' = [thread EXCEPT ![a].pc = pc], coro' = [coro EXCEPT ![a].pc = at]
    PROVE  /\ thread' \in [Attempts -> Threads] /\ coro' \in [Attempts -> Coros]
           /\ thread'[a].pc = pc /\ thread'[a].sent = thread[a].sent
           /\ coro'[a].pc = at /\ coro'[a].chunk = coro[a].chunk
           /\ \A b \in Attempts \ {a} : thread'[b] = thread[b] /\ coro'[b] = coro[b]
<1>0. thread[a] \in Threads /\ coro[a] \in Coros
  BY DEF TypeOK, ProducerTypes
<1>1. PICK t \in Threads : t = [thread[a] EXCEPT !.pc = pc]
  BY <1>0 DEF Threads
<1>2. PICK c \in Coros : c = [coro[a] EXCEPT !.pc = at]
  BY <1>0 DEF Coros
<1>3. /\ t.pc = pc /\ t.sent = thread[a].sent
      /\ c.pc = at /\ c.chunk = coro[a].chunk
  BY <1>0, <1>1, <1>2 DEF Threads, Coros
<1>4. thread' \in [Attempts -> Threads] /\ thread'[a] = t /\ \A b \in Attempts \ {a} : thread'[b] = thread[b]
  <2>1. thread' = [thread EXCEPT ![a] = t]
    BY <1>1
  <2> QED
    BY <2>1, ThreadSet
<1>5. coro' \in [Attempts -> Coros] /\ coro'[a] = c /\ \A b \in Attempts \ {a} : coro'[b] = coro[b]
  <2>1. coro' = [coro EXCEPT ![a] = c]
    BY <1>2
  <2> QED
    BY <2>1, CoroSet
<1> QED
  BY <1>3, <1>4, <1>5

LEMMA EndsFacts ==
    ASSUME TypeOK, NEW a \in Attempts, Ends(a)
    PROVE  /\ thread' \in [Attempts -> Threads]
           /\ thread'[a].pc = "ended" /\ thread'[a].sent = thread[a].sent
           /\ \A b \in Attempts \ {a} : thread'[b] = thread[b]
<1>1. thread[a].sent \in Nat /\ "none" \in Words \cup {"none"}
  BY DEF TypeOK, ProducerTypes, Threads
<1>2. Turns(a, "ended", thread[a].sent, "none")
  BY DEF Ends, TypeOK, ProducerTypes, Threads, Turns
<1> QED
  BY <1>1, <1>2, ThreadBecomes

LEMMA PublishesFacts ==
    ASSUME TypeOK, NEW a \in Attempts, NEW w \in Words, Publishes(a, w)
    PROVE  /\ thread' \in [Attempts -> Threads]
           /\ thread'[a].pc = "put" /\ thread'[a].sent = thread[a].sent /\ thread'[a].msg = w
           /\ \A b \in Attempts \ {a} : thread'[b] = thread[b]
<1>1. thread[a].sent \in Nat /\ w \in Words \cup {"none"}
  BY DEF TypeOK, ProducerTypes, Threads
<1>2. Turns(a, "put", thread[a].sent, w)
  BY DEF Publishes, TypeOK, ProducerTypes, Threads, Turns
<1> QED
  BY <1>1, <1>2, ThreadBecomes

LEMMA GetFacts ==
    ASSUME TypeOK, NEW a \in Attempts, Get(a)
    PROVE  /\ coro' \in [Attempts -> Coros] /\ slot[a] \in Words
           /\ coro'[a].pc = "enqueue" /\ coro'[a].got = slot[a] /\ coro'[a].chunk = coro[a].chunk
           /\ \A b \in Attempts \ {a} : coro'[b] = coro[b]
<1>0. coro \in [Attempts -> Coros] /\ coro[a] \in Coros /\ slot[a] \in Words
  BY DEF TypeOK, ProducerTypes, Get
<1>1. PICK c \in Coros : c = [coro[a] EXCEPT !.pc = "enqueue", !.got = slot[a]]
  BY <1>0 DEF Coros
<1>2. c.pc = "enqueue" /\ c.got = slot[a] /\ c.chunk = coro[a].chunk
  BY <1>0, <1>1 DEF Coros
<1>3. coro' = [coro EXCEPT ![a] = c]
  BY <1>0, <1>1 DEF Get
<1> QED
  BY <1>0, <1>2, <1>3, CoroSet

LEMMA EnqueueFacts ==
    ASSUME TypeOK, NEW a \in Attempts, Enqueue(a)
    PROVE  /\ coro' \in [Attempts -> Coros] /\ coro[a].pc = "enqueue" /\ coro[a].got \in Words
           /\ coro[a].got = "batch" => coro'[a].pc = "get" /\ coro'[a].chunk = coro[a].chunk + 1
           /\ coro[a].got = "done" => coro'[a].pc = "join"
           /\ coro[a].got = "error" => coro'[a].pc = "fail"
           /\ \A b \in Attempts \ {a} : coro'[b] = coro[b]
<1>0. /\ coro \in [Attempts -> Coros] /\ coro[a] \in Coros /\ coro[a].got \in Words /\ coro[a].chunk \in Nat
      /\ coro[a].pc = "enqueue"
  BY DEF TypeOK, ProducerTypes, Enqueue, Coros
<1>1. PICK pc \in {"get", "join", "fail"} :
        pc = (CASE coro[a].got = "batch" -> "get" [] coro[a].got = "done" -> "join" [] coro[a].got = "error" -> "fail")
  BY <1>0 DEF Words
<1>2. PICK n \in Nat : n = IF coro[a].got = "batch" THEN coro[a].chunk + 1 ELSE coro[a].chunk
  BY <1>0
<1>3. coro' = [coro EXCEPT ![a].pc = pc, ![a].chunk = n]
  BY <1>1, <1>2 DEF Enqueue
<1>4. PICK c \in Coros : c = [coro[a] EXCEPT !.pc = pc, !.chunk = n]
  BY <1>0 DEF Coros
<1>5. c.pc = pc /\ c.chunk = n
  BY <1>0, <1>4 DEF Coros
<1>6. coro' = [coro EXCEPT ![a] = c]
  BY <1>0, <1>3, <1>4
<1> QED
  BY <1>0, <1>1, <1>2, <1>5, <1>6, CoroSet

\* Every step of an attempt keeps the types of the producer and the other attempts.
LEMMA AttemptTypes ==
    ASSUME TypeOK, NEW a \in Attempts, AttemptStep(a)
    PROVE  ProducerTypes' /\ Only(a)
<1> USE DEF ProducerTypes, Only
<1>0. /\ ProducerTypes /\ thread[a] \in Threads /\ coro[a] \in Coros
      /\ thread[a].sent \in Nat /\ thread[a].msg \in Words \cup {"none"}
      /\ coro[a].chunk \in Nat /\ coro[a].got \in Words \cup {"none"}
      /\ slot[a] \in Words \cup {"empty"}
  BY DEF TypeOK, Threads, Coros
<1>1. CASE StartAttempt(a)
  <2>1. /\ thread' = [thread EXCEPT ![a].pc = "decode"] /\ coro' = [coro EXCEPT ![a].pc = "get"]
        /\ UNCHANGED <<slot, future, stopped, outcome>>
    BY <1>1 DEF StartAttempt
  <2>2. /\ thread' \in [Attempts -> Threads] /\ coro' \in [Attempts -> Coros]
        /\ thread'[a].pc = "decode" /\ coro'[a].pc = "get"
        /\ \A b \in Attempts \ {a} : thread'[b] = thread[b] /\ coro'[b] = coro[b]
    BY <2>1, Began
  <2> QED
    BY <1>0, <2>1, <2>2
<1>2. CASE DownloadFails(a)
  <2>1. /\ thread' = [thread EXCEPT ![a].pc = "ended"] /\ coro' = [coro EXCEPT ![a].pc = "over"]
        /\ outcome' = [outcome EXCEPT ![a] = "failed"] /\ UNCHANGED <<slot, future, stopped>>
    BY <1>2 DEF DownloadFails
  <2>2. /\ thread' \in [Attempts -> Threads] /\ coro' \in [Attempts -> Coros]
        /\ thread'[a].pc = "ended" /\ coro'[a].pc = "over"
        /\ \A b \in Attempts \ {a} : thread'[b] = thread[b] /\ coro'[b] = coro[b]
    BY <2>1, Began
  <2> QED
    BY <1>0, <2>1, <2>2
<1>3. CASE Decode(a)
  <2>1. CASE Ends(a)
    BY <1>0, <1>3, <2>1, EndsFacts DEF Decode
  <2>2. ASSUME NEW w \in Words, Publishes(a, w)
        PROVE  ProducerTypes' /\ Only(a)
    <3>1. w # "none"
      BY DEF Words
    <3> QED
      BY <1>0, <1>3, <2>2, <3>1, PublishesFacts DEF Decode
  <2> QED
    BY <1>3, <2>1, <2>2 DEF Decode, Words
<1>4. CASE Put(a)
  <2>1. thread[a].pc = "put" /\ thread[a].msg \in Words
    BY <1>0, <1>4 DEF Put
  <2>2. CASE Ends(a) /\ UNCHANGED future
    BY <1>0, <1>4, <2>1, <2>2, EndsFacts DEF Put
  <2>3. CASE thread' = [thread EXCEPT ![a].pc = "wait"] /\ future' = [future EXCEPT ![a] = "waiting"]
    <3>1. Turns(a, "wait", thread[a].sent, thread[a].msg)
      BY <1>0, <2>3 DEF Threads, Turns
    <3>2. thread' \in [Attempts -> Threads] /\ thread'[a].pc = "wait" /\ \A b \in Attempts \ {a} : thread'[b] = thread[b]
      BY <1>0, <3>1, ThreadBecomes
    <3> QED
      BY <1>0, <1>4, <2>1, <2>3, <3>2 DEF Put
  <2> QED
    BY <1>4, <2>2, <2>3 DEF Put, Awaited
<1>5. CASE Delivered(a)
  <2>1. CASE Ends(a)
    BY <1>0, <1>5, <2>1, EndsFacts DEF Delivered
  <2>2. CASE thread' = [thread EXCEPT ![a].pc = "decode", ![a].sent = @ + 1, ![a].msg = "none"]
    <3>1. PICK n \in Nat : n = thread[a].sent + 1
      BY <1>0
    <3>2. Turns(a, "decode", n, "none")
      BY <1>0, <2>2, <3>1 DEF Threads, Turns
    <3>3. thread' \in [Attempts -> Threads] /\ thread'[a].pc = "decode" /\ \A b \in Attempts \ {a} : thread'[b] = thread[b]
      BY <3>2, ThreadBecomes
    <3> QED
      BY <1>0, <1>5, <3>3 DEF Delivered
  <2> QED
    BY <1>5, <2>1, <2>2 DEF Delivered
<1>6. CASE SeesStopped(a)
  BY <1>0, <1>6, EndsFacts DEF SeesStopped
<1>7. CASE Get(a)
  <2>1. /\ coro' \in [Attempts -> Coros] /\ coro'[a].got # "none"
        /\ \A b \in Attempts \ {a} : coro'[b] = coro[b]
    BY <1>7, GetFacts DEF Words
  <2>2. slot' = [slot EXCEPT ![a] = "empty"] /\ UNCHANGED <<thread, future, stopped, outcome>>
    BY <1>7 DEF Get
  <2> QED
    BY <1>0, <2>1, <2>2
<1>8. CASE Enqueue(a)
  <2>1. /\ coro' \in [Attempts -> Coros] /\ coro'[a].pc # "enqueue"
        /\ \A b \in Attempts \ {a} : coro'[b] = coro[b]
    BY <1>8, EnqueueFacts DEF Words
  <2>2. /\ future' = future \/ future' = [future EXCEPT ![a] = "set"]
        /\ stopped' = stopped \/ stopped' = [stopped EXCEPT ![a] = TRUE]
        /\ UNCHANGED <<thread, slot, outcome>>
    BY <1>8 DEF Enqueue, Answer
  <2>3. /\ future' \in [Attempts -> {"none", "waiting", "set", "failed"}]
        /\ \A b \in Attempts \ {a} : future'[b] = future[b]
    BY <1>0, <2>2
  <2>4. stopped' \in [Attempts -> BOOLEAN] /\ \A b \in Attempts \ {a} : stopped'[b] = stopped[b]
    BY <1>0, <2>2
  <2> QED
    BY <1>0, <2>1, <2>2, <2>3, <2>4
<1>9. CASE Join(a)
  BY <1>0, <1>9 DEF Join, Coros
<1>10. CASE EnqueueFails(a)
  BY <1>0, <1>10 DEF EnqueueFails, Answer, Coros
<1>11. CASE Cancel(a)
  BY <1>0, <1>11 DEF Cancel, Coros
<1> QED
  BY <1>1, <1>2, <1>3, <1>4, <1>5, <1>6, <1>7, <1>8, <1>9, <1>10, <1>11
     DEF AttemptStep, ThreadStep, CoroStep

\* An attempt adds an entry of its own to the stream, or leaves it alone.
LEMMA AttemptWrites ==
    ASSUME TypeOK, NEW a \in Attempts, AttemptStep(a)
    PROVE  /\ Evolves /\ UNCHANGED consumer /\ trouble' \in 0..MaxTrouble
           /\ \/ UNCHANGED save
              \/ \E kind \in KindsOfEntry : /\ Entry(a, kind, coro[a].chunk) \in Entries
                                            /\ save' = Append(save, Entry(a, kind, coro[a].chunk))
<1>1. trouble' = trouble \/ Trouble
  BY DEF AttemptStep, ThreadStep, CoroStep, StartAttempt, DownloadFails, Decode, Put, Delivered,
         SeesStopped, Get, Enqueue, EnqueueFails, Join, Cancel
<1>2. trouble' \in 0..MaxTrouble
  BY <1>1, LimitsAssumption DEF TypeOK, ConsumerTypes, Trouble
<1>3. UNCHANGED consumer
  BY DEF AttemptStep, ThreadStep, CoroStep, StartAttempt, DownloadFails, Decode, Put, Delivered,
         SeesStopped, Get, Enqueue, EnqueueFails, Join, Cancel
<1>4. save' = save \/ (coro[a].pc = "enqueue" /\ Enqueued(a, Kind(coro[a].got), coro[a].chunk))
  <2>1. Enqueue(a) => coro[a].pc = "enqueue" /\ Enqueued(a, Kind(coro[a].got), coro[a].chunk)
    BY Zenon DEF Enqueue
  <2>2. EnqueueFails(a) =>
          coro[a].pc = "enqueue" /\ (Enqueued(a, Kind(coro[a].got), coro[a].chunk) \/ save' = save)
    BY Zenon DEF EnqueueFails
  <2>3. StartAttempt(a) \/ DownloadFails(a) \/ ThreadStep(a) => save' = save
    BY DEF ThreadStep, StartAttempt, DownloadFails, Decode, Put, Delivered, SeesStopped
  <2>4. Get(a) \/ Join(a) \/ Cancel(a) => save' = save
    BY DEF Get, Join, Cancel
  <2> QED
    BY <2>1, <2>2, <2>3, <2>4 DEF AttemptStep, CoroStep
<1>5. CASE save' = save
  BY <1>2, <1>3, <1>5, Untouched
<1>6. CASE coro[a].pc = "enqueue" /\ Enqueued(a, Kind(coro[a].got), coro[a].chunk)
  <2>1. PICK kind \in KindsOfEntry : kind = Kind(coro[a].got)
    BY <1>6, KindFacts DEF TypeOK, ProducerTypes, Coros
  <2>2. Entry(a, kind, coro[a].chunk) \in Entries
    BY <2>1 DEF TypeOK, ProducerTypes, Coros, Entry, Entries
  <2>3. save' = Append(save, Entry(a, kind, coro[a].chunk))
    BY <1>6, <2>1 DEF Enqueued
  <2> QED
    BY <1>2, <1>3, <2>2, <2>3, Appended
<1> QED
  BY <1>4, <1>5, <1>6

--------------------------------------------------------------------------------
(* The save service's steps *)

\* The marks an entry is given keep its type and its name.
LEMMA Marks ==
    ASSUME TypeOK, NEW m \in Ids
    PROVE  /\ Given(m) \in Entries /\ Same(Given(m), save[m])
           /\ Given(m).pending /\ Given(m).kept = save[m].kept
           /\ [save[m] EXCEPT !.ripe = TRUE] \in Entries /\ Same([save[m] EXCEPT !.ripe = TRUE], save[m])
           /\ [save[m] EXCEPT !.ripe = FALSE] \in Entries /\ Same([save[m] EXCEPT !.ripe = FALSE], save[m])
           /\ Gone(save[m]) \in Entries /\ Same(Gone(save[m]), save[m]) /\ Gone(save[m]).kept = save[m].kept
           /\ [Gone(save[m]) EXCEPT !.kept = FALSE] \in Entries
           /\ Same([Gone(save[m]) EXCEPT !.kept = FALSE], save[m])
<1>1. save[m] \in Entries
  BY SaveFacts
<1> QED
  BY <1>1 DEF Entries, Given, Gone, Same

\* A copy that Reject adds comes last, and the entry it rejects is pending no more.
LEMMA Copy ==
    ASSUME TypeOK, NEW m \in Ids, NEW e \in Entries,
           save' = Append([save EXCEPT ![m] = Gone(@)], e)
    PROVE  /\ Evolves
           /\ \E n \in Nat : /\ n = Len(save) + 1 /\ Ids' = Ids \cup {n} /\ save'[n] = e
                             /\ n > last /\ n \notin Ids /\ \A k \in Ids : k < n
           /\ save'[m] = Gone(save[m]) /\ \A k \in Ids \ {m} : save'[k] = save[k]
<1>1. save \in Seq(Entries) /\ Len(save) \in Nat /\ last \in 0..Len(save) /\ save \in [Ids -> Entries]
  BY SaveFacts DEF TypeOK, ConsumerTypes
<1>2. Gone(save[m]) \in Entries /\ Same(Gone(save[m]), save[m])
  BY Marks
<1>3. PICK out : out = [save EXCEPT ![m] = Gone(@)]
  OBVIOUS
<1>4. out \in [Ids -> Entries] /\ out[m] = Gone(save[m]) /\ \A k \in Ids \ {m} : out[k] = save[k]
  BY <1>1, <1>2, <1>3
<1>5. out \in Seq(Entries) /\ Len(out) = Len(save)
  BY <1>1, <1>4, IsASeq, LenProperties DEF Ids
<1>6. save' = Append(out, e)
  BY <1>3
<1>7. /\ save' \in Seq(Entries) /\ Len(save') = Len(save) + 1
      /\ \A k \in 1..Len(save) : save'[k] = out[k]
      /\ save'[Len(save) + 1] = e
  <2>1. /\ Append(out, e) \in Seq(Entries) /\ Len(Append(out, e)) = Len(out) + 1
        /\ \A k \in 1..Len(out) : Append(out, e)[k] = out[k]
        /\ Append(out, e)[Len(out) + 1] = e
    BY <1>5, AppendProperties
  <2> QED
    BY <1>5, <1>6, <2>1
<1>8. Ids' = 1..(Len(save) + 1)
  BY <1>7 DEF Ids
<1>9. PICK n \in Nat : n = Len(save) + 1
  BY <1>1
<1>10. /\ Ids' = Ids \cup {n} /\ n > last /\ n \notin Ids /\ \A k \in Ids : k < n
  BY <1>1, <1>8, <1>9 DEF Ids
<1>11. save'[m] = Gone(save[m]) /\ \A k \in Ids \ {m} : save'[k] = save[k]
  BY <1>4, <1>7 DEF Ids
<1>12. \A k \in Ids : Same(save'[k], save[k])
  BY <1>2, <1>11 DEF Same
<1> QED
  BY <1>1, <1>7, <1>9, <1>10, <1>11, <1>12 DEF Evolves

\* What each step does to the stream.
LEMMA ReadFacts ==
    ASSUME TypeOK, ReadTask
    PROVE  /\ Evolves /\ Ids' = Ids /\ Len(save') = Len(save)
           /\ last + 1 \in Ids /\ save'[last + 1] = Given(last + 1)
           /\ \A k \in Ids \ {last + 1} : save'[k] = save[k]
<1>1. last \in 0..Len(save) /\ Len(save) \in Nat /\ last < Len(save)
  BY SaveFacts DEF TypeOK, ConsumerTypes, ReadTask
<1>2. PICK m \in Ids : m = last + 1
  BY <1>1 DEF Ids
<1>3. PICK e \in Entries : e = Given(m) /\ Same(e, save[m])
  BY Marks
<1>4. save' = [save EXCEPT ![m] = e]
  BY <1>2, <1>3 DEF ReadTask
<1> QED
  BY <1>2, <1>3, <1>4, MarkedOne

LEMMA ClaimFacts ==
    ASSUME TypeOK, ClaimOrphans
    PROVE  /\ Evolves /\ Ids' = Ids /\ Len(save') = Len(save)
           /\ \A k \in Ids : save'[k] = [save[k] EXCEPT !.ripe = FALSE]
<1>1. PICK f : f = [m \in Ids |-> [save[m] EXCEPT !.ripe = FALSE]]
  BY Zenon
<1>2. f \in [Ids -> Entries] /\ \A m \in Ids : Same(f[m], save[m])
  BY <1>1, Marks
<1>3. save' = f
  BY <1>1 DEF ClaimOrphans
<1> QED
  BY <1>1, <1>2, <1>3, Marked

LEMMA AckFacts ==
    ASSUME TypeOK, NEW l \in Loops, Acknowledge(l)
    PROVE  /\ Evolves /\ Ids' = Ids /\ Len(save') = Len(save)
           /\ saver[l].msg \in Ids
           /\ \A k \in Ids \ {saver[l].msg} : save'[k] = save[k]
           /\ save' = save \/ save[saver[l].msg].pending
<1>1. PICK m \in Ids : m = saver[l].msg
  BY DEF TypeOK, ConsumerTypes, Acknowledge, At
<1>2. PICK e \in Entries : e = [Gone(save[m]) EXCEPT !.kept = FALSE] /\ Same(e, save[m])
  BY Marks
<1>3. save' = save \/ (save[m].pending /\ save' = [save EXCEPT ![m] = e])
  BY <1>1, <1>2 DEF Acknowledge, Msg
<1>4. CASE save' = save
  BY <1>1, <1>4, Untouched
<1>5. CASE save[m].pending /\ save' = [save EXCEPT ![m] = e]
  BY <1>1, <1>2, <1>5, MarkedOne
<1> QED
  BY <1>3, <1>4, <1>5

LEMMA RipenFacts ==
    ASSUME TypeOK, NEW m \in Ids, Ripen(m)
    PROVE  /\ Evolves /\ Ids' = Ids /\ Len(save') = Len(save)
           /\ save'[m] = [save[m] EXCEPT !.ripe = TRUE]
           /\ \A k \in Ids \ {m} : save'[k] = save[k]
<1>1. PICK e \in Entries : e = [save[m] EXCEPT !.ripe = TRUE] /\ Same(e, save[m])
  BY Marks
<1>2. save' = [save EXCEPT ![m] = e]
  BY <1>1, SaveFacts DEF Ripen
<1> QED
  BY <1>1, <1>2, MarkedOne

\* Either the copy is on the stream or the entry is a dead letter.
LEMMA RejectFacts ==
    ASSUME TypeOK, NEW l \in Loops, Reject(l)
    PROVE  /\ Evolves /\ saver[l].msg \in Ids
           /\ save'[saver[l].msg] = Gone(save[saver[l].msg])
           /\ \A k \in Ids \ {saver[l].msg} : save'[k] = save[k]
           /\ \/ Ids' = Ids /\ given_up' = given_up \cup {saver[l].msg}
              \/ /\ UNCHANGED given_up
                 /\ \E n \in Nat : /\ Ids' = Ids \cup {n} /\ n > last /\ \A k \in Ids : k < n
                                   /\ save'[n].attempt = save[saver[l].msg].attempt
                                   /\ save'[n].kind = save[saver[l].msg].kind
                                   /\ save'[n].chunk = save[saver[l].msg].chunk
                                   /\ save'[n].kept /\ save'[n].retry > 0
<1>1. PICK m \in Ids : m = saver[l].msg
  BY DEF TypeOK, ConsumerTypes, Reject, At
<1>2. PICK r \in Nat : r = saver[l].retry + 1 /\ r > 0
  BY DEF TypeOK, ConsumerTypes, Savers
<1>3. PICK g \in Entries : g = Gone(save[m]) /\ Same(g, save[m])
  BY Marks
<1>4. save[m] \in Entries
  BY SaveFacts
<1>5. PICK e \in Entries : e = [Entry(save[m].attempt, save[m].kind, save[m].chunk) EXCEPT !.retry = r]
  BY <1>4 DEF Entry, Entries
<1>6. /\ e.attempt = save[m].attempt /\ e.kind = save[m].kind /\ e.chunk = save[m].chunk
      /\ e.kept /\ e.retry = r
  BY <1>4, <1>5 DEF Entry, Entries
<1>7. \/ /\ save' = Append([save EXCEPT ![m] = Gone(@)], e)
         /\ UNCHANGED given_up
      \/ save' = [save EXCEPT ![m] = Gone(@)] /\ given_up' = given_up \cup {m}
  BY <1>1, <1>2, <1>5 DEF Reject, Msg
<1>8. CASE save' = Append([save EXCEPT ![m] = Gone(@)], e) /\ UNCHANGED given_up
  <2>1. Evolves /\ save'[m] = Gone(save[m]) /\ \A k \in Ids \ {m} : save'[k] = save[k]
    BY <1>8, Copy
  <2>2. PICK n \in Nat : Ids' = Ids \cup {n} /\ save'[n] = e /\ n > last /\ \A k \in Ids : k < n
    BY <1>8, Copy
  <2>3. /\ save'[n].attempt = save[m].attempt /\ save'[n].kind = save[m].kind
        /\ save'[n].chunk = save[m].chunk /\ save'[n].kept /\ save'[n].retry > 0
    BY <1>2, <1>6, <2>2
  <2>4. UNCHANGED given_up
    BY <1>8
  <2> QED
    BY <1>1, <2>1, <2>2, <2>3, <2>4
<1>9. CASE save' = [save EXCEPT ![m] = Gone(@)] /\ given_up' = given_up \cup {m}
  <2>1. save' = [save EXCEPT ![m] = g]
    BY <1>3, <1>9
  <2> QED
    BY <1>1, <1>3, <1>9, <2>1, MarkedOne
<1> QED
  BY <1>7, <1>8, <1>9

\* A loop that is given a state keeps the loops' types.
LoopTypes ==
    /\ saver \in [Loops -> Savers]
    /\ \A l \in Loops : /\ saver[l].pc # "idle" => saver[l].msg \in Ids
                        /\ saver[l].pc = "append" => save[saver[l].msg].kind = "pending"

LEMMA SaverSet ==
    ASSUME TypeOK, Evolves, NEW l \in Loops, NEW r \in Savers, saver' = [saver EXCEPT ![l] = r],
           r.pc # "idle" => r.msg \in Ids', r.pc = "append" => save'[r.msg].kind = "pending"
    PROVE  LoopTypes' /\ saver'[l] = r /\ \A k \in Loops \ {l} : saver'[k] = saver[k]
<1>1. saver \in [Loops -> Savers] /\ LoopTypes
  BY DEF TypeOK, ConsumerTypes, LoopTypes
<1>2. saver' \in [Loops -> Savers] /\ saver'[l] = r /\ \A k \in Loops \ {l} : saver'[k] = saver[k]
  BY <1>1
<1>3. ASSUME NEW k \in Loops \ {l}
      PROVE  /\ saver'[k].pc # "idle" => saver'[k].msg \in Ids'
             /\ saver'[k].pc = "append" => save'[saver'[k].msg].kind = "pending"
  <2>1. saver'[k] = saver[k] /\ (saver[k].pc # "idle" => saver[k].msg \in Ids)
    BY <1>1, <1>2 DEF LoopTypes
  <2>2. saver[k].pc = "append" => save[saver[k].msg].kind = "pending" /\ saver[k].msg \in Ids
    BY <1>1, <2>1 DEF LoopTypes
  <2> QED
    BY <2>1, <2>2 DEF Evolves, Same
<1> QED
  BY <1>2, <1>3 DEF LoopTypes

\* A loop that only goes on to another step keeps its entry.
LEMMA GoesFacts ==
    ASSUME TypeOK, Evolves, NEW l \in Loops, NEW s \in {"ack", "reject"}, Goes(l, s),
           saver[l].pc # "idle"
    PROVE  /\ LoopTypes' /\ saver'[l].pc = s /\ saver'[l].msg = saver[l].msg
           /\ \A k \in Loops \ {l} : saver'[k] = saver[k]
<1>1. saver \in [Loops -> Savers] /\ saver[l].msg \in Ids
  BY DEF TypeOK, ConsumerTypes
<1>2. PICK r \in Savers : r = [saver[l] EXCEPT !.pc = s] /\ r.pc = s /\ r.msg = saver[l].msg
  <2>1. saver[l] \in Savers /\ s \in {"idle", "process", "append", "ack", "reject"}
    BY <1>1
  <2>2. PICK r : r = [saver[l] EXCEPT !.pc = s]
    OBVIOUS
  <2>3. r \in Savers /\ r.pc = s /\ r.msg = saver[l].msg
    BY <2>1, <2>2 DEF Savers
  <2> QED
    BY <2>2, <2>3
<1>3. saver' = [saver EXCEPT ![l] = r]
  BY <1>1, <1>2 DEF Goes
<1>4. r.msg \in Ids' /\ r.pc # "append"
  BY <1>1, <1>2 DEF Evolves
<1> QED
  BY <1>2, <1>3, <1>4, SaverSet

\* A loop that is freed, and one that takes an entry.
LEMMA FreesFacts ==
    ASSUME TypeOK, Evolves, NEW l \in Loops, Frees(l)
    PROVE  LoopTypes' /\ saver'[l].pc = "idle" /\ \A k \in Loops \ {l} : saver'[k] = saver[k]
<1>1. PICK r \in Savers : r = [pc |-> "idle", msg |-> 0, retry |-> 0, index |-> 0]
  BY DEF Savers
<1>2. saver' = [saver EXCEPT ![l] = r] /\ r.pc = "idle"
  BY <1>1 DEF Frees
<1> QED
  BY <1>2, SaverSet

LEMMA TakesFacts ==
    ASSUME TypeOK, Evolves, NEW l \in Loops, NEW m \in Ids', NEW n \in Nat, Takes(l, m, n)
    PROVE  LoopTypes' /\ saver'[l].pc = "process" /\ \A k \in Loops \ {l} : saver'[k] = saver[k]
<1>1. m \in Nat
  BY DEF Evolves, Ids
<1>2. PICK r \in Savers : r = [pc |-> "process", msg |-> m, retry |-> n, index |-> 0]
  BY <1>1 DEF Savers
<1>3. saver' = [saver EXCEPT ![l] = r] /\ r.pc = "process" /\ r.msg = m
  BY <1>2 DEF Takes
<1> QED
  BY <1>3, SaverSet

\* Loops that stay keep their types whatever is added to the stream.
LEMMA SaverSame ==
    ASSUME TypeOK, Evolves, UNCHANGED saver
    PROVE  LoopTypes'
<1>1. saver \in [Loops -> Savers] /\ LoopTypes
  BY DEF TypeOK, ConsumerTypes, LoopTypes
<1>2. ASSUME NEW k \in Loops
      PROVE  /\ saver'[k].pc # "idle" => saver'[k].msg \in Ids'
             /\ saver'[k].pc = "append" => save'[saver'[k].msg].kind = "pending"
  <2>1. saver'[k] = saver[k] /\ (saver[k].pc # "idle" => saver[k].msg \in Ids)
    BY <1>1 DEF LoopTypes
  <2>2. saver[k].pc = "append" => save[saver[k].msg].kind = "pending" /\ saver[k].msg \in Ids
    BY <1>1, <2>1 DEF LoopTypes
  <2> QED
    BY <2>1, <2>2 DEF Evolves, Same
<1> QED
  BY <1>1, <1>2 DEF LoopTypes

\* The rows are typed one by one.
LEMMA RowTypes == ASSUME TypeOK PROVE (\A i \in DOMAIN rows : rows[i] \in Rows) /\ Indexes \subseteq Nat
<1>1. rows \in Seq(Rows) /\ DOMAIN rows = 1..Len(rows)
  BY LenProperties DEF TypeOK, ConsumerTypes
<1>2. \A i \in DOMAIN rows : rows[i] \in Rows
  BY <1>1, ElementOfSeq
<1> QED
  BY <1>2 DEF Indexes, Rows

\* The index that append_transcript_chunk gives out.
LEMMA NextIndexType == ASSUME TypeOK PROVE NextIndex \in Nat
<1>2. CASE rows = <<>>
  BY <1>2 DEF NextIndex
<1>3. CASE rows # <<>>
  <2>1. \E i \in Indexes : \A j \in Indexes : j <= i
    BY <1>3 DEF TypeOK, HighestIndex
  <2>2. Indexes \subseteq Nat
    BY RowTypes
  <2>3. (CHOOSE i \in Indexes : \A j \in Indexes : j <= i) \in Nat
    BY <2>1, <2>2
  <2> QED
    BY <1>3, <2>3 DEF NextIndex
<1> QED
  BY <1>2, <1>3

\* The rows after one more was written.
LEMMA RowAdded ==
    ASSUME TypeOK, NEW r \in Rows, rows' = Append(rows, r)
    PROVE  /\ rows' \in Seq(Rows) /\ Len(rows') = Len(rows) + 1 /\ HighestIndex'
           /\ \A i \in DOMAIN rows : i \in DOMAIN rows' /\ rows'[i] = rows[i]
           /\ \E i \in DOMAIN rows' : rows'[i] = r
<1>1. rows \in Seq(Rows) /\ Len(rows) \in Nat /\ DOMAIN rows = 1..Len(rows)
  BY LenProperties DEF TypeOK, ConsumerTypes
<1>2. /\ rows' \in Seq(Rows) /\ Len(rows') = Len(rows) + 1
      /\ \A i \in 1..Len(rows) : rows'[i] = rows[i]
      /\ rows'[Len(rows) + 1] = r
  BY <1>1, AppendProperties
<1>3. PICK n \in Nat : n = Len(rows) + 1
  BY <1>1
<1>4. DOMAIN rows' = DOMAIN rows \cup {n} /\ rows'[n] = r
  BY <1>1, <1>2, <1>3, LenProperties
<1>5. \A i \in DOMAIN rows : rows'[i] = rows[i]
  BY <1>1, <1>2
<1>6. Indexes' = Indexes \cup {r.index}
  BY <1>4, <1>5 DEF Indexes
<1>7. HighestIndex'
  <2>1. r.index \in Nat /\ Indexes \subseteq Nat
    BY RowTypes DEF Rows
  <2>2. CASE rows = <<>>
    <3>1. Indexes = {}
      BY <1>1, <2>2 DEF Indexes
    <3> QED
      BY <1>6, <2>1, <3>1 DEF HighestIndex
  <2>3. CASE rows # <<>>
    <3>1. PICK h \in Indexes : \A j \in Indexes : j <= h
      BY <2>3 DEF TypeOK, HighestIndex
    <3>2. PICK g \in {h, r.index} : h <= g /\ r.index <= g
      BY <2>1, <3>1
    <3> QED
      BY <1>6, <2>1, <3>1, <3>2 DEF HighestIndex
  <2> QED
    BY <2>2, <2>3
<1> QED
  BY <1>2, <1>4, <1>5, <1>7

\* What a step leaves when it writes no row.
LEMMA ConsumerKept ==
    ASSUME TypeOK, Evolves, LoopTypes', last' \in 0..Len(save'), todo' \subseteq Ids',
           given_up' \subseteq Ids', UNCHANGED <<rows, count>>,
           status' \in {"wait_process", "completed", "failed"}, completed' \subseteq Attempts,
           trouble' = trouble \/ Trouble
    PROVE  ConsumerTypes' /\ HighestIndex'
<1>1. trouble' \in 0..MaxTrouble
  BY LimitsAssumption DEF TypeOK, ConsumerTypes, Trouble
<1>2. rows' \in Seq(Rows) /\ count' \in Nat
  BY DEF TypeOK, ConsumerTypes
<1>3. HighestIndex'
  BY DEF TypeOK, HighestIndex, Indexes
<1> QED
  BY <1>1, <1>2, <1>3 DEF ConsumerTypes, Evolves, LoopTypes

\* The steps of the save service keep every type and leave the attempts alone.
ConsumerStep ==
    \/ ReadTask \/ ClaimOrphans \/ NextClaimed \/ SaverCrash
    \/ (\E l \in Loops : SaveStep(l)) \/ (\E m \in Ids : Ripen(m))

LEMMA ConsumerStepTypes ==
    ASSUME TypeOK, ConsumerStep
    PROVE  ConsumerTypes' /\ HighestIndex' /\ Evolves /\ UNCHANGED producer
<1>0. /\ last \in 0..Len(save) /\ Len(save) \in Nat /\ todo \subseteq Ids /\ given_up \subseteq Ids
      /\ status \in {"wait_process", "completed", "failed"} /\ completed \subseteq Attempts
      /\ saver \in [Loops -> Savers] /\ \A l \in Loops : saver[l].pc # "idle" => saver[l].msg \in Ids
  BY SaveFacts DEF TypeOK, ConsumerTypes
<1>e. Evolves => last \in 0..Len(save') /\ todo \subseteq Ids' /\ given_up \subseteq Ids'
  BY <1>0 DEF Evolves
<1>1. CASE ReadTask
  <2>1. Evolves /\ last + 1 \in Ids' /\ Len(save') = Len(save)
    BY <1>1, ReadFacts
  <2>2. PICK m \in Ids : m = last + 1
    BY <1>1, ReadFacts
  <2>3. save[m].retry \in Nat
    BY SaveFacts DEF Entries
  <2>4. Takes("consumer", m, save[m].retry) /\ m \in Ids'
    BY <1>1, <2>1, <2>2 DEF ReadTask
  <2>5. LoopTypes'
    BY <2>1, <2>3, <2>4, TakesFacts DEF Loops
  <2>6. last' \in 0..Len(save')
    BY <1>0, <1>1, <2>1 DEF ReadTask
  <2> QED
    BY <1>0, <1>1, <1>e, <2>1, <2>5, <2>6, ConsumerKept DEF ReadTask, producer
<1>2. CASE ClaimOrphans
  <2>1. Evolves /\ Ids' = Ids
    BY <1>2, ClaimFacts
  <2>2. LoopTypes'
    BY <1>2, <2>1, SaverSame DEF ClaimOrphans
  <2>3. todo' \subseteq Ids'
    BY <1>2, <2>1 DEF ClaimOrphans, Ripe
  <2> QED
    BY <1>0, <1>2, <1>e, <2>1, <2>2, <2>3, ConsumerKept DEF ClaimOrphans, producer
<1>3. CASE NextClaimed
  <2>1. Evolves /\ Ids' = Ids
    BY <1>3, Untouched DEF NextClaimed
  <2>2. PICK m \in todo : todo' = todo \ {m} /\ Takes("orphan", m, save[m].retry + 1)
    BY <1>3 DEF NextClaimed
  <2>3. m \in Ids'
    BY <1>0, <2>1, <2>2
  <2>4. PICK n \in Nat : n = save[m].retry + 1
    BY <2>1, <2>3, SaveFacts DEF Entries
  <2>5. LoopTypes'
    BY <2>1, <2>2, <2>3, <2>4, TakesFacts DEF Loops
  <2>6. todo' \subseteq Ids'
    BY <1>0, <2>1, <2>2
  <2>7. UNCHANGED <<producer, save, last, rows, count, status, completed, given_up, trouble>>
    BY <1>3 DEF NextClaimed
  <2> QED
    BY <1>0, <1>e, <2>1, <2>5, <2>6, <2>7, ConsumerKept
<1>4. CASE SaverCrash
  <2>1. Evolves /\ Ids' = Ids
    BY <1>4, Untouched DEF SaverCrash
  <2>2. LoopTypes'
    BY <1>4 DEF SaverCrash, LoopTypes, Savers
  <2> QED
    BY <1>0, <1>4, <1>e, <2>1, <2>2, ConsumerKept DEF SaverCrash
<1>5. ASSUME NEW m \in Ids, Ripen(m)
      PROVE  ConsumerTypes' /\ HighestIndex' /\ Evolves /\ UNCHANGED producer
  <2>1. Evolves /\ Ids' = Ids
    BY <1>5, RipenFacts
  <2>2. LoopTypes'
    BY <1>5, <2>1, SaverSame DEF Ripen, consumer
  <2> QED
    BY <1>0, <1>5, <1>e, <2>1, <2>2, ConsumerKept DEF Ripen, consumer
<1>6. ASSUME NEW l \in Loops, LookUpIndex(l)
      PROVE  ConsumerTypes' /\ HighestIndex' /\ Evolves /\ UNCHANGED producer
  <2>1. Evolves /\ Ids' = Ids
    BY <1>6, Untouched DEF LookUpIndex
  <2>2. PICK n \in Nat : n = NextIndex
    BY NextIndexType
  <2>3. PICK r : r = [saver[l] EXCEPT !.pc = "append", !.index = n]
    OBVIOUS
  <2>4. r \in Savers /\ r.pc = "append" /\ r.msg = saver[l].msg
    BY <1>0, <2>3 DEF Savers
  <2>5. saver' = [saver EXCEPT ![l] = r]
    BY <1>0, <1>6, <2>2, <2>3 DEF LookUpIndex
  <2>6. saver[l].msg \in Ids /\ save[saver[l].msg].kind = "pending" /\ save' = save
    BY <1>0, <1>6 DEF LookUpIndex, At, Msg
  <2>7. LoopTypes'
    BY <2>1, <2>4, <2>5, <2>6, SaverSet
  <2> QED
    BY <1>0, <1>6, <1>e, <2>1, <2>7, ConsumerKept DEF LookUpIndex
<1>7. ASSUME NEW l \in Loops, AppendChunk(l)
      PROVE  ConsumerTypes' /\ HighestIndex' /\ Evolves /\ UNCHANGED producer
  <2>1. Evolves /\ Ids' = Ids
    BY <1>7, Untouched DEF AppendChunk
  <2>2. saver[l].pc = "append" /\ saver[l].msg \in Ids
    BY <1>0, <1>7 DEF AppendChunk, At
  <2>3. LoopTypes'
    BY <1>7, <2>1, <2>2, GoesFacts DEF AppendChunk
  <2>4. CASE UNCHANGED <<rows, count>>
    <3>1. given_up' \subseteq Ids'
      BY <1>0, <1>7, <2>1, <2>2 DEF AppendChunk, Msg
    <3> QED
      BY <1>0, <1>7, <1>e, <2>1, <2>3, <2>4, <3>1, ConsumerKept DEF AppendChunk
  <2>5. CASE ~UNCHANGED <<rows, count>>
    <3>1. PICK r \in Rows : r = [attempt |-> save[saver[l].msg].attempt, chunk |-> save[saver[l].msg].chunk,
                                 index |-> saver[l].index]
      BY <1>0, <2>2, SaveFacts DEF Entries, Savers, Rows
    <3>2. /\ rows' = Append(rows, r) /\ count' = count + 1 /\ UNCHANGED <<given_up, trouble>>
      BY <1>7, <2>5, <3>1 DEF AppendChunk, CountAfter, Msg
    <3>3. rows' \in Seq(Rows) /\ HighestIndex'
      BY <3>2, RowAdded
    <3>4. count' \in Nat /\ trouble' \in 0..MaxTrouble
      BY <3>2 DEF TypeOK, ConsumerTypes
    <3> QED
      BY <1>0, <1>7, <1>e, <2>1, <2>3, <3>2, <3>3, <3>4
         DEF AppendChunk, ConsumerTypes, LoopTypes, Evolves
  <2> QED
    BY <2>4, <2>5
<1>8. ASSUME NEW l \in Loops, SaveMarker(l)
      PROVE  ConsumerTypes' /\ HighestIndex' /\ Evolves /\ UNCHANGED producer
  <2>1. Evolves /\ Ids' = Ids
    BY <1>8, Untouched DEF SaveMarker
  <2>2. saver[l].pc = "process" /\ saver[l].msg \in Ids /\ save[saver[l].msg] \in Entries
    BY <1>0, <1>8, SaveFacts DEF SaveMarker, At
  <2>3. Goes(l, "ack") \/ Goes(l, "reject")
    BY <1>8 DEF SaveMarker
  <2>4. LoopTypes'
    BY <2>1, <2>2, <2>3, GoesFacts
  <2>5. /\ given_up' \subseteq Ids' /\ completed' \subseteq Attempts
        /\ status' \in {"wait_process", "completed", "failed"}
    BY <1>0, <1>8, <2>1, <2>2 DEF SaveMarker, Msg, Entries
  <2>6. (trouble' = trouble \/ Trouble) /\ UNCHANGED <<producer, save, last, todo, rows, count>>
    BY <1>8 DEF SaveMarker
  <2> QED
    BY <1>0, <1>e, <2>1, <2>4, <2>5, <2>6, ConsumerKept
<1>9. ASSUME NEW l \in Loops, Acknowledge(l)
      PROVE  ConsumerTypes' /\ HighestIndex' /\ Evolves /\ UNCHANGED producer
  <2>1. Evolves /\ Ids' = Ids
    BY <1>9, AckFacts
  <2>2. Frees(l) \/ Goes(l, "reject")
    BY <1>9 DEF Acknowledge
  <2>3. LoopTypes'
    BY <1>9, <2>1, <2>2, FreesFacts, GoesFacts DEF Acknowledge, At
  <2> QED
    BY <1>0, <1>9, <1>e, <2>1, <2>3, ConsumerKept DEF Acknowledge
<1>10. ASSUME NEW l \in Loops, Reject(l)
      PROVE  ConsumerTypes' /\ HighestIndex' /\ Evolves /\ UNCHANGED producer
  <2>1. Evolves /\ saver[l].msg \in Ids /\ (given_up' = given_up \/ given_up' = given_up \cup {saver[l].msg})
    BY <1>10, RejectFacts
  <2>2. Frees(l) /\ UNCHANGED <<producer, last, todo, rows, count, status, completed, trouble>>
    BY <1>10 DEF Reject
  <2>3. LoopTypes'
    BY <2>1, <2>2, FreesFacts
  <2>4. given_up' \subseteq Ids'
    BY <1>e, <2>1 DEF Evolves
  <2> QED
    BY <1>0, <1>e, <2>1, <2>2, <2>3, <2>4, ConsumerKept
<1> QED
  BY <1>1, <1>2, <1>3, <1>4, <1>5, <1>6, <1>7, <1>8, <1>9, <1>10 DEF ConsumerStep, SaveStep

--------------------------------------------------------------------------------
(* What is on the stream of an attempt *)

\* Batches are counted: there are finitely many.
LEMMA Counted ==
    ASSUME TypeOK, NEW a \in Attempts
    PROVE  IsFiniteSet(BatchIds(a)) /\ Written(a) \in Nat
<1>1. IsFiniteSet(1..Len(save))
  <2>1. 1 \in Int /\ Len(save) \in Int
    BY SaveFacts
  <2> QED
    BY <2>1, FS_Interval
<1>2. BatchIds(a) \in SUBSET (1..Len(save))
  BY DEF BatchIds, Ids
<1>3. IsFiniteSet(BatchIds(a))
  BY <1>1, <1>2, FS_Subset
<1> QED
  BY <1>3, FS_CardinalityType DEF Written

\* Copies, and what other attempts write, do not count.
LEMMA OthersWrite ==
    ASSUME TypeOK, NEW a \in Attempts, Evolves,
           \A m \in Ids' \ Ids : save'[m].attempt # a \/ save'[m].retry # 0
    PROVE  /\ BatchIds(a)' = BatchIds(a) /\ MarkerIds(a)' = MarkerIds(a)
           /\ Written(a)' = Written(a)
           /\ Numbered(a) => Numbered(a)'
           /\ Unmarked(a) => Unmarked(a)'
           /\ \A kinds : MarkedBy(a, kinds) => MarkedBy(a, kinds)'
<1>1. Ids \subseteq Ids' /\ \A m \in Ids : Same(save'[m], save[m])
  BY DEF Evolves
<1>a. \A m \in Ids : /\ save'[m].attempt = save[m].attempt /\ save'[m].retry = save[m].retry
                     /\ save'[m].kind = save[m].kind
  BY <1>1 DEF Same
<1>2. BatchIds(a)' = BatchIds(a)
  BY <1>1, <1>a DEF BatchIds
<1>3. MarkerIds(a)' = MarkerIds(a)
  BY <1>1, <1>a DEF MarkerIds
<1>4. Written(a)' = Written(a)
  BY <1>2 DEF Written
<1>5. ASSUME Numbered(a) PROVE Numbered(a)'
  <2>1. \A m \in BatchIds(a) : save'[m].chunk = save[m].chunk
    BY <1>1 DEF BatchIds, Same
  <2>2. \A m \in BatchIds(a) : save'[m].chunk = Cardinality({k \in BatchIds(a) : k < m})
    BY <1>5, <2>1 DEF Numbered
  <2>3. \A n \in 0..Batches : n < Written(a) => \E m \in BatchIds(a) : save'[m].chunk = n
    BY <1>5, <2>1 DEF Numbered
  <2> QED
    BY <1>2, <1>4, <2>2, <2>3 DEF Numbered
<1>6. Unmarked(a) => Unmarked(a)'
  BY <1>3 DEF Unmarked
<1>7. ASSUME NEW kinds, MarkedBy(a, kinds) PROVE MarkedBy(a, kinds)'
  <2>1. \A m \in MarkerIds(a) : save'[m].kind = save[m].kind
    BY <1>1 DEF MarkerIds, Same
  <2> QED
    BY <1>2, <1>3, <1>7, <2>1 DEF MarkedBy
<1> QED
  BY <1>2, <1>3, <1>4, <1>5, <1>6, <1>7

\* The next batch is numbered after those before it.
LEMMA BatchWritten ==
    ASSUME TypeOK, NEW a \in Attempts, Numbered(a), Unmarked(a), NEW n \in Nat, n = Written(a),
           Entry(a, "pending", n) \in Entries, save' = Append(save, Entry(a, "pending", n))
    PROVE  Numbered(a)' /\ Unmarked(a)' /\ Written(a)' = n + 1
<1>1. PICK e \in Entries : e = Entry(a, "pending", n)
  OBVIOUS
<1>2. e.attempt = a /\ e.kind = "pending" /\ e.chunk = n /\ e.retry = 0
  BY <1>1 DEF Entry
<1>3. PICK i \in Nat : /\ Ids' = Ids \cup {i} /\ save'[i] = e /\ i \notin Ids /\ \A k \in Ids : k < i
  BY <1>1, Appended
<1>4. \A m \in Ids : save'[m] = save[m] /\ m \in Nat
  BY <1>1, Appended, SaveFacts
<1>5. BatchIds(a)' = BatchIds(a) \cup {i}
  BY <1>2, <1>3, <1>4 DEF BatchIds
<1>6. MarkerIds(a)' = MarkerIds(a)
  BY <1>2, <1>3, <1>4 DEF MarkerIds
<1>7. i \notin BatchIds(a) /\ \A m \in BatchIds(a) : m \in Nat /\ m < i /\ save'[m] = save[m]
  BY <1>3, <1>4 DEF BatchIds
<1>8. Written(a)' = n + 1
  <2>1. Cardinality(BatchIds(a) \cup {i}) = Cardinality(BatchIds(a)) + 1
    BY <1>7, Counted, FS_AddElement
  <2> QED
    BY <1>5, <2>1 DEF Written
<1>9. ASSUME NEW m \in BatchIds(a)'
      PROVE  save'[m].chunk = Cardinality({k \in BatchIds(a)' : k < m})
  <2>1. CASE m = i
    <3>1. {k \in BatchIds(a)' : k < m} = BatchIds(a)
      BY <1>5, <1>7, <2>1
    <3> QED
      BY <1>2, <1>3, <2>1, <3>1 DEF Written
  <2>2. CASE m # i
    <3>1. m \in BatchIds(a)
      BY <1>5, <2>2
    <3>2. {k \in BatchIds(a)' : k < m} = {k \in BatchIds(a) : k < m}
      BY <1>5, <1>7, <3>1
    <3> QED
      BY <1>7, <3>1, <3>2 DEF Numbered
  <2> QED
    BY <2>1, <2>2
<1>10. ASSUME NEW k \in 0..Batches, k < n + 1
       PROVE  \E m \in BatchIds(a)' : save'[m].chunk = k
  <2>1. CASE k = n
    BY <1>2, <1>3, <1>5, <2>1
  <2>2. CASE k # n
    <3>1. k < Written(a)
      BY <1>10, <2>2
    <3>2. PICK m \in BatchIds(a) : save[m].chunk = k
      BY <3>1 DEF Numbered
    <3> QED
      BY <1>5, <1>7, <3>2
  <2> QED
    BY <2>1, <2>2
<1> QED
  BY <1>6, <1>8, <1>9, <1>10 DEF Numbered, Unmarked

\* A marker comes after the batches, and there is no other.
LEMMA MarkerWritten ==
    ASSUME TypeOK, NEW a \in Attempts, Numbered(a), Unmarked(a), NEW n \in Nat,
           NEW kind \in {"completed", "failed"},
           Entry(a, kind, n) \in Entries, save' = Append(save, Entry(a, kind, n))
    PROVE  Numbered(a)' /\ MarkedBy(a, {kind})' /\ Written(a)' = Written(a)
<1>1. PICK e \in Entries : e = Entry(a, kind, n)
  OBVIOUS
<1>2. e.attempt = a /\ e.kind = kind /\ e.kind # "pending" /\ e.retry = 0
  BY <1>1 DEF Entry
<1>3. PICK i \in Nat : /\ Ids' = Ids \cup {i} /\ save'[i] = e /\ i \notin Ids /\ \A k \in Ids : k < i
  BY <1>1, Appended
<1>4. \A m \in Ids : save'[m] = save[m]
  BY <1>1, Appended
<1>5. BatchIds(a)' = BatchIds(a)
  BY <1>2, <1>3, <1>4 DEF BatchIds
<1>6. MarkerIds(a)' = {i}
  <2>1. \A m \in Ids : ~(save[m].attempt = a /\ save[m].retry = 0 /\ save[m].kind # "pending")
    BY DEF MarkerIds, Unmarked
  <2>2. MarkerIds(a)' = {m \in Ids \cup {i} : save'[m].attempt = a /\ save'[m].retry = 0 /\ save'[m].kind # "pending"}
    BY <1>3 DEF MarkerIds
  <2>3. save'[i].attempt = a /\ save'[i].retry = 0 /\ save'[i].kind # "pending"
    BY <1>2, <1>3
  <2>4. \A m \in Ids : ~(save'[m].attempt = a /\ save'[m].retry = 0 /\ save'[m].kind # "pending")
    BY <1>4, <2>1
  <2> QED
    BY <2>2, <2>3, <2>4
<1>7. \A m \in BatchIds(a) : m < i /\ save'[m] = save[m]
  BY <1>3, <1>4 DEF BatchIds
<1>8. Written(a)' = Written(a)
  BY <1>5 DEF Written
<1>9. Numbered(a)'
  BY <1>5, <1>7, <1>8 DEF Numbered
<1>10. MarkedBy(a, {kind})'
  <2>1. \A m, k \in MarkerIds(a)' : m = k
    BY <1>6
  <2>2. \A m \in MarkerIds(a)' : save'[m].kind \in {kind} /\ \A k \in BatchIds(a)' : k < m
    BY <1>2, <1>3, <1>5, <1>6, <1>7
  <2> QED
    BY <2>1, <2>2 DEF MarkedBy
<1> QED
  BY <1>8, <1>9, <1>10

--------------------------------------------------------------------------------
(* The handshake is kept *)

\* By whatever others do.
LEMMA OthersKeep ==
    ASSUME TypeOK, NEW a \in Attempts, Handshake(a), Evolves,
           \A m \in Ids' \ Ids : save'[m].attempt # a \/ save'[m].retry # 0,
           thread'[a] = thread[a], slot'[a] = slot[a], future'[a] = future[a],
           coro'[a] = coro[a], stopped'[a] = stopped[a]
    PROVE  Handshake(a)'
<1>1. /\ Written(a)' = Written(a) /\ Numbered(a)' /\ (Unmarked(a) => Unmarked(a)')
      /\ \A kinds : MarkedBy(a, kinds) => MarkedBy(a, kinds)'
  BY OthersWrite DEF Handshake
<1>2. /\ MarkedBy(a, {"completed"}) => MarkedBy(a, {"completed"})'
      /\ MarkedBy(a, {"failed"}) => MarkedBy(a, {"failed"})'
  BY <1>1
<1>3. (Ready(a) => Ready(a)') /\ (GaveUp(a) => GaveUp(a)')
  BY DEF Ready, GaveUp
<1>4. Working(a) => Working(a)'
  BY <1>1, <1>3 DEF Working
<1>5. Asked(a) => Asked(a)'
  BY <1>1, <1>2, <1>3 DEF Asked
<1>6. Ended(a) => Ended(a)'
  BY <1>1, <1>2, <1>3 DEF Ended
<1> QED
  BY <1>1, <1>3, <1>4, <1>5, <1>6 DEF Handshake

\* A step of the attempt that writes nothing.
LEMMA WritesNothing ==
    ASSUME TypeOK, NEW a \in Attempts, Handshake(a), UNCHANGED save
    PROVE  /\ Written(a)' = Written(a) /\ Written(a) \in Nat /\ Numbered(a)'
           /\ Unmarked(a) => Unmarked(a)'
           /\ MarkedBy(a, {"completed"}) => MarkedBy(a, {"completed"})'
           /\ MarkedBy(a, {"failed"}) => MarkedBy(a, {"failed"})'
<1>1. Evolves /\ Ids' = Ids
  BY Untouched
<1>2. /\ Written(a)' = Written(a) /\ Numbered(a)' /\ (Unmarked(a) => Unmarked(a)')
      /\ \A kinds : MarkedBy(a, kinds) => MarkedBy(a, kinds)'
  BY <1>1, OthersWrite DEF Handshake
<1> QED
  BY <1>2, Counted

\* What the thread and the coroutine do to it.
LEMMA OwnStep ==
    ASSUME TypeOK, NEW a \in Attempts, Handshake(a), AttemptStep(a)
    PROVE  Handshake(a)'
<1>0. /\ thread \in [Attempts -> Threads] /\ coro \in [Attempts -> Coros]
      /\ thread[a].sent \in Nat /\ thread[a].msg \in Words \cup {"none"} /\ coro[a].chunk \in Nat
      /\ slot \in [Attempts -> Words \cup {"empty"}] /\ Batches \in Nat
      /\ future \in [Attempts -> {"none", "waiting", "set", "failed"}]
      /\ stopped \in [Attempts -> BOOLEAN]
      /\ thread[a].pc \in {"none", "decode", "put", "wait", "ended"}
      /\ coro[a].pc \in {"none", "get", "enqueue", "join", "fail", "over"}
      /\ coro[a].got \in Words \cup {"none"}
  BY LimitsAssumption DEF TypeOK, ProducerTypes, Threads, Coros
<1>1. CASE StartAttempt(a)
  <2>1. /\ thread'[a].pc = "decode" /\ thread'[a].sent = thread[a].sent
        /\ coro'[a].pc = "get" /\ coro'[a].chunk = coro[a].chunk
    BY <1>1, Began DEF StartAttempt
  <2>2. UNCHANGED <<slot, future, stopped, save>> /\ thread[a].pc = "none"
    BY <1>1 DEF StartAttempt
  <2>3. Working(a)' /\ Numbered(a)' /\ ~stopped'[a]
    BY <1>0, <2>1, <2>2, WritesNothing DEF Handshake, Working, Ready, GaveUp
  <2> QED
    BY <2>1, <2>3 DEF Handshake
<1>2. CASE DownloadFails(a)
  <2>1. /\ thread'[a].pc = "ended" /\ thread'[a].sent = thread[a].sent /\ coro'[a].pc = "over"
    BY <1>2, Began DEF DownloadFails
  <2>2. UNCHANGED <<slot, future, stopped, save>> /\ thread[a].pc = "none"
    BY <1>2 DEF DownloadFails
  <2>3. Ended(a)' /\ Numbered(a)' /\ GaveUp(a)'
    BY <1>0, <2>1, <2>2, WritesNothing DEF Handshake, Ended, GaveUp
  <2> QED
    BY <2>1, <2>3 DEF Handshake
<1>3. CASE Decode(a)
  <2>0. /\ UNCHANGED <<slot, future, coro, stopped, save>> /\ thread[a].pc = "decode" /\ Working(a)
        /\ (GaveUp(a) => GaveUp(a)') /\ (Ready(a) => Ready(a)')
    BY <1>3 DEF Decode, Handshake, GaveUp, Ready
  <2>1. CASE stopped[a] /\ Ends(a)
    <3>1. thread'[a].pc = "ended" /\ thread'[a].sent = thread[a].sent
      BY <2>1, EndsFacts
    <3>2. GaveUp(a)' /\ stopped'[a]
      BY <2>0, <2>1 DEF Handshake
    <3>3. Ended(a)' /\ Numbered(a)'
      BY <1>0, <2>0, <3>1, <3>2, WritesNothing DEF Working, Ended
    <3> QED
      BY <3>1, <3>2, <3>3 DEF Handshake
  <2>2. ASSUME NEW w \in Words, Publishes(a, w),
               w = "batch" => thread[a].sent < Batches, w = "done" => thread[a].sent >= Batches
        PROVE  Handshake(a)'
    <3>1. thread'[a].pc = "put" /\ thread'[a].sent = thread[a].sent /\ thread'[a].msg = w
      BY <2>2, PublishesFacts
    <3>2. thread[a].sent <= Batches
      BY <2>0 DEF Working
    <3>3. Working(a)' /\ Numbered(a)' /\ (stopped'[a] => GaveUp(a)')
      BY <1>0, <2>0, <2>2, <3>1, <3>2, WritesNothing DEF Handshake, Working
    <3> QED
      BY <3>1, <3>3 DEF Handshake
  <2> QED
    BY <1>0, <1>3, <2>1, <2>2 DEF Decode, Words
<1>4. CASE Put(a)
  <2>0. /\ UNCHANGED <<coro, stopped, save>> /\ thread[a].pc = "put" /\ Working(a)
        /\ slot'[a] = thread[a].msg /\ thread[a].msg \in Words
        /\ (GaveUp(a) => GaveUp(a)') /\ (Ready(a) => Ready(a)')
    BY <1>0, <1>4 DEF Put, Handshake, GaveUp, Ready, TypeOK, ProducerTypes
  <2>1. CASE thread[a].msg = "error"
    <3>1. thread'[a].pc = "ended" /\ thread'[a].sent = thread[a].sent /\ UNCHANGED future
      BY <1>4, <2>1, EndsFacts DEF Put
    <3>2. Ended(a)' /\ Numbered(a)'
      BY <1>0, <2>0, <2>1, <3>1, WritesNothing DEF Working, Ended, Ready, GaveUp
    <3> QED
      BY <2>0, <3>1, <3>2 DEF Handshake
  <2>2. CASE thread[a].msg # "error"
    <3>1. /\ thread' = [thread EXCEPT ![a].pc = "wait"] /\ future' = [future EXCEPT ![a] = "waiting"]
      BY <1>4, <2>2 DEF Put, Awaited
    <3>2. /\ thread'[a].pc = "wait" /\ thread'[a].sent = thread[a].sent /\ thread'[a].msg = thread[a].msg
          /\ future'[a] = "waiting"
      BY <1>0, <3>1 DEF Threads
    <3>3. thread[a].msg \in {"batch", "done"}
      BY <2>0, <2>2 DEF Words
    <3>4. Asked(a)' /\ Numbered(a)'
      BY <1>0, <2>0, <3>2, <3>3, WritesNothing DEF Working, Asked, Ready
    <3> QED
      BY <2>0, <3>2, <3>4 DEF Handshake
  <2> QED
    BY <2>1, <2>2
<1>5. CASE Delivered(a)
  <2>0. /\ UNCHANGED <<slot, coro, stopped, save>> /\ thread[a].pc = "wait" /\ Asked(a)
        /\ future'[a] = "none" /\ future[a] \in {"set", "failed"}
        /\ (GaveUp(a) => GaveUp(a)') /\ (Ready(a) => Ready(a)')
    BY <1>0, <1>5 DEF Delivered, Handshake, GaveUp, Ready
  <2>1. CASE future[a] = "failed" \/ thread[a].msg = "done"
    <3>1. thread'[a].pc = "ended" /\ thread'[a].sent = thread[a].sent
      BY <1>5, <2>1, EndsFacts DEF Delivered
    <3>2. Ended(a)' /\ Numbered(a)'
      BY <1>0, <2>0, <2>1, <3>1, WritesNothing DEF Asked, Ended, GaveUp
    <3> QED
      BY <2>0, <3>1, <3>2 DEF Handshake
  <2>2. CASE future[a] = "set" /\ thread[a].msg # "done"
    <3>1. PICK n \in Nat : n = thread[a].sent + 1
      BY <1>0
    <3>2. Turns(a, "decode", n, "none")
      BY <1>0, <1>5, <2>2, <3>1 DEF Delivered, Threads, Turns
    <3>3. thread'[a].pc = "decode" /\ thread'[a].sent = thread[a].sent + 1
      BY <3>1, <3>2, ThreadBecomes
    <3>4. Working(a)' /\ Numbered(a)'
      BY <1>0, <2>0, <2>2, <3>3, WritesNothing DEF Asked, Working, Ready
    <3> QED
      BY <2>0, <3>3, <3>4 DEF Handshake
  <2> QED
    BY <2>0, <2>1, <2>2
<1>6. CASE SeesStopped(a)
  <2>0. /\ UNCHANGED <<slot, coro, stopped, save, future>> /\ stopped[a] /\ GaveUp(a) /\ GaveUp(a)'
        /\ thread[a].pc = "put" \/ (thread[a].pc = "wait" /\ future[a] = "waiting")
    BY <1>6 DEF SeesStopped, Polls, Handshake, GaveUp
  <2>1. thread'[a].pc = "ended" /\ thread'[a].sent = thread[a].sent
    BY <1>6, EndsFacts DEF SeesStopped
  <2>2. Written(a) = thread[a].sent /\ Unmarked(a)
    BY <1>0, <2>0 DEF Handshake, Working, Asked
  <2>3. Ended(a)' /\ Numbered(a)'
    BY <1>0, <2>0, <2>1, <2>2, WritesNothing DEF Ended
  <2> QED
    BY <2>0, <2>1, <2>3 DEF Handshake
<1>7. CASE Get(a)
  <2>0. /\ UNCHANGED <<thread, future, stopped, save>> /\ coro[a].pc = "get" /\ slot[a] # "empty"
        /\ slot'[a] = "empty" /\ ~stopped[a]
    BY <1>0, <1>7 DEF Get, Handshake, GaveUp
  <2>1. coro'[a].pc = "enqueue" /\ coro'[a].got = slot[a] /\ coro'[a].chunk = coro[a].chunk
    BY <1>7, GetFacts
  <2>2. CASE thread[a].pc = "wait"
    <3>1. Asked(a)' /\ Numbered(a)'
      BY <1>0, <2>0, <2>1, <2>2, WritesNothing DEF Handshake, Asked, Ready, GaveUp
    <3> QED
      BY <2>0, <2>2, <3>1 DEF Handshake
  <2>3. CASE thread[a].pc = "ended"
    <3>1. Ended(a)' /\ Numbered(a)'
      BY <1>0, <2>0, <2>1, <2>3, WritesNothing DEF Handshake, Ended, GaveUp
    <3> QED
      BY <2>0, <2>3, <3>1 DEF Handshake
  <2> QED
    BY <1>0, <2>0, <2>2, <2>3 DEF Handshake, Working
<1>8. CASE Enqueue(a)
  <2>0. /\ UNCHANGED <<thread, slot>> /\ coro[a].pc = "enqueue" /\ ~stopped[a]
        /\ Enqueued(a, Kind(coro[a].got), coro[a].chunk) /\ Numbered(a)
        /\ Entry(a, Kind(coro[a].got), coro[a].chunk) \in Entries
    <3>1. coro[a].got \in Words
      BY <1>0, <1>8 DEF TypeOK, ProducerTypes, Enqueue
    <3>2. Kind(coro[a].got) \in KindsOfEntry
      BY <3>1, KindFacts
    <3> QED
      BY <1>0, <1>8, <3>2 DEF Enqueue, Handshake, GaveUp, Entry, Entries
  <2>1. CASE thread[a].pc = "wait" /\ coro[a].got = "batch"
    <3>1. /\ Written(a) = thread[a].sent /\ Unmarked(a) /\ thread[a].msg = "batch" /\ slot[a] = "empty"
          /\ coro[a].chunk = thread[a].sent /\ thread[a].sent < Batches
      BY <2>0, <2>1 DEF Handshake, Asked, Ready, GaveUp
    <3>2. /\ coro'[a].pc = "get" /\ coro'[a].chunk = coro[a].chunk + 1
          /\ future'[a] = "set" /\ stopped' = stopped
      BY <1>0, <1>8, <2>1, EnqueueFacts DEF Enqueue, Answer
    <3>3. Kind(coro[a].got) = "pending"
      BY <2>1 DEF Kind
    <3>4. Numbered(a)' /\ Unmarked(a)' /\ Written(a)' = coro[a].chunk + 1
      BY <1>0, <2>0, <3>1, <3>3, BatchWritten DEF Enqueued
    <3>5. Asked(a)'
      BY <1>0, <2>0, <2>1, <3>1, <3>2, <3>4 DEF Asked, Ready
    <3> QED
      BY <2>0, <2>1, <3>2, <3>4, <3>5 DEF Handshake
  <2>2. CASE thread[a].pc = "wait" /\ coro[a].got = "done"
    <3>1. /\ Written(a) = thread[a].sent /\ Unmarked(a) /\ thread[a].msg = "done" /\ slot[a] = "empty"
          /\ thread[a].sent = Batches
      BY <2>0, <2>2 DEF Handshake, Asked, Ready, GaveUp
    <3>2. /\ coro'[a].pc = "join" /\ future'[a] = "set" /\ stopped' = stopped
      BY <1>0, <1>8, <2>2, EnqueueFacts DEF Enqueue, Answer
    <3>3. Kind(coro[a].got) = "completed"
      BY <2>2 DEF Kind
    <3>4. Numbered(a)' /\ MarkedBy(a, {"completed"})' /\ Written(a)' = Written(a)
      BY <1>0, <2>0, <3>1, <3>3, MarkerWritten DEF Enqueued
    <3>5. Asked(a)'
      BY <1>0, <2>0, <2>2, <3>1, <3>2, <3>4 DEF Asked
    <3> QED
      BY <2>0, <2>2, <3>2, <3>4, <3>5 DEF Handshake
  <2>3. CASE thread[a].pc = "ended"
    <3>1. Written(a) = thread[a].sent /\ Unmarked(a) /\ coro[a].got = "error"
      BY <2>0, <2>3 DEF Handshake, Ended, GaveUp
    <3>2. coro'[a].pc = "fail"
      BY <1>8, <3>1, EnqueueFacts
    <3>3. Kind(coro[a].got) = "failed"
      BY <3>1 DEF Kind
    <3>4. Numbered(a)' /\ MarkedBy(a, {"failed"})' /\ Written(a)' = Written(a)
      BY <1>0, <2>0, <3>1, <3>3, MarkerWritten DEF Enqueued
    <3>5. Ended(a)' /\ GaveUp(a)'
      BY <1>0, <2>0, <2>3, <3>1, <3>2, <3>4 DEF Ended, GaveUp
    <3> QED
      BY <2>0, <2>3, <3>4, <3>5 DEF Handshake
  <2> QED
    BY <1>0, <2>0, <2>1, <2>2, <2>3 DEF Handshake, Working, Asked, Ready, GaveUp
<1>9. CASE Join(a)
  <2>0. /\ UNCHANGED <<thread, slot, future, stopped, save>> /\ thread[a].pc = "ended"
        /\ coro[a].pc \in {"join", "fail"}
    BY <1>9 DEF Join
  <2>1. coro'[a].pc = "over"
    BY <1>0, <1>9 DEF Join, Coros
  <2>2. Ended(a)' /\ Numbered(a)' /\ GaveUp(a)'
    BY <1>0, <2>0, <2>1, WritesNothing DEF Handshake, Ended, GaveUp
  <2> QED
    BY <2>0, <2>2 DEF Handshake
<1>10. CASE EnqueueFails(a)
  <2>0. /\ UNCHANGED <<thread, slot>> /\ coro[a].pc = "enqueue" /\ Numbered(a)
        /\ Entry(a, Kind(coro[a].got), coro[a].chunk) \in Entries
        /\ Enqueued(a, Kind(coro[a].got), coro[a].chunk) \/ UNCHANGED save
    <3>1. coro[a].got \in Words
      BY <1>0, <1>10 DEF TypeOK, ProducerTypes, EnqueueFails
    <3>2. Kind(coro[a].got) \in KindsOfEntry
      BY <3>1, KindFacts
    <3> QED
      BY <1>0, <1>10, <3>2 DEF EnqueueFails, Handshake, Entry, Entries
  <2>a. coro'[a].pc = "fail" /\ GaveUp(a)'
    BY <1>0, <1>10 DEF EnqueueFails, Coros, GaveUp
  <2>b. coro[a].got # "error" => future'[a] = "failed"
    BY <1>0, <1>10 DEF EnqueueFails, Answer
  <2>1. CASE thread[a].pc = "wait" /\ coro[a].got = "batch"
    <3>1. /\ Written(a) = thread[a].sent /\ Unmarked(a) /\ thread[a].msg = "batch" /\ slot[a] = "empty"
          /\ coro[a].chunk = thread[a].sent /\ thread[a].sent < Batches
      BY <2>0, <2>1 DEF Handshake, Asked, Ready, GaveUp
    <3>2. Kind(coro[a].got) = "pending"
      BY <2>1 DEF Kind
    <3>3. Numbered(a)' /\ Unmarked(a)' /\ Written(a)' \in {thread[a].sent, thread[a].sent + 1}
      BY <1>0, <2>0, <3>1, <3>2, BatchWritten, WritesNothing DEF Enqueued
    <3>4. Asked(a)'
      BY <1>0, <2>0, <2>1, <2>a, <2>b, <3>1, <3>3 DEF Asked
    <3> QED
      BY <2>0, <2>1, <2>a, <3>3, <3>4 DEF Handshake
  <2>2. CASE thread[a].pc = "wait" /\ coro[a].got = "done"
    <3>1. /\ Written(a) = thread[a].sent /\ Unmarked(a) /\ thread[a].msg = "done" /\ slot[a] = "empty"
          /\ thread[a].sent = Batches
      BY <2>0, <2>2 DEF Handshake, Asked, Ready, GaveUp
    <3>2. Kind(coro[a].got) = "completed"
      BY <2>2 DEF Kind
    <3>3. MarkerIds(a) = {} => MarkedBy(a, {"completed"})
      BY DEF MarkedBy
    <3>4. Numbered(a)' /\ MarkedBy(a, {"completed"})' /\ Written(a)' = Written(a)
      BY <1>0, <2>0, <3>1, <3>2, <3>3, MarkerWritten, WritesNothing DEF Enqueued, Unmarked
    <3>5. Asked(a)'
      BY <1>0, <2>0, <2>2, <2>a, <2>b, <3>1, <3>4 DEF Asked
    <3> QED
      BY <2>0, <2>2, <2>a, <3>4, <3>5 DEF Handshake
  <2>3. CASE thread[a].pc = "ended"
    <3>1. Written(a) = thread[a].sent /\ Unmarked(a) /\ coro[a].got = "error"
      BY <2>0, <2>3 DEF Handshake, Ended, GaveUp
    <3>2. Kind(coro[a].got) = "failed"
      BY <3>1 DEF Kind
    <3>3. MarkerIds(a) = {} => MarkedBy(a, {"failed"})
      BY DEF MarkedBy
    <3>4. Numbered(a)' /\ MarkedBy(a, {"failed"})' /\ Written(a)' = Written(a)
      BY <1>0, <2>0, <3>1, <3>2, <3>3, MarkerWritten, WritesNothing DEF Enqueued, Unmarked
    <3>5. Ended(a)'
      BY <1>0, <2>0, <2>3, <2>a, <3>1, <3>4 DEF Ended
    <3> QED
      BY <2>0, <2>3, <2>a, <3>4, <3>5 DEF Handshake
  <2> QED
    BY <1>0, <2>0, <2>1, <2>2, <2>3 DEF Handshake, Working, Asked, Ready, GaveUp
<1>11. CASE Cancel(a)
  <2>0. /\ UNCHANGED <<thread, slot, future, save>> /\ coro[a].pc \in {"get", "enqueue", "join", "fail"}
    BY <1>11 DEF Cancel
  <2>1. coro'[a].pc = "over" /\ GaveUp(a)' /\ Ready(a)'
    BY <1>0, <1>11 DEF Cancel, Coros, GaveUp, Ready
  <2>2. thread[a].pc # "none"
    BY <2>0 DEF Handshake
  <2>3. Numbered(a)' /\ (thread'[a].pc \in {"decode", "put"} => Working(a)')
    BY <1>0, <2>0, <2>1, WritesNothing DEF Handshake, Working
  <2>4. thread'[a].pc = "wait" => Asked(a)'
    BY <1>0, <2>0, <2>1, WritesNothing DEF Handshake, Asked, Ready, GaveUp
  <2>5. thread'[a].pc = "ended" => Ended(a)'
    BY <1>0, <2>0, <2>1, WritesNothing DEF Handshake, Ended, GaveUp
  <2> QED
    BY <2>0, <2>1, <2>2, <2>3, <2>4, <2>5 DEF Handshake
<1> QED
  BY <1>1, <1>2, <1>3, <1>4, <1>5, <1>6, <1>7, <1>8, <1>9, <1>10, <1>11
     DEF AttemptStep, ThreadStep, CoroStep

--------------------------------------------------------------------------------
(* No batch is lost *)

\* The steps of the save service add copies only.
LEMMA CopiesOnly ==
    ASSUME TypeOK, ConsumerStep
    PROVE  \A m \in Ids' \ Ids : /\ save'[m].retry # 0 /\ save'[m].kept /\ m > last'
                                 /\ \E k \in Ids : /\ save'[m].attempt = save[k].attempt
                                                   /\ save'[m].kind = save[k].kind
                                                   /\ save'[m].chunk = save[k].chunk
<1>1. CASE ReadTask
  BY <1>1, ReadFacts
<1>2. CASE ClaimOrphans
  BY <1>2, ClaimFacts
<1>3. CASE NextClaimed \/ SaverCrash
  BY <1>3, Untouched DEF NextClaimed, SaverCrash
<1>4. ASSUME NEW m \in Ids, Ripen(m) PROVE Ids' = Ids
  BY <1>4, RipenFacts
<1>5. ASSUME NEW l \in Loops, LookUpIndex(l) \/ AppendChunk(l) \/ SaveMarker(l) PROVE Ids' = Ids
  BY <1>5, Untouched DEF LookUpIndex, AppendChunk, SaveMarker
<1>6. ASSUME NEW l \in Loops, Acknowledge(l) PROVE Ids' = Ids
  BY <1>6, AckFacts
<1>7. ASSUME NEW l \in Loops, Reject(l), NEW m \in Ids' \ Ids
      PROVE  /\ save'[m].retry # 0 /\ save'[m].kept /\ m > last'
             /\ \E k \in Ids : /\ save'[m].attempt = save[k].attempt
                               /\ save'[m].kind = save[k].kind
                               /\ save'[m].chunk = save[k].chunk
  <2>1. saver[l].msg \in Ids /\ last' = last
    BY <1>7, RejectFacts DEF Reject
  <2>2. PICK n \in Nat : /\ Ids' = Ids \cup {n} /\ n > last
                         /\ save'[n].attempt = save[saver[l].msg].attempt
                         /\ save'[n].kind = save[saver[l].msg].kind
                         /\ save'[n].chunk = save[saver[l].msg].chunk
                         /\ save'[n].kept /\ save'[n].retry > 0
    BY <1>7, RejectFacts
  <2>3. m = n
    BY <2>2
  <2> QED
    BY <2>1, <2>2, <2>3
<1> QED
  BY <1>1, <1>2, <1>3, <1>4, <1>5, <1>6, <1>7 DEF ConsumerStep, SaveStep

\* A batch stays settled when what settles it does, and each that is taken off the stream
\* is settled otherwise.
LEMMA DeliveryKept ==
    ASSUME TypeOK, Delivery, Evolves, given_up \subseteq given_up',
           \A m \in Ids : Stored(m) => Stored(m)',
           \A k \in Ids : Held(k) /\ save[k].kind = "pending" => Settled(k)',
           \A m \in Ids' \ Ids : save'[m].kind = "pending" => Settled(m)',
           \A l \in Loops : saver'[l].pc = "ack" /\ save'[saver'[l].msg].kind = "pending" =>
              \/ saver[l].pc = "ack" /\ saver'[l].msg = saver[l].msg
              \/ \E m \in Ids' : saver'[l].msg = m /\ (Stored(m)' \/ m \in given_up')
    PROVE  Delivery'
<1>1. ASSUME NEW m \in Ids', save'[m].kind = "pending" PROVE Settled(m)'
  <2>1. CASE m \notin Ids
    BY <1>1, <2>1
  <2>2. CASE m \in Ids
    <3>1. Same(save'[m], save[m])
      BY <2>2 DEF Evolves
    <3>2. Settled(m)
      BY <1>1, <2>2, <3>1 DEF Delivery, Same
    <3>3. CASE Stored(m)
      BY <2>2, <3>3 DEF Settled
    <3>4. ASSUME NEW k \in Ids, save[k].kind = "pending", save[k].attempt = save[m].attempt,
                 save[k].chunk = save[m].chunk, Held(k) \/ k \in given_up
          PROVE  Settled(m)'
      <4>1. Same(save'[k], save[k]) /\ k \in Ids'
        BY DEF Evolves
      <4>2. /\ save'[k].kind = "pending" /\ save'[k].attempt = save'[m].attempt
            /\ save'[k].chunk = save'[m].chunk
        BY <3>1, <3>4, <4>1 DEF Same
      <4>3. CASE k \in given_up
        BY <4>1, <4>2, <4>3 DEF Settled
      <4>4. CASE Held(k)
        <5>1. Settled(k)'
          BY <3>4, <4>4
        <5> QED
          BY <4>2, <5>1 DEF Settled, Stored
      <4> QED
        BY <3>4, <4>3, <4>4
    <3> QED
      BY <3>2, <3>3, <3>4 DEF Settled
  <2> QED
    BY <2>1, <2>2
<1>2. ASSUME NEW l \in Loops, saver'[l].pc = "ack", save'[saver'[l].msg].kind = "pending"
      PROVE  \E m \in Ids' : saver'[l].msg = m /\ (Stored(m)' \/ m \in given_up')
  <2>1. CASE saver[l].pc = "ack" /\ saver'[l].msg = saver[l].msg
    <3>1. saver[l].msg \in Ids
      BY <2>1 DEF TypeOK, ConsumerTypes
    <3>2. save[saver[l].msg].kind = "pending"
      BY <1>2, <2>1, <3>1 DEF Evolves, Same
    <3>3. PICK m \in Ids : m = saver[l].msg
      BY <3>1
    <3>4. Stored(m) \/ m \in given_up
      BY <2>1, <3>2, <3>3 DEF Delivery
    <3>5. m \in Ids' /\ (Stored(m)' \/ m \in given_up')
      BY <3>4 DEF Evolves
    <3> QED
      BY <2>1, <3>3, <3>5
  <2> QED
    BY <1>2, <2>1
<1>3. ASSUME NEW l \in Loops, saver'[l].pc = "ack", save'[saver'[l].msg].kind = "pending"
      PROVE  \/ \E i \in DOMAIN rows' : /\ rows'[i].attempt = save'[saver'[l].msg].attempt
                                        /\ rows'[i].chunk = save'[saver'[l].msg].chunk
             \/ saver'[l].msg \in given_up'
  BY <1>2, <1>3 DEF Stored
<1> QED
  BY <1>1, <1>3 DEF Delivery, Stored

\* An attempt's step.
LEMMA DeliveryByAttempt ==
    ASSUME TypeOK, Delivery, NEW a \in Attempts, AttemptStep(a)
    PROVE  Delivery'
<1>1. Evolves /\ UNCHANGED consumer
  BY AttemptWrites
<1>2. \A m \in Ids : save'[m] = save[m]
  BY <1>1, AttemptWrites, Appended
<1>3. \A m \in Ids' \ Ids : save'[m].kept /\ m > last
  <2>1. CASE UNCHANGED save
    BY <2>1, Untouched
  <2>2. ASSUME NEW e \in Entries, e.kept, save' = Append(save, e)
        PROVE  \A m \in Ids' \ Ids : save'[m].kept /\ m > last
    BY <2>2, Appended
  <2>3. \A kind \in KindsOfEntry : Entry(a, kind, coro[a].chunk).kept
    BY DEF Entry
  <2> QED
    BY <2>1, <2>2, <2>3, AttemptWrites
<1>4. UNCHANGED <<last, rows, given_up, saver>>
  BY <1>1 DEF consumer
<1>5. \A m \in Ids : Stored(m) => Stored(m)'
  BY <1>2, <1>4 DEF Stored
<1>6. \A k \in Ids : k \in Ids' /\ (Held(k) => Held(k)') /\ save'[k].kind = save[k].kind
  BY <1>1, <1>2, <1>4 DEF Evolves, Held
<1>7. \A m \in Ids' \ Ids : Held(m)'
  BY <1>3, <1>4 DEF Held
<1>8. \A k \in Ids : Held(k) /\ save[k].kind = "pending" => Settled(k)'
  BY <1>6 DEF Settled
<1>9. \A m \in Ids' \ Ids : save'[m].kind = "pending" => Settled(m)'
  BY <1>7 DEF Settled
<1>10. \A l \in Loops : saver'[l].pc = "ack" => saver[l].pc = "ack" /\ saver'[l].msg = saver[l].msg
  BY <1>4
<1> QED
  BY <1>1, <1>4, <1>5, <1>8, <1>9, <1>10, DeliveryKept

\* A step of the save service that writes no row and takes no entry off the stream.
LEMMA DeliveryQuiet ==
    ASSUME TypeOK, Delivery, ConsumerStep, UNCHANGED rows, given_up \subseteq given_up',
           \A k \in Ids : Held(k) => Held(k)',
           \A l \in Loops : saver'[l].pc = "ack" /\ save'[saver'[l].msg].kind = "pending" =>
              saver[l].pc = "ack" /\ saver'[l].msg = saver[l].msg
    PROVE  Delivery'
<1>1. Evolves
  BY ConsumerStepTypes
<1>2. \A m \in Ids : m \in Ids' /\ Same(save'[m], save[m])
  BY <1>1 DEF Evolves
<1>3. \A m \in Ids : Stored(m) => Stored(m)'
  BY <1>2 DEF Stored, Same
<1>4. \A k \in Ids : Held(k) /\ save[k].kind = "pending" => Settled(k)'
  BY <1>2 DEF Settled, Same
<1>5. \A m \in Ids' \ Ids : Held(m)'
  BY CopiesOnly DEF Held
<1>6. \A m \in Ids' \ Ids : save'[m].kind = "pending" => Settled(m)'
  BY <1>5 DEF Settled
<1> QED
  BY <1>1, <1>3, <1>4, <1>6, DeliveryKept

LEMMA DeliveryByConsumer ==
    ASSUME TypeOK, Delivery, ConsumerStep
    PROVE  Delivery'
<1>0. /\ Evolves /\ saver \in [Loops -> Savers] /\ last \in Nat
      /\ \A l \in Loops : saver[l].pc # "idle" => saver[l].msg \in Ids
      /\ \A m \in Ids : save[m] \in Entries /\ m \in Nat
  BY ConsumerStepTypes, SaveFacts DEF TypeOK, ConsumerTypes
<1>e. \A m \in Ids : m \in Ids' /\ Same(save'[m], save[m])
  BY <1>0 DEF Evolves
<1>1. CASE ReadTask
  <2>1. last' = last + 1 /\ UNCHANGED <<rows, given_up>> /\ save[last + 1].retry \in Nat /\ last + 1 \in Ids'
    BY <1>0, <1>1, ReadFacts DEF ReadTask, Entries
  <2>2. \A k \in Ids : Held(k) => Held(k)'
    <3>1. \A k \in Ids : k # last + 1 => save'[k] = save[k]
      BY <1>1, ReadFacts
    <3>2. save'[last + 1].pending /\ save'[last + 1].kept = save[last + 1].kept
      BY <1>1, ReadFacts, Marks
    <3> QED
      BY <1>0, <2>1, <3>1, <3>2 DEF Held
  <2>3. saver'["consumer"].pc = "process" /\ \A k \in Loops \ {"consumer"} : saver'[k] = saver[k]
    BY <1>0, <1>1, <2>1, TakesFacts DEF ReadTask, Loops
  <2> QED
    BY <2>1, <2>2, <2>3, DeliveryQuiet
<1>2. CASE ClaimOrphans
  <2>1. \A k \in Ids : save'[k] = [save[k] EXCEPT !.ripe = FALSE]
    BY <1>2, ClaimFacts
  <2>2. \A k \in Ids : save'[k].kept = save[k].kept /\ save'[k].pending = save[k].pending
    BY <1>0, <2>1 DEF Entries
  <2>3. UNCHANGED <<last, rows, given_up, saver>>
    BY <1>2 DEF ClaimOrphans
  <2>4. \A k \in Ids : Held(k) => Held(k)'
    BY <2>2, <2>3 DEF Held
  <2> QED
    BY <2>3, <2>4, DeliveryQuiet
<1>3. CASE NextClaimed
  <2>1. UNCHANGED <<save, last, rows, given_up>>
    BY <1>3 DEF NextClaimed
  <2>2. PICK m \in todo : Takes("orphan", m, save[m].retry + 1)
    BY <1>3 DEF NextClaimed
  <2>3. m \in Ids' /\ save[m].retry + 1 \in Nat
    BY <1>0, <1>e DEF TypeOK, ConsumerTypes, Entries
  <2>4. saver'["orphan"].pc = "process" /\ \A k \in Loops \ {"orphan"} : saver'[k] = saver[k]
    BY <1>0, <2>2, <2>3, TakesFacts DEF Loops
  <2>5. \A k \in Ids : Held(k) => Held(k)'
    BY <2>1 DEF Held
  <2> QED
    BY <2>1, <2>4, <2>5, DeliveryQuiet
<1>4. CASE SaverCrash
  <2>1. UNCHANGED <<save, last, rows, given_up>> /\ \A l \in Loops : saver'[l].pc = "idle"
    BY <1>4 DEF SaverCrash
  <2>2. \A k \in Ids : Held(k) => Held(k)'
    BY <2>1 DEF Held
  <2> QED
    BY <2>1, <2>2, DeliveryQuiet
<1>5. ASSUME NEW m \in Ids, Ripen(m) PROVE Delivery'
  <2>1. UNCHANGED <<last, rows, given_up, saver>>
    BY <1>5 DEF Ripen, consumer
  <2>2. \A k \in Ids : save'[k].kept = save[k].kept /\ save'[k].pending = save[k].pending
    BY <1>0, <1>5, RipenFacts DEF Entries
  <2>3. \A k \in Ids : Held(k) => Held(k)'
    BY <2>1, <2>2 DEF Held
  <2> QED
    BY <2>1, <2>3, DeliveryQuiet
<1>6. ASSUME NEW l \in Loops, LookUpIndex(l) PROVE Delivery'
  <2>1. UNCHANGED <<save, last, rows, given_up>>
    BY <1>6 DEF LookUpIndex
  <2>2. saver'[l].pc = "append" /\ \A k \in Loops \ {l} : saver'[k] = saver[k]
    BY <1>0, <1>6 DEF LookUpIndex, Savers
  <2>3. \A k \in Ids : Held(k) => Held(k)'
    BY <2>1 DEF Held
  <2> QED
    BY <2>1, <2>2, <2>3, DeliveryQuiet
<1>7. ASSUME NEW l \in Loops, AppendChunk(l) PROVE Delivery'
  <2>1. /\ UNCHANGED <<save, last>> /\ given_up \subseteq given_up'
        /\ saver[l].pc = "append" /\ Goes(l, "ack")
    BY <1>7 DEF AppendChunk, At
  <2>2. /\ saver'[l].pc = "ack" /\ saver'[l].msg = saver[l].msg
        /\ \A k \in Loops \ {l} : saver'[k] = saver[k]
    BY <1>0, <2>1, GoesFacts
  <2>3. PICK m \in Ids : m = saver[l].msg
    BY <1>0, <2>1
  <2>4. (\A k \in Ids : Stored(k) => Stored(k)') /\ (Stored(m)' \/ m \in given_up')
    <3>1. CASE UNCHANGED rows /\ m \in given_up'
      BY <2>1, <3>1 DEF Stored
    <3>2. CASE ~(UNCHANGED rows /\ m \in given_up')
      <4>1. PICK r \in Rows : r = [attempt |-> save[m].attempt, chunk |-> save[m].chunk, index |-> saver[l].index]
        BY <1>0 DEF Entries, Savers, Rows
      <4>2. rows' = Append(rows, r)
        BY <1>7, <2>3, <3>2, <4>1 DEF AppendChunk, Msg
      <4>3. r.attempt = save[m].attempt /\ r.chunk = save[m].chunk
        BY <4>1
      <4>4. /\ \A i \in DOMAIN rows : i \in DOMAIN rows' /\ rows'[i] = rows[i]
            /\ \E i \in DOMAIN rows' : rows'[i] = r
        BY <4>2, RowAdded
      <4> QED
        BY <2>1, <4>3, <4>4 DEF Stored
    <3> QED
      BY <3>1, <3>2
  <2>5. \A k \in Ids : Held(k) /\ save[k].kind = "pending" => Settled(k)'
    BY <1>e, <2>1 DEF Settled, Held
  <2>6. Ids' = Ids
    BY <2>1 DEF Ids
  <2>7. ASSUME NEW k \in Loops, saver'[k].pc = "ack"
        PROVE  \/ saver[k].pc = "ack" /\ saver'[k].msg = saver[k].msg
               \/ \E i \in Ids' : saver'[k].msg = i /\ (Stored(i)' \/ i \in given_up')
    <3>1. CASE k = l
      BY <2>2, <2>3, <2>4, <2>6, <3>1
    <3>2. CASE k # l
      BY <2>2, <2>7, <3>2
    <3> QED
      BY <3>1, <3>2
  <2> QED
    BY <1>0, <2>1, <2>4, <2>5, <2>6, <2>7, DeliveryKept
<1>8. ASSUME NEW l \in Loops, SaveMarker(l) PROVE Delivery'
  <2>1. UNCHANGED <<save, last, rows>> /\ given_up \subseteq given_up'
    BY <1>8 DEF SaveMarker
  <2>2. /\ saver[l].pc = "process" /\ save[saver[l].msg].kind # "pending"
        /\ Goes(l, "ack") \/ Goes(l, "reject")
    BY <1>8 DEF SaveMarker, At, Msg
  <2>3. saver'[l].msg = saver[l].msg /\ \A k \in Loops \ {l} : saver'[k] = saver[k]
    BY <1>0, <2>2, GoesFacts
  <2>4. \A k \in Ids : Held(k) => Held(k)'
    BY <2>1 DEF Held
  <2> QED
    BY <2>1, <2>2, <2>3, <2>4, DeliveryQuiet
<1>9. ASSUME NEW l \in Loops, Acknowledge(l) PROVE Delivery'
  <2>1. UNCHANGED <<last, rows, given_up>> /\ saver[l].pc = "ack" /\ (Frees(l) \/ Goes(l, "reject"))
    BY <1>9 DEF Acknowledge, At
  <2>2. saver'[l].pc # "ack" /\ \A k \in Loops \ {l} : saver'[k] = saver[k]
    BY <1>0, <2>1, GoesFacts, FreesFacts
  <2>3. PICK m \in Ids : m = saver[l].msg
    BY <1>0, <2>1
  <2>4. \A k \in Ids \ {m} : save'[k] = save[k]
    BY <1>9, <2>3, AckFacts
  <2>5. save[m].kind = "pending" => Stored(m) \/ m \in given_up
    BY <2>1, <2>3 DEF Delivery
  <2>6. \A k \in Ids : Stored(k) => Stored(k)'
    BY <1>e, <2>1 DEF Stored, Same
  <2>7. Ids' = Ids
    BY <1>9, AckFacts
  <2>8. ASSUME NEW k \in Ids, Held(k), save[k].kind = "pending" PROVE Settled(k)'
    <3>1. Same(save'[k], save[k]) /\ k \in Ids'
      BY <1>e
    <3>2. CASE k = m
      BY <2>1, <2>5, <2>6, <2>8, <3>1, <3>2 DEF Settled, Same
    <3>3. CASE k # m
      BY <2>1, <2>4, <2>8, <3>1, <3>3 DEF Settled, Held
    <3> QED
      BY <3>2, <3>3
  <2> QED
    BY <1>0, <2>1, <2>2, <2>6, <2>7, <2>8, DeliveryKept
<1>10. ASSUME NEW l \in Loops, Reject(l) PROVE Delivery'
  <2>1. UNCHANGED <<last, rows>> /\ saver[l].pc = "reject" /\ Frees(l)
    BY <1>10 DEF Reject, At
  <2>2. saver'[l].pc # "ack" /\ \A k \in Loops \ {l} : saver'[k] = saver[k]
    BY <1>0, <2>1, FreesFacts
  <2>3. PICK m \in Ids : m = saver[l].msg
    BY <1>0, <2>1
  <2>4. \A k \in Ids \ {m} : save'[k] = save[k]
    BY <1>10, <2>3, RejectFacts
  <2>5. given_up \subseteq given_up'
    BY <1>10, RejectFacts
  <2>6. \A k \in Ids : Stored(k) => Stored(k)'
    BY <1>e, <2>1 DEF Stored, Same
  <2>7. \A n \in Ids' \ Ids : Held(n)'
    BY CopiesOnly DEF Held
  <2>8. \A n \in Ids' \ Ids : save'[n].kind = "pending" => Settled(n)'
    BY <2>7 DEF Settled
  <2>9. save[m].kind = "pending" => Settled(m)'
    <3>1. CASE m \in given_up'
      BY <1>e, <3>1 DEF Settled, Same
    <3>2. CASE m \notin given_up'
      <4>1. PICK n \in Nat : /\ Ids' = Ids \cup {n} /\ n > last
                             /\ save'[n].attempt = save[m].attempt
                             /\ save'[n].kind = save[m].kind
                             /\ save'[n].chunk = save[m].chunk
                             /\ save'[n].kept
        BY <1>10, <2>3, <3>2, RejectFacts
      <4>2. Held(n)' /\ n \in Ids'
        BY <2>1, <4>1 DEF Held
      <4>3. save'[m].attempt = save[m].attempt /\ save'[m].chunk = save[m].chunk
        BY <1>e DEF Same
      <4> QED
        BY <4>1, <4>2, <4>3 DEF Settled
    <3> QED
      BY <3>1, <3>2
  <2>10. ASSUME NEW k \in Ids, Held(k), save[k].kind = "pending" PROVE Settled(k)'
    <3>1. CASE k = m
      BY <2>9, <2>10, <3>1
    <3>2. CASE k # m
      BY <1>e, <2>1, <2>4, <2>10, <3>2 DEF Settled, Held
    <3> QED
      BY <3>1, <3>2
  <2> QED
    BY <1>0, <2>2, <2>5, <2>6, <2>8, <2>10, DeliveryKept
<1> QED
  BY <1>1, <1>2, <1>3, <1>4, <1>5, <1>6, <1>7, <1>8, <1>9, <1>10 DEF ConsumerStep, SaveStep

--------------------------------------------------------------------------------
(* The invariant *)

\* A step is an attempt's, or the save service's.
LEMMA StepOf ==
    ASSUME Next
    PROVE  (\E a \in Attempts : AttemptStep(a)) \/ ConsumerStep
  BY DEF Next, AttemptStep, ConsumerStep

\* Nothing has happened yet.
LEMMA InvInit ==
    ASSUME Init
    PROVE  Inv
<1>0. save = <<>> /\ rows = <<>> /\ Ids = {}
  BY DEF Init, Ids
<1>1. ProducerTypes
  BY DEF Init, ProducerTypes, Threads, Coros, Words
<1>2. ConsumerTypes
  <2>1. saver \in [Loops -> Savers] /\ \A l \in Loops : saver[l].pc = "idle"
    BY DEF Init, Savers
  <2>2. save \in Seq(Entries) /\ rows \in Seq(Rows) /\ Len(save) = 0
    BY <1>0, EmptySeq
  <2>3. 0 \in 0..MaxTrouble
    BY LimitsAssumption
  <2> QED
    BY <2>1, <2>2, <2>3 DEF Init, ConsumerTypes
<1>3. HighestIndex
  BY <1>0 DEF HighestIndex
<1>4. ASSUME NEW a \in Attempts PROVE Handshake(a)
  <2>1. BatchIds(a) = {} /\ MarkerIds(a) = {}
    BY <1>0 DEF BatchIds, MarkerIds
  <2>2. Written(a) = 0
    BY <2>1, FS_EmptySet DEF Written
  <2>3. Numbered(a) /\ Unmarked(a)
    BY <2>1, <2>2, LimitsAssumption DEF Numbered, Unmarked
  <2> QED
    BY <2>2, <2>3 DEF Init, Handshake
<1>5. Copied /\ Completion
  BY <1>0 DEF Init, Copied, Completion
<1>6. Delivery
  BY <1>0 DEF Init, Delivery
<1>7. CountIsRows
  BY <1>0, EmptySeq DEF Init, CountIsRows
<1> QED
  BY <1>1, <1>2, <1>3, <1>4, <1>5, <1>6, <1>7 DEF Inv, TypeOK

\* Every step keeps the types.
LEMMA TypeStep ==
    ASSUME TypeOK, [Next]_vars
    PROVE  TypeOK'
<1>1. ASSUME NEW a \in Attempts, AttemptStep(a) PROVE TypeOK'
  <2>1. ProducerTypes'
    BY <1>1, AttemptTypes
  <2>2. Evolves /\ UNCHANGED consumer /\ trouble' \in 0..MaxTrouble
    BY <1>1, AttemptWrites
  <2>3. UNCHANGED <<last, saver, todo, rows, count, status, completed, given_up>>
    BY <2>2 DEF consumer
  <2>4. LoopTypes'
    BY <2>2, <2>3, SaverSame
  <2>5. /\ last' \in 0..Len(save') /\ todo' \subseteq Ids' /\ given_up' \subseteq Ids'
        /\ save' \in Seq(Entries)
    BY <2>2, <2>3, SaveFacts DEF TypeOK, ConsumerTypes, Evolves
  <2>6. ConsumerTypes'
    BY <2>2, <2>3, <2>4, <2>5 DEF TypeOK, ConsumerTypes, LoopTypes
  <2>7. HighestIndex'
    BY <2>3 DEF TypeOK, HighestIndex, Indexes
  <2> QED
    BY <2>1, <2>6, <2>7 DEF TypeOK
<1>2. ASSUME ConsumerStep PROVE TypeOK'
  BY <1>2, ConsumerStepTypes DEF TypeOK, ProducerTypes, producer
<1>3. CASE UNCHANGED vars
  BY <1>3 DEF vars, TypeOK, ProducerTypes, ConsumerTypes, HighestIndex, Indexes, Ids
<1> QED
  BY <1>1, <1>2, <1>3, StepOf

\* An attempt's own step keeps its handshake; nothing else can disturb it.
LEMMA HandshakeStep ==
    ASSUME TypeOK, NEW b \in Attempts, Handshake(b), [Next]_vars
    PROVE  Handshake(b)'
<1>1. ASSUME NEW a \in Attempts, AttemptStep(a), a # b PROVE Handshake(b)'
  <2>1. Evolves /\ Only(a)
    BY <1>1, AttemptTypes, AttemptWrites
  <2>2. \A m \in Ids' \ Ids : save'[m].attempt # b
    <3>1. CASE UNCHANGED save
      BY <3>1, Untouched
    <3>2. ASSUME NEW e \in Entries, e.attempt = a, save' = Append(save, e)
          PROVE  \A m \in Ids' \ Ids : save'[m].attempt # b
      <4>1. PICK n \in Nat : Ids' = Ids \cup {n} /\ save'[n] = e
        BY <3>2, Appended
      <4> QED
        BY <1>1, <3>2, <4>1
    <3>3. \A kind \in KindsOfEntry : Entry(a, kind, coro[a].chunk).attempt = a
      BY DEF Entry
    <3> QED
      BY <1>1, <3>1, <3>2, <3>3, AttemptWrites
  <2>3. /\ thread'[b] = thread[b] /\ slot'[b] = slot[b] /\ future'[b] = future[b]
        /\ coro'[b] = coro[b] /\ stopped'[b] = stopped[b]
    BY <1>1, <2>1 DEF Only
  <2> QED
    BY <2>1, <2>2, <2>3, OthersKeep
<1>2. ASSUME ConsumerStep PROVE Handshake(b)'
  <2>1. Evolves /\ UNCHANGED producer
    BY <1>2, ConsumerStepTypes
  <2>2. \A m \in Ids' \ Ids : save'[m].retry # 0
    BY <1>2, CopiesOnly
  <2>3. /\ thread'[b] = thread[b] /\ slot'[b] = slot[b] /\ future'[b] = future[b]
        /\ coro'[b] = coro[b] /\ stopped'[b] = stopped[b]
    BY <2>1 DEF producer
  <2> QED
    BY <2>1, <2>2, <2>3, OthersKeep
<1>3. CASE UNCHANGED vars
  <2>1. /\ UNCHANGED save
        /\ thread'[b] = thread[b] /\ slot'[b] = slot[b] /\ future'[b] = future[b]
        /\ coro'[b] = coro[b] /\ stopped'[b] = stopped[b]
    BY <1>3 DEF vars
  <2>2. Evolves /\ Ids' = Ids
    BY <2>1, Untouched
  <2> QED
    BY <2>1, <2>2, OthersKeep
<1> QED
  BY <1>1, <1>2, <1>3, OwnStep, StepOf

\* What an attempt adds is an original, what the save service adds a copy of something.
LEMMA CopiedStep ==
    ASSUME TypeOK, Copied, [Next]_vars
    PROVE  Copied' /\ Evolves
<1> DEFINE Original(m, k) == /\ save[k].retry = 0 /\ save[k].attempt = save[m].attempt
                             /\ save[k].kind = save[m].kind /\ save[k].chunk = save[m].chunk
<1>1. ASSUME Evolves,
             \A m \in Ids' \ Ids :
                \/ save'[m].retry = 0
                \/ \E k \in Ids : /\ save'[m].attempt = save[k].attempt
                                  /\ save'[m].kind = save[k].kind
                                  /\ save'[m].chunk = save[k].chunk
      PROVE  Copied'
  <2>1. \A k \in Ids : k \in Ids' /\ Same(save'[k], save[k])
    BY <1>1 DEF Evolves
  <2>2. ASSUME NEW m \in Ids PROVE \E k \in Ids' : Original(m, k)'
    <3>1. PICK k \in Ids : Original(m, k)
      BY DEF Copied
    <3> QED
      BY <2>1, <3>1 DEF Same
  <2>3. ASSUME NEW m \in Ids' \ Ids PROVE \E k \in Ids' : Original(m, k)'
    <3>1. CASE save'[m].retry = 0
      BY <3>1
    <3>2. ASSUME NEW j \in Ids, save'[m].attempt = save[j].attempt, save'[m].kind = save[j].kind,
                 save'[m].chunk = save[j].chunk
          PROVE  \E k \in Ids' : Original(m, k)'
      <4>1. PICK k \in Ids : Original(j, k)
        BY DEF Copied
      <4> QED
        BY <2>1, <3>2, <4>1 DEF Same
    <3> QED
      BY <1>1, <3>1, <3>2
  <2> QED
    BY <2>2, <2>3 DEF Copied
<1>2. ASSUME NEW a \in Attempts, AttemptStep(a) PROVE Copied' /\ Evolves
  <2>1. \A m \in Ids' \ Ids : save'[m].retry = 0
    <3>1. CASE UNCHANGED save
      BY <3>1, Untouched
    <3>2. ASSUME NEW e \in Entries, e.retry = 0, save' = Append(save, e)
          PROVE  \A m \in Ids' \ Ids : save'[m].retry = 0
      <4>1. PICK n \in Nat : Ids' = Ids \cup {n} /\ save'[n] = e
        BY <3>2, Appended
      <4> QED
        BY <3>2, <4>1
    <3>3. \A kind \in KindsOfEntry : Entry(a, kind, coro[a].chunk).retry = 0
      BY DEF Entry
    <3> QED
      BY <1>2, <3>1, <3>2, <3>3, AttemptWrites
  <2>2. Evolves
    BY <1>2, AttemptWrites
  <2> QED
    BY <1>1, <2>1, <2>2
<1>3. ASSUME ConsumerStep PROVE Copied' /\ Evolves
  <2>1. Evolves
    BY <1>3, ConsumerStepTypes
  <2>2. \A m \in Ids' \ Ids : \E k \in Ids : /\ save'[m].attempt = save[k].attempt
                                             /\ save'[m].kind = save[k].kind
                                             /\ save'[m].chunk = save[k].chunk
    BY <1>3, CopiesOnly
  <2> QED
    BY <1>1, <2>1, <2>2
<1>4. CASE UNCHANGED vars
  <2>1. Evolves /\ Ids' = Ids
    BY <1>4, Untouched DEF vars
  <2> QED
    BY <1>1, <2>1
<1> QED
  BY <1>2, <1>3, <1>4, StepOf

\* An attempt's completed marker is on the stream when it is processed, and stays.
LEMMA CompletionStep ==
    ASSUME TypeOK, Completion, [Next]_vars, Evolves
    PROVE  Completion'
<1> DEFINE Marker(a) == \E m \in Ids : save[m].attempt = a /\ save[m].kind = "completed"
<1>1. \A a \in completed' : Marker(a)
  <2>1. CASE completed' = completed
    BY <2>1 DEF Completion
  <2>2. ASSUME NEW l \in Loops, SaveMarker(l) PROVE \A a \in completed' : Marker(a)
    <3>1. PICK m \in Ids : m = saver[l].msg
      BY <2>2 DEF SaveMarker, At, TypeOK, ConsumerTypes
    <3>2. completed' = completed \/ (completed' = completed \cup {save[m].attempt} /\ save[m].kind = "completed")
      BY <2>2, <3>1 DEF SaveMarker, Msg
    <3> QED
      BY <3>2 DEF Completion
  <2>3. completed' = completed \/ \E l \in Loops : SaveMarker(l)
    <3>1. ASSUME NEW a \in Attempts, AttemptStep(a) PROVE completed' = completed
      BY <3>1, AttemptWrites DEF consumer
    <3>2. ReadTask \/ ClaimOrphans \/ NextClaimed \/ SaverCrash => completed' = completed
      BY DEF ReadTask, ClaimOrphans, NextClaimed, SaverCrash
    <3>3. ASSUME NEW m \in Ids, Ripen(m) PROVE completed' = completed
      BY <3>3 DEF Ripen, consumer
    <3>4. ASSUME NEW l \in Loops, LookUpIndex(l) \/ AppendChunk(l) \/ Acknowledge(l) \/ Reject(l)
          PROVE  completed' = completed
      BY <3>4 DEF LookUpIndex, AppendChunk, Acknowledge, Reject
    <3>5. UNCHANGED vars => completed' = completed
      BY DEF vars
    <3> QED
      BY <3>1, <3>2, <3>3, <3>4, <3>5, StepOf DEF ConsumerStep, SaveStep
  <2> QED
    BY <2>1, <2>2, <2>3
<1>2. \A m \in Ids : m \in Ids' /\ Same(save'[m], save[m])
  BY DEF Evolves
<1> QED
  BY <1>1, <1>2 DEF Completion, Same

\* A row and the count are written by one step.
LEMMA CountStep ==
    ASSUME TypeOK, CountIsRows, [Next]_vars
    PROVE  CountIsRows'
<1>1. CASE UNCHANGED <<rows, count>>
  BY <1>1 DEF CountIsRows
<1>2. ASSUME NEW l \in Loops, AppendChunk(l) PROVE CountIsRows'
  <2>1. CASE UNCHANGED <<rows, count>>
    BY <2>1 DEF CountIsRows
  <2>2. CASE ~UNCHANGED <<rows, count>>
    <3>1. PICK m \in Ids : m = saver[l].msg
      BY <1>2 DEF AppendChunk, At, TypeOK, ConsumerTypes
    <3>2. PICK r \in Rows : r = [attempt |-> save[m].attempt, chunk |-> save[m].chunk, index |-> saver[l].index]
      BY SaveFacts DEF Entries, Savers, Rows, TypeOK, ConsumerTypes
    <3>3. rows' = Append(rows, r) /\ count' = count + 1
      BY <1>2, <2>2, <3>1, <3>2 DEF AppendChunk, Msg, CountAfter
    <3>4. Len(rows') = Len(rows) + 1
      BY <3>3, RowAdded
    <3> QED
      BY <3>3, <3>4 DEF CountIsRows
  <2> QED
    BY <2>1, <2>2
<1>3. UNCHANGED <<rows, count>> \/ \E l \in Loops : AppendChunk(l)
  <2>1. ASSUME NEW a \in Attempts, AttemptStep(a) PROVE UNCHANGED <<rows, count>>
    BY <2>1, AttemptWrites DEF consumer
  <2>2. ReadTask \/ ClaimOrphans \/ NextClaimed \/ SaverCrash => UNCHANGED <<rows, count>>
    BY DEF ReadTask, ClaimOrphans, NextClaimed, SaverCrash
  <2>3. ASSUME NEW m \in Ids, Ripen(m) PROVE UNCHANGED <<rows, count>>
    BY <2>3 DEF Ripen, consumer
  <2>4. ASSUME NEW l \in Loops, LookUpIndex(l) \/ SaveMarker(l) \/ Acknowledge(l) \/ Reject(l)
        PROVE  UNCHANGED <<rows, count>>
    BY <2>4 DEF LookUpIndex, SaveMarker, Acknowledge, Reject
  <2>5. UNCHANGED vars => UNCHANGED <<rows, count>>
    BY DEF vars
  <2> QED
    BY <2>1, <2>2, <2>3, <2>4, <2>5, StepOf DEF ConsumerStep, SaveStep
<1> QED
  BY <1>1, <1>2, <1>3

\* The whole invariant is kept by every step.
LEMMA InvStep ==
    ASSUME Inv, [Next]_vars
    PROVE  Inv'
<1>1. TypeOK'
  BY TypeStep DEF Inv
<1>2. \A a \in Attempts : Handshake(a)'
  BY HandshakeStep DEF Inv
<1>3. Copied' /\ Evolves
  BY CopiedStep DEF Inv
<1>4. Delivery'
  <2>1. CASE UNCHANGED vars
    BY <2>1 DEF vars, Inv, Delivery, Settled, Stored, Held, Ids
  <2> QED
    BY <2>1, DeliveryByAttempt, DeliveryByConsumer, StepOf DEF Inv
<1>5. Completion'
  BY <1>3, CompletionStep DEF Inv
<1>6. CountIsRows'
  BY CountStep DEF Inv
<1> QED
  BY <1>1, <1>2, <1>3, <1>4, <1>5, <1>6 DEF Inv

LEMMA Invariant == Spec => []Inv
  BY InvInit, InvStep, PTL DEF Spec

--------------------------------------------------------------------------------
(* Theorems *)

\* Thread, slot, future and coroutine of every attempt, the entries of the save stream, the
\* entries the two loops hold and the rows keep their types, and the query for the highest
\* chunk_index has an answer whenever a row exists.
THEOREM TypeCorrect == Spec => []TypeOK
  BY Invariant, PTL DEF Inv

\* What the handshake says of an attempt's entries, whatever its thread is doing.
LEMMA Accounted ==
    ASSUME Inv, NEW a \in Attempts
    PROVE  /\ Numbered(a) /\ Written(a) \in Nat /\ thread[a].sent \in Nat /\ Batches \in Nat
           /\ Written(a) \in {thread[a].sent, thread[a].sent + 1}
           /\ \/ Unmarked(a)
              \/ Written(a) = Batches /\ MarkedBy(a, {"completed"})
              \/ Written(a) = thread[a].sent /\ MarkedBy(a, {"failed"})
<1>1. /\ Handshake(a) /\ Written(a) \in Nat /\ thread[a].sent \in Nat /\ Batches \in Nat
      /\ thread[a].pc \in {"none", "decode", "put", "wait", "ended"}
  BY Counted, LimitsAssumption DEF Inv, TypeOK, ProducerTypes, Threads
<1>2. CASE thread[a].pc = "none"
  BY <1>1, <1>2 DEF Handshake
<1>3. CASE thread[a].pc \in {"decode", "put"}
  BY <1>1, <1>3 DEF Handshake, Working
<1>4. CASE thread[a].pc = "wait"
  BY <1>1, <1>4 DEF Handshake, Asked
<1>5. CASE thread[a].pc = "ended"
  BY <1>1, <1>5 DEF Handshake, Ended
<1> QED
  BY <1>1, <1>2, <1>3, <1>4, <1>5

\* One step at a time, thread and coroutine put an attempt's batches on the save stream each
\* once and in order, and one marker at most after them: _transcribe_and_stream_batches.
THEOREM BatchesInOrderAlways == Spec => []BatchesInOrder
<1>1. ASSUME Inv, NEW a \in Attempts
      PROVE  LET batches == {m \in Wrote(a) : save[m].kind = "pending"}
                 markers == Wrote(a) \ batches IN
             /\ Cardinality(batches) - thread[a].sent \in 0..1
             /\ \A m \in batches : save[m].chunk = Cardinality({k \in batches : k < m})
             /\ Cardinality(markers) <= 1
             /\ \A m \in markers :
                   /\ \A k \in batches : k < m
                   /\ save[m].kind = "completed" => Cardinality(batches) = Batches
                   /\ save[m].kind = "failed" => Cardinality(batches) = thread[a].sent
  <2> DEFINE batches == {m \in Wrote(a) : save[m].kind = "pending"}
             markers == Wrote(a) \ batches
  <2>1. batches = BatchIds(a) /\ markers = MarkerIds(a)
    BY DEF Wrote, BatchIds, MarkerIds
  <2>2. /\ Numbered(a) /\ Written(a) \in Nat /\ thread[a].sent \in Nat /\ Batches \in Nat
        /\ Written(a) \in {thread[a].sent, thread[a].sent + 1}
        /\ \/ Unmarked(a)
           \/ Written(a) = Batches /\ MarkedBy(a, {"completed"})
           \/ Written(a) = thread[a].sent /\ MarkedBy(a, {"failed"})
    BY <1>1, Accounted
  <2>3. Written(a) - thread[a].sent \in 0..1
    BY <2>2
  <2>4. \A m \in BatchIds(a) : save[m].chunk = Cardinality({k \in BatchIds(a) : k < m})
    BY <2>2 DEF Numbered
  <2>5. Cardinality(MarkerIds(a)) <= 1
    <3>1. \A m, k \in MarkerIds(a) : m = k
      BY <2>2 DEF Unmarked, MarkedBy
    <3>2. CASE MarkerIds(a) = {}
      BY <3>2, FS_EmptySet
    <3>3. CASE MarkerIds(a) # {}
      <4>1. PICK m : MarkerIds(a) = {m}
        BY <3>1, <3>3
      <4>2. Cardinality({m}) = 1
        BY FS_Singleton
      <4> QED
        BY <4>1, <4>2
    <3> QED
      BY <3>2, <3>3
  <2>6. ASSUME NEW m \in MarkerIds(a)
        PROVE  /\ \A k \in BatchIds(a) : k < m
               /\ save[m].kind = "completed" => Written(a) = Batches
               /\ save[m].kind = "failed" => Written(a) = thread[a].sent
    BY <2>2 DEF Unmarked, MarkedBy
  <2>7. Cardinality(batches) = Written(a)
    BY <2>1 DEF Written
  <2> HIDE DEF batches, markers
  <2>8. /\ Cardinality(batches) - thread[a].sent \in 0..1
        /\ Cardinality(markers) <= 1
    BY <2>1, <2>3, <2>5, <2>7
  <2>9. \A m \in batches : save[m].chunk = Cardinality({k \in batches : k < m})
    BY <2>1, <2>4
  <2>10. \A m \in markers :
            /\ \A k \in batches : k < m
            /\ save[m].kind = "completed" => Cardinality(batches) = Batches
            /\ save[m].kind = "failed" => Cardinality(batches) = thread[a].sent
    BY <2>1, <2>6, <2>7
  <2> QED
    BY <2>8, <2>9, <2>10 DEF batches, markers
<1>2. Inv => BatchesInOrder
  BY <1>1, Zenon DEF BatchesInOrder
<1> QED
  BY <1>2, Invariant, PTL

\* process_transcript marks a track completed only with every batch of the attempt stored, on
\* its way, or given up by a dead letter or a failed insert that was acknowledged.
THEOREM CompletedIsWholeAlways == Spec => []CompletedIsWhole
<1>1. ASSUME Inv, NEW a \in completed, NEW n \in 0..(Batches - 1)
      PROVE  \/ \E i \in DOMAIN rows : rows[i].attempt = a /\ rows[i].chunk = n
             \/ \E m \in Carriers(a, n) : Held(m) \/ m \in given_up
  <2>1. a \in Attempts
    BY <1>1 DEF Inv, TypeOK, ConsumerTypes
  <2>2. PICK k \in Ids : save[k].retry = 0 /\ save[k].attempt = a /\ save[k].kind = "completed"
    BY <1>1 DEF Inv, Completion, Copied
  <2>3. k \in MarkerIds(a)
    BY <2>2 DEF MarkerIds
  <2>4. Written(a) = Batches /\ Numbered(a) /\ Batches \in Nat
    BY <1>1, <2>1, <2>2, <2>3, Accounted DEF Unmarked, MarkedBy
  <2>5. PICK m \in BatchIds(a) : save[m].chunk = n
    <3>1. n \in 0..Batches /\ n < Written(a)
      BY <2>4
    <3> QED
      BY <2>4, <3>1 DEF Numbered
  <2>6. m \in Ids /\ save[m].attempt = a /\ save[m].kind = "pending"
    BY <2>5 DEF BatchIds
  <2>7. Settled(m)
    BY <1>1, <2>6 DEF Inv, Delivery
  <2> QED
    BY <2>5, <2>6, <2>7 DEF Settled, Stored, Carriers
<1>2. Inv => CompletedIsWhole
  BY <1>1 DEF CompletedIsWhole
<1> QED
  BY <1>2, Invariant, PTL

\* The consumer and the orphan loop append concurrently, and tracks.chunk_count still counts
\* the rows: append_transcript_chunk increments in the transaction that inserts.
THEOREM CountIsRowsAlways == Spec => []CountIsRows
  BY Invariant, PTL DEF Inv
--------------------------------------------------------------------------------
(* LivePipelines.                                                                 *)

Live == INSTANCE LivePipelines
--------------------------------------------------------------------------------
(* LivePipelines: types.                                                           *)

Handlers == [at : {"new", "register", "open", "stuck", "cleanup", "over"}, client : Speakers \cup {Nobody}]
Pipelines == [at : {"none", "running", "stopped", "over"}, queue : Seq(Nat), acc : Seq(Nat), buf : Seq(Nat),
              heard : Nat, text : BOOLEAN, shut : BOOLEAN, whole : BOOLEAN]
LiveTypeOK ==
  /\ socket \in [Sockets -> Handlers] /\ dispatcher \in [Speakers -> Sockets \cup {Nobody}]
  /\ box \in [Sockets -> Seq(Nat)] /\ sent \in [Sockets -> Nat]
  /\ pipeline \in [Speakers -> Pipelines] /\ chunks \in [Speakers -> Nat] /\ emits \in [Speakers -> Seq(Nat)]
  /\ joining \in [clients : SUBSET Speakers, who : Sockets \cup {Nobody}, drop : BOOLEAN]
--------------------------------------------------------------------------------
(* LivePipelines: the invariant.                                                   *)

\* A socket is a client's once it is accepted; a dispatcher sends its own client's results.
Met(c) == socket[c].at # "new"
Routed ==
  /\ \A c \in Sockets : IF Met(c) THEN socket[c].client \in Speakers
                        ELSE box[c] = <<>> /\ sent[c] = 0 /\ \A k \in Speakers : dispatcher[k] # c
  /\ \A k \in Speakers : dispatcher[k] # Nobody => socket[dispatcher[k]].client = k
  /\ joining.who # Nobody => Met(joining.who)

\* The n chunks a client's pipelines took are recognised, lost to the model, in its
\* buffer, accumulated or queued, in this order and each in one place.
UpTo(s, n) == \A i \in 1..Len(s) : s[i] + Len(s) = n + i
Placed(p, n) ==
  LET q == Len(p.queue)  a == Len(p.acc)  b == Len(p.buf) IN
    /\ UpTo(p.queue, n) /\ UpTo(p.acc, n - q) /\ UpTo(p.buf, (n - q) - a)
    /\ p.heard <= ((n - q) - a) - b /\ (p.whole => p.heard = ((n - q) - a) - b)
    /\ p.at \in {"over", "none"} => p.acc = <<>> /\ p.buf = <<>>

\* The last result a pipeline may have emitted, and results in order up to a last one.
Top(p) == 2 * p.heard + (IF p.text THEN 0 ELSE 1)
Increasing(s) == \A j \in 1..Len(s) : \A i \in 1..(j - 1) : s[i] < s[j]
Spoken(e, t) == Increasing(e) /\ \A i \in 1..Len(e) : 0 < e[i] /\ e[i] <= t
\* What was sent to a connection, what its dispatcher has, what is still to reach it.
Chain(x, b, e, t) ==
  /\ x <= t /\ Increasing(b) /\ \A i \in 1..Len(b) : x < b[i] /\ b[i] <= t
  /\ \A j \in 1..Len(e) : x < e[j] /\ \A i \in 1..Len(b) : b[i] < e[j]
Chained(c) == Met(c) => LET k == socket[c].client IN Chain(sent[c], box[c], emits[k], Top(pipeline[k]))

LiveInv ==
  /\ LiveTypeOK /\ Routed
  /\ \A k \in Speakers : Placed(pipeline[k], chunks[k]) /\ Spoken(emits[k], Top(pipeline[k]))
  /\ \A c \in Sockets : Chained(c)

\* A step that emits what follows all that its client's pipelines may have emitted.
Grows(e, t, f, u) ==
  /\ t <= u
  /\ \/ f = e
     \/ \E m \in Nat : t < m /\ m <= u /\ f = Append(e, m)
     \/ \E m, n \in Nat : t < m /\ m < n /\ n <= u /\ f = Append(Append(e, m), n)

LEMMA Raised ==
  ASSUME NEW e \in Seq(Nat), NEW t \in Nat, NEW u \in Nat, t <= u
  PROVE  /\ Spoken(e, t) => Spoken(e, u)
         /\ \A x \in Nat, b \in Seq(Nat) : Chain(x, b, e, t) => Chain(x, b, e, u)
<1>1. ASSUME Spoken(e, t) PROVE Spoken(e, u)
  <2>1. ASSUME NEW i \in 1..Len(e) PROVE 0 < e[i] /\ e[i] <= u
    <3>1. e[i] \in Nat /\ 0 < e[i] /\ e[i] <= t
      BY <1>1 DEF Spoken
    <3> QED
      BY <3>1
  <2> QED
    BY <1>1, <2>1 DEF Spoken
<1>2. ASSUME NEW x \in Nat, NEW b \in Seq(Nat), Chain(x, b, e, t) PROVE Chain(x, b, e, u)
  <2>1. ASSUME NEW i \in 1..Len(b) PROVE x < b[i] /\ b[i] <= u
    <3>1. b[i] \in Nat /\ x < b[i] /\ b[i] <= t
      BY <1>2 DEF Chain
    <3> QED
      BY <3>1
  <2>2. x <= u
    BY <1>2 DEF Chain
  <2> QED
    BY <1>2, <2>1, <2>2 DEF Chain
<1> QED
  BY <1>1, <1>2

LEMMA Emitted ==
  ASSUME NEW e \in Seq(Nat), NEW t \in Nat, NEW m \in Nat, t < m
  PROVE  /\ Append(e, m) \in Seq(Nat)
         /\ Spoken(e, t) => Spoken(Append(e, m), m)
         /\ \A x \in Nat, b \in Seq(Nat) : Chain(x, b, e, t) => Chain(x, b, Append(e, m), m)
<1> DEFINE f == Append(e, m)  l == Len(e)
<1>1. l \in Nat /\ f \in Seq(Nat) /\ Len(f) = l + 1 /\ f[l + 1] = m /\ \A i \in 1..l : f[i] = e[i] /\ e[i] \in Nat
  OBVIOUS
<1>2. \A i \in 1..(l + 1) : i \in 1..l \/ i = l + 1
  BY <1>1
<1>3. ASSUME Spoken(e, t) PROVE Spoken(f, m)
  <2> HIDE DEF f
  <2>1. \A i \in 1..l : 0 < e[i] /\ e[i] <= t
    BY <1>3 DEF Spoken
  <2>2. ASSUME NEW i \in 1..(l + 1) PROVE 0 < f[i] /\ f[i] <= m
    <3>1. CASE i \in 1..l
      BY <1>1, <2>1, <3>1
    <3>2. CASE i = l + 1
      BY <1>1, <3>2
    <3> QED
      BY <1>2, <3>1, <3>2
  <2>3. ASSUME NEW j \in 1..(l + 1), NEW i \in 1..(j - 1) PROVE f[i] < f[j]
    <3>1. i \in 1..l
      BY <1>1
    <3>2. CASE j \in 1..l
      BY <1>1, <1>3, <3>1, <3>2 DEF Spoken, Increasing
    <3>3. CASE j = l + 1
      BY <1>1, <2>1, <3>1, <3>3
    <3> QED
      BY <1>2, <3>2, <3>3
  <2> QED
    BY <1>1, <2>2, <2>3 DEF Spoken, Increasing
<1>4. ASSUME NEW x \in Nat, NEW b \in Seq(Nat), Chain(x, b, e, t) PROVE Chain(x, b, f, m)
  <2> HIDE DEF f
  <2>1. x <= t /\ \A i \in 1..Len(b) : b[i] \in Nat /\ x < b[i] /\ b[i] <= t
    BY <1>4 DEF Chain
  <2>2. x <= m /\ \A i \in 1..Len(b) : x < b[i] /\ b[i] <= m
    BY <2>1
  <2>3. ASSUME NEW j \in 1..(l + 1) PROVE x < f[j] /\ \A i \in 1..Len(b) : b[i] < f[j]
    <3>1. CASE j \in 1..l
      BY <1>1, <1>4, <3>1 DEF Chain
    <3>2. CASE j = l + 1
      BY <1>1, <2>1, <3>2
    <3> QED
      BY <1>2, <3>1, <3>2
  <2> QED
    BY <1>1, <1>4, <2>2, <2>3 DEF Chain
<1> QED
  BY <1>1, <1>3, <1>4

LEMMA Grown ==
  ASSUME NEW e \in Seq(Nat), NEW t \in Nat, NEW u \in Nat, NEW f, Grows(e, t, f, u), Spoken(e, t)
  PROVE  /\ f \in Seq(Nat) /\ Spoken(f, u)
         /\ \A x \in Nat, b \in Seq(Nat) : Chain(x, b, e, t) => Chain(x, b, f, u)
<1>1. CASE f = e
  BY <1>1, Raised DEF Grows
<1>2. ASSUME NEW m \in Nat, t < m, m <= u, f = Append(e, m)
      PROVE  /\ f \in Seq(Nat) /\ Spoken(f, u)
             /\ \A x \in Nat, b \in Seq(Nat) : Chain(x, b, e, t) => Chain(x, b, f, u)
  <2>1. f \in Seq(Nat) /\ Spoken(f, m) /\ \A x \in Nat, b \in Seq(Nat) : Chain(x, b, e, t) => Chain(x, b, f, m)
    BY <1>2, Emitted
  <2> QED
    BY <1>2, <2>1, Raised
<1>3. ASSUME NEW m \in Nat, NEW n \in Nat, t < m, m < n, n <= u, f = Append(Append(e, m), n)
      PROVE  /\ f \in Seq(Nat) /\ Spoken(f, u)
             /\ \A x \in Nat, b \in Seq(Nat) : Chain(x, b, e, t) => Chain(x, b, f, u)
  <2> DEFINE g == Append(e, m)
  <2>1. g \in Seq(Nat) /\ Spoken(g, m) /\ \A x \in Nat, b \in Seq(Nat) : Chain(x, b, e, t) => Chain(x, b, g, m)
    BY <1>3, Emitted
  <2> HIDE DEF g
  <2>2. /\ Append(g, n) \in Seq(Nat) /\ Spoken(Append(g, n), n)
        /\ \A x \in Nat, b \in Seq(Nat) : Chain(x, b, g, m) => Chain(x, b, Append(g, n), n)
    BY <1>3, <2>1, Emitted
  <2>3. f = Append(g, n) /\ f \in Seq(Nat) /\ Spoken(f, n)
    BY <1>3, <2>2 DEF g
  <2>4. Spoken(f, u) /\ \A x \in Nat, b \in Seq(Nat) : Chain(x, b, f, n) => Chain(x, b, f, u)
    BY <1>3, <2>3, Raised
  <2> QED
    BY <2>1, <2>2, <2>3, <2>4
<1> QED
  BY <1>1, <1>2, <1>3 DEF Grows

\* A pipeline is a client's, and so is all that it emits.
LEMMA ClientStep ==
  ASSUME LiveInv, NEW k \in Speakers, NEW p \in Pipelines, NEW n \in Nat, NEW f,
         pipeline' = [pipeline EXCEPT ![k] = p], chunks' = [chunks EXCEPT ![k] = n], emits' = [emits EXCEPT ![k] = f],
         Placed(p, n), Grows(emits[k], Top(pipeline[k]), f, Top(p)),
         UNCHANGED <<dispatcher, box, sent>>, socket' \in [Sockets -> Handlers],
         \A c \in Sockets : socket'[c].client = socket[c].client /\ (Met(c)' <=> Met(c)),
         joining' \in [clients : SUBSET Speakers, who : Sockets \cup {Nobody}, drop : BOOLEAN],
         joining'.who \in {joining.who, Nobody}
  PROVE  LiveInv'
<1>1. /\ pipeline[k] \in Pipelines /\ emits[k] \in Seq(Nat) /\ Top(pipeline[k]) \in Nat /\ Top(p) \in Nat
      /\ Spoken(emits[k], Top(pipeline[k]))
  <2>1. pipeline[k] \in Pipelines /\ emits[k] \in Seq(Nat) /\ Spoken(emits[k], Top(pipeline[k]))
    BY DEF LiveInv, LiveTypeOK
  <2>2. \A r \in Pipelines : Top(r) \in Nat
    BY DEF Pipelines, Top
  <2> QED
    BY <2>1, <2>2
<1>2. /\ f \in Seq(Nat) /\ Spoken(f, Top(p))
      /\ \A x \in Nat, b \in Seq(Nat) : Chain(x, b, emits[k], Top(pipeline[k])) => Chain(x, b, f, Top(p))
  BY <1>1, Grown
<1>3. LiveTypeOK'
  BY <1>2 DEF LiveInv, LiveTypeOK
<1>4. Routed'
  <2>1. joining'.who # Nobody => joining'.who = joining.who /\ joining.who \in Sockets
    BY DEF LiveInv, LiveTypeOK
  <2>2. \A j \in Speakers : dispatcher[j] # Nobody => dispatcher[j] \in Sockets
    BY DEF LiveInv, LiveTypeOK
  <2> QED
    BY <2>1, <2>2 DEF LiveInv, Routed
<1>5. /\ pipeline'[k] = p /\ chunks'[k] = n /\ emits'[k] = f
      /\ \A j \in Speakers \ {k} : pipeline'[j] = pipeline[j] /\ chunks'[j] = chunks[j] /\ emits'[j] = emits[j]
  BY DEF LiveInv, LiveTypeOK
<1>6. ASSUME NEW j \in Speakers PROVE Placed(pipeline'[j], chunks'[j]) /\ Spoken(emits'[j], Top(pipeline'[j]))
  <2>1. CASE j = k
    BY <1>2, <1>5, <2>1
  <2>2. CASE j # k
    BY <1>5, <2>2 DEF LiveInv
  <2> QED
    BY <2>1, <2>2
<1>7. ASSUME NEW c \in Sockets, Met(c)' PROVE Chain(sent'[c], box'[c], emits'[socket'[c].client], Top(pipeline'[socket'[c].client]))
  <2> DEFINE j == socket[c].client
  <2>1. Met(c) /\ j \in Speakers /\ socket'[c].client = j /\ sent[c] \in Nat /\ box[c] \in Seq(Nat)
    BY <1>7 DEF LiveInv, Routed, LiveTypeOK
  <2>2. Chain(sent[c], box[c], emits[j], Top(pipeline[j]))
    BY <2>1 DEF LiveInv, Chained
  <2> HIDE DEF j
  <2>3. Chain(sent[c], box[c], emits'[j], Top(pipeline'[j]))
    <3>1. CASE j = k
      BY <1>2, <1>5, <2>1, <2>2, <3>1
    <3>2. CASE j # k
      BY <1>5, <2>1, <2>2, <3>2
    <3> QED
      BY <3>1, <3>2
  <2> QED
    BY <2>1, <2>3
<1>8. \A c \in Sockets : Chained(c)'
  BY <1>7 DEF Chained
<1> QED
  BY <1>3, <1>4, <1>6, <1>8 DEF LiveInv

\* Connections, dispatchers and shutdowns come and go; a new connection has nothing yet.
LEMMA RouteStep ==
  ASSUME LiveInv, UNCHANGED <<box, sent, pipeline, chunks, emits>>, Routed', socket' \in [Sockets -> Handlers],
         dispatcher' \in [Speakers -> Sockets \cup {Nobody}],
         joining' \in [clients : SUBSET Speakers, who : Sockets \cup {Nobody}, drop : BOOLEAN],
         \A c \in Sockets : Met(c) => Met(c)' /\ socket'[c].client = socket[c].client
  PROVE  LiveInv'
<1>1. LiveTypeOK'
  BY DEF LiveInv, LiveTypeOK
<1>2. ASSUME NEW c \in Sockets, Met(c)' PROVE Chain(sent'[c], box'[c], emits'[socket'[c].client], Top(pipeline'[socket'[c].client]))
  <2>1. CASE Met(c)
    BY <2>1 DEF LiveInv, Chained
  <2>2. CASE ~Met(c)
    <3> DEFINE j == socket'[c].client
    <3>1. j \in Speakers /\ box[c] = <<>> /\ sent[c] = 0
      BY <1>2, <2>2 DEF LiveInv, Routed
    <3> HIDE DEF j
    <3>2. Top(pipeline[j]) \in Nat /\ \A i \in 1..Len(emits[j]) : 0 < emits[j][i]
      BY <3>1 DEF LiveInv, LiveTypeOK, Spoken, Pipelines, Top
    <3>3. Chain(0, <<>>, emits[j], Top(pipeline[j]))
      BY <3>2 DEF Chain, Increasing
    <3> QED
      BY <3>1, <3>3 DEF j
  <2> QED
    BY <2>1, <2>2
<1>3. \A c \in Sockets : Chained(c)'
  BY <1>2 DEF Chained
<1>4. \A k \in Speakers : Placed(pipeline'[k], chunks'[k]) /\ Spoken(emits'[k], Top(pipeline'[k]))
  BY DEF LiveInv
<1> QED
  BY <1>1, <1>3, <1>4 DEF LiveInv

LEMMA LiveInit == Live!Init => LiveInv
<1> SUFFICES ASSUME Live!Init PROVE LiveInv
  OBVIOUS
<1> DEFINE p == Live!Absent
<1>1. /\ p \in Pipelines /\ p.queue = <<>> /\ p.acc = <<>> /\ p.buf = <<>> /\ p.heard = 0
  BY DEF Live!Absent, Pipelines
<1>2. \A k \in Speakers : pipeline[k] = p /\ chunks[k] = 0 /\ emits[k] = <<>>
  BY DEF Live!Init
<1> HIDE DEF p
<1>3. ASSUME NEW k \in Speakers PROVE Placed(pipeline[k], chunks[k]) /\ Spoken(emits[k], Top(pipeline[k]))
  <2>1. Len(<<>>) = 0 /\ \A i \in 1..0 : FALSE
    OBVIOUS
  <2>2. Placed(p, 0)
    <3>1. UpTo(<<>>, 0)
      BY <2>1 DEF UpTo
    <3>2. ((0 - 0) - 0) - 0 = 0 /\ 0 - 0 = 0 /\ 0 <= 0
      OBVIOUS
    <3> QED
      BY <1>1, <2>1, <3>1, <3>2 DEF Placed
  <2>3. Spoken(<<>>, Top(p))
    BY <2>1 DEF Spoken, Increasing
  <2> QED
    BY <1>2, <2>2, <2>3
<1>4. /\ socket \in [Sockets -> Handlers] /\ dispatcher \in [Speakers -> Sockets \cup {Nobody}]
      /\ box \in [Sockets -> Seq(Nat)] /\ sent \in [Sockets -> Nat]
  BY DEF Live!Init, Handlers
<1>5. pipeline \in [Speakers -> Pipelines] /\ chunks \in [Speakers -> Nat] /\ emits \in [Speakers -> Seq(Nat)]
  BY <1>1 DEF Live!Init, p
<1>6. joining \in [clients : SUBSET Speakers, who : Sockets \cup {Nobody}, drop : BOOLEAN] /\ joining.who = Nobody
  BY DEF Live!Init, Live!NotJoining
<1>7. Routed
  BY <1>6, LiveAssumption DEF Live!Init, Routed, Met
<1>8. \A c \in Sockets : Chained(c)
  BY DEF Live!Init, Chained, Met
<1> QED
  BY <1>3, <1>4, <1>5, <1>6, <1>7, <1>8 DEF LiveInv, LiveTypeOK

\* The handlers: a socket is accepted for a client, registered, and left.
LEMMA AcceptStep ==
  ASSUME LiveInv, NEW c \in Sockets, NEW k \in Speakers, Live!Accept(c, k)
  PROVE  LiveInv'
<1>1. UNCHANGED <<box, sent, pipeline, chunks, emits, joining>> /\ socket[c].at = "new" /\ ~Met(c) /\ c # Nobody
  BY LiveAssumption DEF Live!Accept, Live!At, Met
<1>2. PICK x \in {[at |-> "open", client |-> k], [at |-> "register", client |-> k]} : socket' = [socket EXCEPT ![c] = x]
  BY DEF Live!Accept
<1>3. dispatcher' = [dispatcher EXCEPT ![k] = IF @ = Nobody THEN c ELSE Nobody]
  BY DEF Live!Accept
<1>4. x \in Handlers /\ x.at # "new" /\ x.client = k
  BY DEF Handlers
<1>5. /\ socket' \in [Sockets -> Handlers] /\ socket'[c] = x
      /\ \A d \in Sockets \ {c} : socket'[d] = socket[d]
  BY <1>2, <1>4 DEF LiveInv, LiveTypeOK
<1>6. /\ dispatcher' \in [Speakers -> Sockets \cup {Nobody}] /\ dispatcher'[k] \in {c, Nobody}
      /\ \A j \in Speakers \ {k} : dispatcher'[j] = dispatcher[j]
  BY <1>3 DEF LiveInv, LiveTypeOK
<1>7. \A d \in Sockets : Met(d) => Met(d)' /\ socket'[d].client = socket[d].client
  BY <1>1, <1>4, <1>5 DEF Met
<1>8. Routed'
  <2>1. ASSUME NEW d \in Sockets
        PROVE  IF Met(d)' THEN socket'[d].client \in Speakers
               ELSE box[d] = <<>> /\ sent[d] = 0 /\ \A j \in Speakers : dispatcher'[j] # d
    <3>1. CASE d = c
      BY <1>4, <1>5, <3>1 DEF Met
    <3>2. CASE d # c
      BY <1>5, <1>6, <3>2, LiveAssumption DEF LiveInv, Routed, Met
    <3> QED
      BY <3>1, <3>2
  <2>2. ASSUME NEW j \in Speakers, dispatcher'[j] # Nobody PROVE socket'[dispatcher'[j]].client = j
    <3>1. CASE j = k
      BY <1>4, <1>5, <1>6, <2>2, <3>1
    <3>2. CASE j # k
      <4>1. dispatcher[j] \in Sockets /\ dispatcher[j] # c /\ dispatcher'[j] = dispatcher[j] /\ socket[dispatcher[j]].client = j
        BY <1>1, <1>6, <2>2, <3>2 DEF LiveInv, LiveTypeOK, Routed
      <4> QED
        BY <1>5, <4>1
    <3> QED
      BY <3>1, <3>2
  <2>3. joining'.who # Nobody => socket'[joining'.who].at # "new"
    <3>1. joining' = joining /\ (joining.who # Nobody => joining.who \in Sockets /\ Met(joining.who))
      BY <1>1 DEF LiveInv, LiveTypeOK, Routed
    <3> QED
      BY <1>7, <3>1 DEF Met
  <2> QED
    BY <1>1, <2>1, <2>2, <2>3 DEF Routed, Met
<1>9. joining' \in [clients : SUBSET Speakers, who : Sockets \cup {Nobody}, drop : BOOLEAN]
  BY <1>1 DEF LiveInv, LiveTypeOK
<1> QED
  BY <1>1, <1>5, <1>6, <1>7, <1>8, <1>9, RouteStep

\* A dispatcher that is registered again is its socket's client's, and one may be taken away.
LEMMA HandlerStep ==
  ASSUME LiveInv, NEW c \in Sockets, Met(c), UNCHANGED <<box, sent, pipeline, chunks, emits>>,
         socket' = socket \/ \E s \in {"open", "stuck", "cleanup", "over"} : socket' = [socket EXCEPT ![c].at = s],
         dispatcher' = dispatcher \/ \E d \in {c, Nobody} : dispatcher' = [dispatcher EXCEPT ![socket[c].client] = d],
         joining' = joining \/ \E ks \in SUBSET Speakers, who \in {c, Nobody}, drop \in BOOLEAN : joining' = [clients |-> ks, who |-> who, drop |-> drop]
  PROVE  LiveInv'
<1> DEFINE k == socket[c].client
<1>1. k \in Speakers /\ socket[c] \in Handlers /\ dispatcher \in [Speakers -> Sockets \cup {Nobody}]
  BY DEF LiveInv, LiveTypeOK, Routed
<1>2. /\ socket' \in [Sockets -> Handlers]
      /\ \A d \in Sockets : socket'[d].client = socket[d].client /\ (Met(d)' <=> Met(d))
  <2>1. CASE socket' = socket
    BY <2>1 DEF LiveInv, LiveTypeOK, Met
  <2>2. ASSUME NEW s \in {"open", "stuck", "cleanup", "over"}, socket' = [socket EXCEPT ![c].at = s]
        PROVE  /\ socket' \in [Sockets -> Handlers]
               /\ \A d \in Sockets : socket'[d].client = socket[d].client /\ (Met(d)' <=> Met(d))
    <3> DEFINE x == [socket[c] EXCEPT !.at = s]
    <3>1. socket' = [socket EXCEPT ![c] = x] /\ x \in Handlers /\ x.client = socket[c].client /\ x.at # "new"
      BY <1>1, <2>2 DEF LiveInv, LiveTypeOK, Handlers
    <3> HIDE DEF x
    <3>2. socket' \in [Sockets -> Handlers] /\ socket'[c] = x /\ \A d \in Sockets \ {c} : socket'[d] = socket[d]
      BY <3>1 DEF LiveInv, LiveTypeOK
    <3> QED
      BY <3>1, <3>2 DEF Met
  <2> QED
    BY <2>1, <2>2
<1> HIDE DEF k
<1>3. /\ dispatcher' \in [Speakers -> Sockets \cup {Nobody}] /\ dispatcher'[k] \in {dispatcher[k], c, Nobody}
      /\ \A j \in Speakers \ {k} : dispatcher'[j] = dispatcher[j]
  <2>1. dispatcher' = dispatcher \/ \E d \in {c, Nobody} : dispatcher' = [dispatcher EXCEPT ![k] = d]
    BY DEF k
  <2> QED
    BY <1>1, <2>1
<1>4. /\ joining' \in [clients : SUBSET Speakers, who : Sockets \cup {Nobody}, drop : BOOLEAN]
      /\ joining'.who \in {joining.who, c, Nobody}
  BY DEF LiveInv, LiveTypeOK
<1>5. Routed'
  <2>1. ASSUME NEW d \in Sockets
        PROVE  IF Met(d)' THEN socket'[d].client \in Speakers
               ELSE box[d] = <<>> /\ sent[d] = 0 /\ \A j \in Speakers : dispatcher'[j] # d
    <3>1. CASE Met(d)
      BY <1>2, <3>1 DEF LiveInv, Routed
    <3>2. CASE ~Met(d)
      BY <1>2, <1>3, <3>2, LiveAssumption DEF LiveInv, Routed
    <3> QED
      BY <3>1, <3>2
  <2>2. ASSUME NEW j \in Speakers, dispatcher'[j] # Nobody PROVE socket'[dispatcher'[j]].client = j
    <3>1. dispatcher'[j] \in Sockets
      BY <1>3, <2>2
    <3>2. dispatcher'[j] = dispatcher[j] \/ (j = k /\ dispatcher'[j] = c)
      BY <1>3, <2>2
    <3>3. socket[dispatcher'[j]].client = j
      BY <2>2, <3>2 DEF LiveInv, Routed, k
    <3> QED
      BY <1>2, <3>1, <3>3
  <2>3. ASSUME joining'.who # Nobody PROVE socket'[joining'.who].at # "new"
    <3> DEFINE w == joining'.who
    <3>1. w \in Sockets /\ (w = c \/ (w = joining.who /\ joining.who # Nobody))
      BY <1>4, <2>3
    <3>2. Met(w)
      BY <3>1 DEF LiveInv, Routed
    <3> HIDE DEF w
    <3>3. socket'[w].at # "new"
      BY <1>2, <3>1, <3>2 DEF Met
    <3> QED
      BY <3>3 DEF w
  <2> QED
    BY <2>1, <2>2, <2>3 DEF Routed, Met
<1> QED
  BY <1>2, <1>3, <1>4, <1>5, RouteStep

LEMMA HandlersKeep ==
  ASSUME LiveInv, NEW c \in Sockets,
         Live!Register(c) \/ Live!SubmitAtLimit(c) \/ Live!WaitForLock(c) \/ Live!Leave(c) \/ Live!Cleanup(c)
  PROVE  LiveInv'
<1>1. Met(c) /\ UNCHANGED <<box, sent, pipeline, chunks, emits>>
  BY DEF Met, Live!Register, Live!SubmitAtLimit, Live!WaitForLock, Live!Leave, Live!Cleanup, Live!At
<1>2. socket[c].client \in Speakers
  BY <1>1 DEF LiveInv, Routed
<1>3. CASE Live!Register(c)
  BY <1>1, <1>3, HandlerStep DEF Live!Register, Live!Moves
<1>4. CASE Live!SubmitAtLimit(c) \/ Live!WaitForLock(c)
  BY <1>1, <1>4, HandlerStep DEF Live!SubmitAtLimit, Live!WaitForLock, Live!Moves
<1>5. CASE Live!Leave(c)
  BY <1>1, <1>5, HandlerStep DEF Live!Leave, Live!Moves
<1>6. CASE Live!Cleanup(c)
  <2>1. dispatcher' = dispatcher /\ (socket' = socket \/ socket' = [socket EXCEPT ![c].at = "over"])
        /\ (joining' = joining \/ joining' = [clients |-> {socket[c].client}, who |-> c, drop |-> TRUE])
    BY <1>6 DEF Live!Cleanup, Live!Moves
  <2> QED
    BY <1>1, <1>2, <2>1, HandlerStep
<1> QED
  BY <1>3, <1>4, <1>5, <1>6

\* Shutdowns that begin change nothing yet.
LEMMA ShutdownsBegin ==
  ASSUME LiveInv, Live!CleanupIdle \/ \E k \in Speakers : Live!BreakerShutdown(k)
  PROVE  LiveInv'
<1>1. UNCHANGED <<box, sent, pipeline, chunks, emits, socket, dispatcher>>
  BY DEF Live!CleanupIdle, Live!BreakerShutdown, Live!socketVars
<1>2. joining' = joining \/ \E ks \in SUBSET Speakers, drop \in BOOLEAN : joining' = [clients |-> ks, who |-> Nobody, drop |-> drop]
  BY DEF Live!CleanupIdle, Live!BreakerShutdown
<1>3. joining' \in [clients : SUBSET Speakers, who : Sockets \cup {Nobody}, drop : BOOLEAN] /\ joining'.who \in {joining.who, Nobody}
  BY <1>2 DEF LiveInv, LiveTypeOK
<1>4. Routed'
  BY <1>1, <1>3 DEF LiveInv, Routed, Met
<1> QED
  BY <1>1, <1>3, <1>4, RouteStep DEF LiveInv, LiveTypeOK, Met

\* A step that moves nothing of a socket, and adds to one client's results what follows.
LEMMA PipelineStep ==
  ASSUME LiveInv, NEW k \in Speakers, NEW p \in Pipelines, NEW f,
         pipeline' = [pipeline EXCEPT ![k] = p], emits' = [emits EXCEPT ![k] = f],
         Placed(p, chunks[k]), Grows(emits[k], Top(pipeline[k]), f, Top(p)),
         UNCHANGED <<socket, dispatcher, box, sent, chunks, joining>>
  PROVE  LiveInv'
<1>1. chunks[k] \in Nat /\ chunks' = [chunks EXCEPT ![k] = chunks[k]]
  BY DEF LiveInv, LiveTypeOK
<1>2. \A c \in Sockets : socket'[c].client = socket[c].client /\ (Met(c)' <=> Met(c))
  BY DEF Met
<1>3. /\ joining' \in [clients : SUBSET Speakers, who : Sockets \cup {Nobody}, drop : BOOLEAN]
      /\ joining'.who \in {joining.who, Nobody} /\ socket' \in [Sockets -> Handlers]
  BY DEF LiveInv, LiveTypeOK
<1> QED
  BY <1>1, <1>2, <1>3, ClientStep

\* The same without a result.
LEMMA SilentStep ==
  ASSUME LiveInv, NEW k \in Speakers, NEW p \in Pipelines,
         pipeline' = [pipeline EXCEPT ![k] = p], p.heard = pipeline[k].heard, p.text = pipeline[k].text,
         Placed(p, chunks[k]), UNCHANGED <<socket, dispatcher, box, sent, chunks, joining, emits>>
  PROVE  LiveInv'
<1>1. emits' = [emits EXCEPT ![k] = emits[k]]
  BY DEF LiveInv, LiveTypeOK
<1>2. Top(pipeline[k]) \in Nat /\ Top(p) = Top(pipeline[k])
  BY DEF LiveInv, LiveTypeOK, Pipelines, Top
<1>3. Grows(emits[k], Top(pipeline[k]), emits[k], Top(p))
  BY <1>2 DEF Grows
<1> QED
  BY <1>1, <1>3, PipelineStep

\* Chunks in their order: one more, one fewer, joined, and a block of them less.
LEMMA UpToAppend ==
  ASSUME NEW s \in Seq(Nat), NEW n \in Nat, UpTo(s, n)
  PROVE  UpTo(Append(s, n + 1), n + 1)
<1> DEFINE f == Append(s, n + 1)  l == Len(s)
<1>1. l \in Nat /\ Len(f) = l + 1 /\ f[l + 1] = n + 1 /\ \A i \in 1..l : f[i] = s[i] /\ s[i] \in Nat
  OBVIOUS
<1> HIDE DEF f
<1>2. \A i \in 1..l : s[i] + l = n + i
  BY DEF UpTo
<1> HIDE DEF l
<1>3. ASSUME NEW i \in 1..(l + 1) PROVE f[i] + (l + 1) = (n + 1) + i
  <2>1. CASE i \in 1..l
    <3> DEFINE x == s[i]
    <3>1. f[i] = x /\ x \in Nat /\ x + l = n + i /\ i \in Int
      BY <1>1, <1>2, <2>1
    <3> HIDE DEF x
    <3>2. x + (l + 1) = (n + 1) + i
      BY <1>1, <3>1
    <3> QED
      BY <3>1, <3>2
  <2>2. CASE i = l + 1
    BY <1>1, <2>2
  <2> QED
    BY <1>1, <2>1, <2>2
<1> QED
  BY <1>1, <1>3 DEF UpTo, f

LEMMA UpToTail ==
  ASSUME NEW s \in Seq(Nat), NEW n \in Int, s # <<>>, UpTo(s, n)
  PROVE  UpTo(Tail(s), n) /\ Head(s) = (n - Len(s)) + 1 /\ Len(Tail(s)) = Len(s) - 1 /\ Tail(s) \in Seq(Nat) /\ Head(s) \in Nat
<1> DEFINE f == Tail(s)  l == Len(s)
<1>1. /\ l \in Nat \ {0} /\ Len(f) = l - 1 /\ f \in Seq(Nat) /\ Head(s) = s[1] /\ s[1] \in Nat
      /\ \A i \in 1..(l - 1) : f[i] = s[i + 1] /\ s[i + 1] \in Nat
  OBVIOUS
<1> HIDE DEF f
<1>2. \A i \in 1..l : s[i] + l = n + i
  BY DEF UpTo
<1> HIDE DEF l
<1>3. ASSUME NEW i \in 1..(l - 1) PROVE f[i] + (l - 1) = n + i
  <2>1. i + 1 \in 1..l
    BY <1>1
  <2> DEFINE x == s[i + 1]
  <2>2. f[i] = x /\ x \in Nat /\ x + l = n + (i + 1) /\ i \in Int
    <3>1. f[i] = x /\ x \in Nat
      BY <1>1
    <3>2. x + l = n + (i + 1)
      BY <1>2, <2>1
    <3> QED
      BY <1>1, <3>1, <3>2
  <2> HIDE DEF x
  <2>3. x + (l - 1) = n + i
    BY <1>1, <2>2
  <2> QED
    BY <2>2, <2>3
<1>4. s[1] = (n - l) + 1
  <2>1. 1 \in 1..l
    BY <1>1
  <2>2. s[1] + l = n + 1
    BY <1>2, <2>1
  <2> QED
    BY <1>1, <2>2
<1> QED
  BY <1>1, <1>3, <1>4 DEF UpTo, f, l

LEMMA UpToConcat ==
  ASSUME NEW s \in Seq(Nat), NEW t \in Seq(Nat), NEW n \in Int, UpTo(s, n - Len(t)), UpTo(t, n)
  PROVE  UpTo(s \o t, n) /\ s \o t \in Seq(Nat) /\ Len(s \o t) = Len(s) + Len(t)
<1> DEFINE f == s \o t  l == Len(s)  m == Len(t)
<1>1. l \in Nat /\ m \in Nat /\ f \in Seq(Nat) /\ Len(f) = l + m
  OBVIOUS
<1>2. /\ \A i \in 1..l : f[i] = s[i] /\ s[i] \in Nat
      /\ \A i \in (l + 1)..(l + m) : f[i] = t[i - l]
  OBVIOUS
<1>3. \A i \in 1..m : t[i] \in Nat
  OBVIOUS
<1> HIDE DEF f
<1>4. (\A i \in 1..l : s[i] + l = (n - m) + i) /\ \A i \in 1..m : t[i] + m = n + i
  BY DEF UpTo
<1> HIDE DEF l, m
<1>5. ASSUME NEW i \in 1..(l + m) PROVE f[i] + (l + m) = n + i
  <2>1. CASE i \in 1..l
    <3> DEFINE x == s[i]
    <3>1. f[i] = x /\ x \in Nat /\ x + l = (n - m) + i /\ i \in Int
      BY <1>1, <1>2, <1>4, <2>1
    <3> HIDE DEF x
    <3>2. x + (l + m) = n + i
      BY <1>1, <3>1
    <3> QED
      BY <3>1, <3>2
  <2>2. CASE i \in (l + 1)..(l + m)
    <3>1. i - l \in 1..m
      BY <1>1, <2>2
    <3> DEFINE x == t[i - l]
    <3>2. f[i] = x /\ x \in Nat /\ x + m = n + (i - l) /\ i \in Int
      BY <1>1, <1>2, <1>3, <1>4, <2>2, <3>1
    <3> HIDE DEF x
    <3>3. x + (l + m) = n + i
      BY <1>1, <3>2
    <3> QED
      BY <3>2, <3>3
  <2> QED
    BY <1>1, <2>1, <2>2
<1> QED
  BY <1>1, <1>5 DEF UpTo, f, l, m

LEMMA UpToRest ==
  ASSUME NEW s \in Seq(Nat), NEW n \in Int, NEW j \in 1..Len(s), UpTo(s, n)
  PROVE  /\ UpTo(SubSeq(s, j + 1, Len(s)), n) /\ SubSeq(s, j + 1, Len(s)) \in Seq(Nat)
         /\ Len(SubSeq(s, j + 1, Len(s))) = Len(s) - j /\ s[j] = (n - Len(s)) + j /\ s[j] \in Nat
<1> DEFINE l == Len(s)  f == SubSeq(s, j + 1, l)
<1>1. l \in Nat /\ j \in Nat \ {0} /\ j <= l /\ \A i \in 1..l : s[i] \in Nat
  OBVIOUS
<1>2. \A i \in 1..l : s[i] + l = n + i
  BY DEF UpTo
<1> HIDE DEF l
<1>3. j + 1 \in Int /\ l \in Int /\ \A i \in (j + 1)..l : s[i] \in Nat
  BY <1>1
<1>4. /\ f \in Seq(Nat) /\ Len(f) = (IF j + 1 <= l THEN (l - (j + 1)) + 1 ELSE 0)
      /\ \A i \in 1..((l - (j + 1)) + 1) : f[i] = s[((j + 1) + i) - 1]
  BY <1>3, SubSeqProperties
<1> HIDE DEF f
<1>5. Len(f) = l - j
  BY <1>1, <1>4
<1>6. ASSUME NEW i \in 1..(l - j) PROVE f[i] + (l - j) = n + i
  <2>1. i \in 1..((l - (j + 1)) + 1) /\ ((j + 1) + i) - 1 = j + i /\ j + i \in 1..l
    BY <1>1
  <2> DEFINE x == s[j + i]
  <2>2. f[i] = x /\ x \in Nat /\ x + l = n + (j + i) /\ i \in Int
    <3>1. f[i] = x
      BY <1>4, <2>1
    <3>2. x \in Nat /\ x + l = n + (j + i)
      BY <1>1, <1>2, <2>1
    <3> QED
      BY <1>1, <3>1, <3>2
  <2> HIDE DEF x
  <2>3. x + (l - j) = n + i
    BY <1>1, <2>2
  <2> QED
    BY <2>2, <2>3
<1>7. s[j] = (n - l) + j /\ s[j] \in Nat
  <2>1. j \in 1..l
    BY <1>1
  <2>2. s[j] \in Nat /\ s[j] + l = n + j
    BY <1>1, <1>2, <2>1
  <2> QED
    BY <1>1, <2>2
<1> QED
  BY <1>4, <1>5, <1>6, <1>7 DEF UpTo, f, l

\* submit_audio: one chunk more.
LEMMA Accepted ==
  ASSUME NEW p \in Pipelines, NEW r \in Pipelines, NEW n \in Nat, Placed(p, n), r.queue = Append(p.queue, n + 1),
         r.acc = p.acc, r.buf = p.buf, r.heard = p.heard, r.whole = p.whole, r.at = p.at
  PROVE  Placed(r, n + 1)
<1> DEFINE q == Len(p.queue)  a == Len(p.acc)  b == Len(p.buf)
<1>1. p.queue \in Seq(Nat) /\ q \in Nat /\ a \in Nat /\ b \in Nat /\ p.heard \in Nat /\ Len(r.queue) = q + 1
  BY DEF Pipelines
<1>2. UpTo(r.queue, n + 1)
  BY <1>1, UpToAppend DEF Placed
<1> HIDE DEF q, a, b
<1>3. (n + 1) - (q + 1) = n - q
  BY <1>1
<1> QED
  BY <1>1, <1>2, <1>3 DEF Placed, q, a, b

\* One chunk goes from the queue to the accumulation.
LEMMA Taken ==
  ASSUME NEW p \in Pipelines, NEW r \in Pipelines, NEW n \in Nat, Placed(p, n), p.queue # <<>>,
         r.queue = Tail(p.queue), r.acc = Append(p.acc, Head(p.queue)), p.at = "running",
         r.buf = p.buf, r.heard = p.heard, r.whole = p.whole, r.at = p.at
  PROVE  Placed(r, n)
<1> DEFINE q == Len(p.queue)  a == Len(p.acc)  b == Len(p.buf)
<1>1. p.queue \in Seq(Nat) /\ p.acc \in Seq(Nat) /\ q \in Nat /\ a \in Nat /\ b \in Nat /\ p.heard \in Nat
  BY DEF Pipelines
<1>2. /\ UpTo(r.queue, n) /\ Head(p.queue) = (n - q) + 1 /\ Len(r.queue) = q - 1
      /\ Head(p.queue) \in Nat
  <2>1. UpTo(p.queue, n) /\ n \in Int
    BY DEF Placed
  <2> QED
    BY <1>1, <2>1, UpToTail
<1>3. Len(r.acc) = a + 1
  BY <1>1, <1>2
<1> HIDE DEF q, a, b
<1>4. n - q \in Nat
  <2>1. p.heard <= ((n - q) - a) - b
    BY DEF Placed, q, a, b
  <2> QED
    BY <1>1, <2>1
<1>5. UpTo(p.acc, n - q)
  BY DEF Placed, q
<1>6. UpTo(r.acc, (n - q) + 1)
  BY <1>1, <1>2, <1>4, <1>5, UpToAppend
<1>7. n - (q - 1) = (n - q) + 1 /\ (n - (q - 1)) - (a + 1) = (n - q) - a
  BY <1>1
<1> QED
  BY <1>2, <1>3, <1>6, <1>7 DEF Placed, q, a, b

\* A full batch goes to the model's buffer.
LEMMA Buffered ==
  ASSUME NEW p \in Pipelines, NEW r \in Pipelines, NEW n \in Nat, Placed(p, n), p.at = "running",
         r.queue = p.queue, r.acc = <<>>, r.buf = p.buf \o p.acc, r.heard = p.heard, r.whole = p.whole, r.at = p.at
  PROVE  Placed(r, n)
<1> DEFINE q == Len(p.queue)  a == Len(p.acc)  b == Len(p.buf)
<1>1. p.buf \in Seq(Nat) /\ p.acc \in Seq(Nat) /\ q \in Nat /\ a \in Nat /\ b \in Nat /\ p.heard \in Nat /\ n - q \in Int
  BY DEF Pipelines
<1>2. UpTo(r.buf, n - q) /\ Len(r.buf) = b + a
  <2>1. UpTo(p.buf, (n - q) - Len(p.acc)) /\ UpTo(p.acc, n - q)
    BY DEF Placed
  <2> HIDE DEF q, a, b
  <2>2. UpTo(p.buf \o p.acc, n - q) /\ Len(p.buf \o p.acc) = Len(p.buf) + Len(p.acc)
    BY <1>1, <2>1, UpToConcat
  <2> QED
    BY <2>2 DEF a, b
<1>3. Len(r.acc) = 0 /\ \A m : UpTo(r.acc, m)
  BY DEF UpTo
<1> HIDE DEF q, a, b
<1>4. (n - q) - 0 = n - q /\ ((n - q) - 0) - (b + a) = ((n - q) - a) - b
  BY <1>1
<1> QED
  BY <1>2, <1>3, <1>4 DEF Placed, q, a, b

\* A block leaves the buffer, recognised or lost.
LEMMA BlockLeaves ==
  ASSUME NEW p \in Pipelines, NEW n \in Nat, Placed(p, n), Len(p.buf) >= Block
  PROVE  /\ p.buf[Block] \in Nat /\ p.heard < p.buf[Block] /\ SubSeq(p.buf, Block + 1, Len(p.buf)) \in Seq(Nat)
         /\ \A r \in Pipelines : /\ r.queue = p.queue /\ r.acc = p.acc /\ r.buf = SubSeq(p.buf, Block + 1, Len(p.buf)) /\ r.at = "running"
                                 /\ r.heard = p.buf[Block] \/ (r.heard = p.heard /\ ~r.whole)
                                 => Placed(r, n)
<1> DEFINE q == Len(p.queue)  a == Len(p.acc)  b == Len(p.buf)  h == p.buf[Block]  rest == SubSeq(p.buf, Block + 1, b)
<1>1. p.buf \in Seq(Nat) /\ q \in Nat /\ a \in Nat /\ b \in Nat /\ p.heard \in Nat /\ Block \in 1..b /\ Block \in Nat /\ Block > 0
  BY LiveAssumption DEF Pipelines
<1>2. (n - q) - a \in Int
  BY <1>1
<1>3. UpTo(rest, (n - q) - a) /\ rest \in Seq(Nat) /\ Len(rest) = b - Block /\ h = (((n - q) - a) - b) + Block /\ h \in Nat
  BY <1>1, <1>2, UpToRest DEF Placed
<1>4. p.heard <= ((n - q) - a) - b
  BY DEF Placed
<1> HIDE DEF q, a, b, h, rest
<1>5. p.heard < h /\ h = ((n - q) - a) - (b - Block) /\ p.heard <= ((n - q) - a) - (b - Block)
  BY <1>1, <1>3, <1>4
<1>6. ASSUME NEW r \in Pipelines, r.queue = p.queue, r.acc = p.acc, r.buf = rest, r.at = "running",
             r.heard = h \/ (r.heard = p.heard /\ ~r.whole)
      PROVE  Placed(r, n)
  <2>1. r.heard <= ((n - q) - a) - (b - Block) /\ (r.whole => r.heard = ((n - q) - a) - (b - Block))
    BY <1>1, <1>3, <1>5, <1>6
  <2> QED
    BY <1>3, <1>6, <2>1 DEF Placed, q, a
<1> QED
  BY <1>3, <1>5, <1>6 DEF h, rest, b

\* What is left at the end is recognised, lost or nothing.
LEMMA RestLeaves ==
  ASSUME NEW p \in Pipelines, NEW n \in Nat, Placed(p, n), NEW h,
         h = IF p.buf \o p.acc = <<>> THEN p.heard ELSE Live!Last(p.buf \o p.acc)
  PROVE  /\ h \in Nat /\ p.heard <= h /\ (p.buf \o p.acc # <<>> => p.heard < h)
         /\ \A r \in Pipelines : /\ r.queue = p.queue /\ r.acc = <<>> /\ r.buf = <<>> /\ r.at \in {"over", "none"} /\ r.heard = h
                                 /\ p.buf \o p.acc = <<>> => (r.whole => p.whole)
                                 => Placed(r, n)
<1> DEFINE q == Len(p.queue)  a == Len(p.acc)  b == Len(p.buf)  rest == p.buf \o p.acc
<1>1. p.buf \in Seq(Nat) /\ p.acc \in Seq(Nat) /\ q \in Nat /\ a \in Nat /\ b \in Nat /\ p.heard \in Nat /\ n - q \in Int
  BY DEF Pipelines
<1>2. UpTo(rest, n - q) /\ rest \in Seq(Nat) /\ Len(rest) = b + a
  <2>1. UpTo(p.buf, (n - q) - Len(p.acc)) /\ UpTo(p.acc, n - q)
    BY DEF Placed
  <2> HIDE DEF q
  <2> QED
    BY <1>1, <2>1, UpToConcat
<1>3. p.heard <= ((n - q) - a) - b /\ (p.whole => p.heard = ((n - q) - a) - b)
  BY DEF Placed
<1>4. h = IF rest = <<>> THEN p.heard ELSE rest[b + a]
  BY <1>2 DEF Live!Last
<1> HIDE DEF q, a, b, rest
<1>5. CASE rest = <<>>
  <2>1. b + a = 0 /\ h = p.heard
    BY <1>1, <1>2, <1>4, <1>5
  <2>2. ((n - q) - a) - b = ((n - q) - 0) - 0
    BY <1>1, <2>1
  <2>3. ASSUME NEW r \in Pipelines, r.queue = p.queue, r.acc = <<>>, r.buf = <<>>, r.at \in {"over", "none"}, r.heard = h, r.whole => p.whole
        PROVE  Placed(r, n)
    <3>1. Len(<<>>) = 0 /\ \A m : UpTo(<<>>, m)
      BY DEF UpTo
    <3>2. UpTo(r.queue, n)
      BY <2>3 DEF Placed
    <3>3. r.heard <= ((n - q) - 0) - 0 /\ (r.whole => r.heard = ((n - q) - 0) - 0)
      BY <1>3, <2>1, <2>2, <2>3
    <3> QED
      BY <2>3, <3>1, <3>2, <3>3 DEF Placed, q
  <2> QED
    BY <1>1, <1>5, <2>1, <2>3 DEF rest
<1>6. CASE rest # <<>>
  <2>1. b + a \in 1..Len(rest) /\ b + a > 0
    BY <1>1, <1>2, <1>6
  <2>2. rest[b + a] \in Nat /\ rest[b + a] = ((n - q) - Len(rest)) + (b + a)
    BY <1>1, <1>2, <2>1, UpToRest
  <2>3. h \in Nat /\ h = ((n - q) - 0) - 0
    BY <1>1, <1>2, <1>4, <1>6, <2>2
  <2>4. p.heard < h
    BY <1>1, <1>3, <2>1, <2>3
  <2>5. ASSUME NEW r \in Pipelines, r.queue = p.queue, r.acc = <<>>, r.buf = <<>>, r.at \in {"over", "none"}, r.heard = h
        PROVE  Placed(r, n)
    <3>1. Len(<<>>) = 0 /\ \A m : UpTo(<<>>, m)
      BY DEF UpTo
    <3>2. UpTo(r.queue, n)
      BY <2>5 DEF Placed
    <3>3. r.heard <= ((n - q) - 0) - 0 /\ r.heard = ((n - q) - 0) - 0
      BY <1>1, <2>3, <2>5
    <3> QED
      BY <2>5, <3>1, <3>2, <3>3 DEF Placed, q
  <2> QED
    BY <1>1, <1>6, <2>3, <2>4, <2>5 DEF rest
<1> QED
  BY <1>5, <1>6

\* submit_audio_async: a pipeline that is made begins behind all that was accepted.
LEMMA SubmitStep ==
  ASSUME LiveInv, NEW c \in Sockets, Live!Submit(c)
  PROVE  LiveInv'
<1> DEFINE k == socket[c].client
           p == IF Live!Exists(k) THEN pipeline[k] ELSE Live!NewPipeline(k)
           r == [p EXCEPT !.queue = Append(@, chunks[k] + 1)]
<1>1. k \in Speakers /\ UNCHANGED <<socket, dispatcher, box, sent, emits, joining>>
  <2>1. Met(c)
    BY DEF Live!Submit, Live!At, Met
  <2> QED
    BY <2>1 DEF LiveInv, Routed, Live!Submit, Live!socketVars
<1>2. \/ pipeline' = [pipeline EXCEPT ![k] = r] /\ chunks' = [chunks EXCEPT ![k] = @ + 1] /\ p.at = "running"
      \/ pipeline' = pipeline /\ chunks' = chunks
  BY DEF Live!Submit, Live!Takes
<1>3. chunks[k] \in Nat /\ pipeline[k] \in Pipelines /\ Placed(pipeline[k], chunks[k]) /\ emits[k] \in Seq(Nat)
  BY <1>1 DEF LiveInv, LiveTypeOK
<1> HIDE DEF k
<1>4. /\ p \in Pipelines /\ Placed(p, chunks[k]) /\ Top(pipeline[k]) \in Nat /\ Top(p) \in Nat
      /\ Top(pipeline[k]) <= Top(p)
  <2>1. Top(pipeline[k]) \in Nat
    BY <1>3 DEF Pipelines, Top
  <2>2. CASE Live!Exists(k)
    <3>1. p = pipeline[k]
      BY <2>2
    <3> HIDE DEF p
    <3> QED
      BY <1>3, <2>1, <3>1
  <2>3. CASE ~Live!Exists(k)
    <3> DEFINE w == Live!Absent  z == Live!NewPipeline(k)
    <3>0. /\ w \in Pipelines /\ w.queue = <<>> /\ w.acc = <<>> /\ w.buf = <<>> /\ ~w.text
          /\ z = [w EXCEPT !.at = "running", !.heard = chunks[k]]
      BY DEF Live!NewPipeline, Live!Absent, Pipelines
    <3> HIDE DEF w, z
    <3>1. /\ z \in Pipelines /\ z.queue = <<>> /\ z.acc = <<>> /\ z.buf = <<>> /\ z.heard = chunks[k] /\ ~z.text
          /\ p = z
      BY <1>3, <2>3, <3>0 DEF Pipelines, z
    <3> HIDE DEF p
    <3>2. Placed(z, chunks[k])
      <4>1. Len(<<>>) = 0 /\ \A m : UpTo(<<>>, m)
        BY DEF UpTo
      <4>2. ((chunks[k] - 0) - 0) - 0 = chunks[k] /\ chunks[k] <= chunks[k]
        BY <1>3
      <4> QED
        BY <3>1, <4>1, <4>2 DEF Placed
    <3>3. Top(z) = 2 * chunks[k] + 1
      BY <3>1 DEF Top
    <3>4. pipeline[k].heard \in Nat /\ pipeline[k].heard <= chunks[k]
      <4> DEFINE h == pipeline[k].heard  q == Len(pipeline[k].queue)  a == Len(pipeline[k].acc)  b == Len(pipeline[k].buf)
      <4>1. h <= ((chunks[k] - q) - a) - b
        BY <1>3 DEF Placed
      <4>2. q \in Nat /\ a \in Nat /\ b \in Nat /\ h \in Nat
        BY <1>3 DEF Pipelines
      <4> HIDE DEF h, q, a, b
      <4>3. h <= chunks[k]
        BY <1>3, <4>1, <4>2
      <4> QED
        BY <4>2, <4>3 DEF h
    <3>5. Top(pipeline[k]) <= 2 * chunks[k] + 1
      <4> DEFINE h == pipeline[k].heard
      <4>1. Top(pipeline[k]) = 2 * h \/ Top(pipeline[k]) = 2 * h + 1
        BY <1>3, <3>4 DEF Top
      <4> HIDE DEF h
      <4> QED
        BY <1>3, <3>4, <4>1 DEF h
    <3> QED
      BY <1>3, <2>1, <3>1, <3>2, <3>3, <3>5
  <2> QED
    BY <2>2, <2>3
<1> HIDE DEF p
<1>5. CASE pipeline' = [pipeline EXCEPT ![k] = r] /\ chunks' = [chunks EXCEPT ![k] = @ + 1] /\ p.at = "running"
  <2>1. /\ r \in Pipelines /\ r.queue = Append(p.queue, chunks[k] + 1) /\ r.acc = p.acc /\ r.buf = p.buf
        /\ r.heard = p.heard /\ r.whole = p.whole /\ r.at = p.at /\ r.text = p.text
    <3>1. Append(p.queue, chunks[k] + 1) \in Seq(Nat)
      <4>1. p.queue \in Seq(Nat) /\ chunks[k] + 1 \in Nat
        BY <1>3, <1>4 DEF Pipelines
      <4> QED
        BY <4>1
    <3> QED
      BY <1>4, <3>1 DEF Pipelines
  <2> HIDE DEF r
  <2>2. Placed(r, chunks[k] + 1) /\ Top(r) = Top(p)
    BY <1>3, <1>4, <2>1, Accepted DEF Top
  <2>3. Grows(emits[k], Top(pipeline[k]), emits[k], Top(r))
    BY <1>4, <2>2 DEF Grows
  <2>4. /\ emits' = [emits EXCEPT ![k] = emits[k]] /\ chunks' = [chunks EXCEPT ![k] = chunks[k] + 1]
        /\ chunks[k] + 1 \in Nat /\ UNCHANGED <<dispatcher, box, sent>> /\ pipeline' = [pipeline EXCEPT ![k] = r]
    BY <1>1, <1>3, <1>5 DEF LiveInv, LiveTypeOK
  <2>5. /\ \A d \in Sockets : socket'[d].client = socket[d].client /\ (Met(d)' <=> Met(d))
        /\ joining' \in [clients : SUBSET Speakers, who : Sockets \cup {Nobody}, drop : BOOLEAN]
        /\ joining'.who \in {joining.who, Nobody} /\ socket' \in [Sockets -> Handlers]
    BY <1>1 DEF Met, LiveInv, LiveTypeOK
  <2> QED
    BY <1>1, <2>1, <2>2, <2>3, <2>4, <2>5, ClientStep
<1>6. CASE pipeline' = pipeline /\ chunks' = chunks
  <2>1. Routed'
    BY <1>1, <1>6 DEF LiveInv, Routed, Met
  <2> QED
    BY <1>1, <1>6, <2>1, RouteStep DEF LiveInv, LiveTypeOK, Met
<1> QED
  BY <1>2, <1>5, <1>6

\* The thread.
LEMMA GetStep ==
  ASSUME LiveInv, NEW k \in Speakers, Live!Get(k)
  PROVE  LiveInv'
<1> DEFINE p == pipeline[k]
           acc == Append(p.acc, Head(p.queue))
           x == [p EXCEPT !.queue = Tail(@), !.acc = acc]
           y == [p EXCEPT !.queue = Tail(@), !.acc = <<>>, !.buf = @ \o acc]
<1>1. p \in Pipelines /\ chunks[k] \in Nat /\ Placed(p, chunks[k]) /\ p.at = "running" /\ p.queue # <<>>
  BY DEF LiveInv, LiveTypeOK, Live!Get, Live!Running
<1>2. UNCHANGED <<socket, dispatcher, box, sent, chunks, joining, emits>>
  BY DEF Live!Get, Live!socketVars
<1>3. pipeline' = [pipeline EXCEPT ![k] = x] \/ pipeline' = [pipeline EXCEPT ![k] = y]
  BY DEF Live!Get
<1>4. Tail(p.queue) \in Seq(Nat) /\ acc \in Seq(Nat) /\ p.buf \o acc \in Seq(Nat)
  <2>1. p.queue \in Seq(Nat) /\ p.acc \in Seq(Nat) /\ p.buf \in Seq(Nat)
    BY <1>1 DEF Pipelines
  <2> HIDE DEF p
  <2>2. Tail(p.queue) \in Seq(Nat) /\ Head(p.queue) \in Nat
    BY <1>1, <2>1
  <2>3. acc \in Seq(Nat)
    BY <2>1, <2>2
  <2> HIDE DEF acc
  <2> QED
    BY <2>1, <2>2, <2>3
<1> HIDE DEF acc
<1>5. /\ x \in Pipelines /\ x.queue = Tail(p.queue) /\ x.acc = acc /\ x.buf = p.buf /\ x.heard = p.heard
      /\ x.text = p.text /\ x.whole = p.whole /\ x.at = p.at
  BY <1>1, <1>4 DEF Pipelines
<1>6. /\ y \in Pipelines /\ y.queue = Tail(p.queue) /\ y.acc = <<>> /\ y.buf = p.buf \o acc /\ y.heard = p.heard
      /\ y.text = p.text /\ y.whole = p.whole /\ y.at = p.at
  <2>1. y = [p EXCEPT !.queue = Tail(p.queue), !.acc = <<>>, !.buf = p.buf \o acc] /\ <<>> \in Seq(Nat)
    BY <1>1 DEF Pipelines
  <2> DEFINE u == Tail(p.queue)  v == p.buf \o acc
  <2>2. u \in Seq(Nat) /\ v \in Seq(Nat) /\ y = [p EXCEPT !.queue = u, !.acc = <<>>, !.buf = v]
    BY <1>4, <2>1
  <2> HIDE DEF u, v, y, p
  <2>3. /\ y \in Pipelines /\ y.queue = u /\ y.acc = <<>> /\ y.buf = v /\ y.heard = p.heard
        /\ y.text = p.text /\ y.whole = p.whole /\ y.at = p.at
    BY <1>1, <2>1, <2>2 DEF Pipelines
  <2> QED
    BY <2>3 DEF u, v
<1> HIDE DEF x, y, p
<1>7. Placed(x, chunks[k])
  BY <1>1, <1>5, Taken DEF acc
<1>8. Placed(y, chunks[k])
  BY <1>1, <1>5, <1>6, <1>7, Buffered
<1> QED
  BY <1>2, <1>3, <1>5, <1>6, <1>7, <1>8, SilentStep DEF p

LEMMA RecogniseStep ==
  ASSUME LiveInv, NEW k \in Speakers, Live!Recognise(k) \/ Live!RecogniseFails(k)
  PROVE  LiveInv'
<1> DEFINE p == pipeline[k]  n == p.buf[Block]  rest == SubSeq(p.buf, Block + 1, Len(p.buf))
<1>1. p \in Pipelines /\ chunks[k] \in Nat /\ Placed(p, chunks[k]) /\ p.at = "running" /\ Len(p.buf) >= Block
  BY DEF LiveInv, LiveTypeOK, Live!Recognise, Live!RecogniseFails, Live!Running
<1>2. UNCHANGED <<socket, dispatcher, box, sent, chunks, joining>>
  BY DEF Live!Recognise, Live!RecogniseFails, Live!socketVars
<1>3. /\ n \in Nat /\ p.heard < n /\ rest \in Seq(Nat) /\ p.heard \in Nat
      /\ \A r \in Pipelines : /\ r.queue = p.queue /\ r.acc = p.acc /\ r.buf = rest /\ r.at = "running"
                              /\ r.heard = n \/ (r.heard = p.heard /\ ~r.whole)
                              => Placed(r, chunks[k])
  BY <1>1, BlockLeaves DEF Pipelines
<1>4. CASE Live!Recognise(k)
  <2>1. PICK speech \in BOOLEAN :
          /\ pipeline' = [pipeline EXCEPT ![k] = [p EXCEPT !.buf = SubSeq(@, Block + 1, Len(@)), !.heard = n, !.text = speech]]
          /\ emits' = IF Live!HasText(p, speech) THEN [emits EXCEPT ![k] = Append(@, 2 * n)] ELSE emits
    BY <1>4 DEF Live!Recognise
  <2> DEFINE r == [p EXCEPT !.buf = SubSeq(@, Block + 1, Len(@)), !.heard = n, !.text = speech]
  <2>2. /\ r \in Pipelines /\ r.queue = p.queue /\ r.acc = p.acc /\ r.buf = rest /\ r.at = "running" /\ r.heard = n
        /\ r.text = speech /\ pipeline' = [pipeline EXCEPT ![k] = r]
    BY <1>1, <1>3, <2>1 DEF Pipelines
  <2> HIDE DEF r, n, rest
  <2>3. Placed(r, chunks[k])
    BY <1>3, <2>2
  <2>4. /\ Top(p) \in Nat /\ Top(r) \in Nat /\ Top(p) < 2 * n /\ 2 * n <= Top(r) /\ 2 * n \in Nat
    <3> DEFINE h == p.heard
    <3>1. h \in Nat /\ h < n /\ n \in Nat /\ Top(p) \in {2 * h, 2 * h + 1} /\ Top(r) \in {2 * n, 2 * n + 1}
      BY <1>1, <1>3, <2>2 DEF Top, Pipelines
    <3> HIDE DEF h
    <3> QED
      BY <3>1
  <2>5. PICK f : emits' = [emits EXCEPT ![k] = f] /\ f \in {emits[k], Append(emits[k], 2 * n)}
    BY <2>1 DEF LiveInv, LiveTypeOK
  <2>6. Grows(emits[k], Top(p), f, Top(r))
    BY <2>4, <2>5 DEF Grows
  <2> QED
    BY <1>2, <2>2, <2>3, <2>5, <2>6, PipelineStep
<1>5. CASE Live!RecogniseFails(k)
  <2> DEFINE r == [p EXCEPT !.buf = SubSeq(@, Block + 1, Len(@)), !.whole = FALSE]
  <2>1. pipeline' = [pipeline EXCEPT ![k] = r] /\ emits' = emits
    BY <1>5 DEF Live!RecogniseFails, LiveInv, LiveTypeOK
  <2>2. /\ r \in Pipelines /\ r.queue = p.queue /\ r.acc = p.acc /\ r.buf = rest /\ r.at = "running" /\ r.heard = p.heard
        /\ r.text = p.text /\ ~r.whole
    BY <1>1, <1>3 DEF Pipelines
  <2> HIDE DEF r, n, rest
  <2>3. Placed(r, chunks[k])
    BY <1>3, <2>2
  <2> QED
    BY <1>2, <2>1, <2>2, <2>3, SilentStep
<1> QED
  BY <1>4, <1>5

\* A shutdown that begins, and the thread's end.
LEMMA MarkStep ==
  ASSUME LiveInv, NEW k \in Speakers, Live!BeginShutdown(k) \/ Live!Stop(k)
  PROVE  LiveInv'
<1> DEFINE p == pipeline[k]  x == [p EXCEPT !.shut = TRUE]  y == [p EXCEPT !.at = "stopped"]
<1>1. p \in Pipelines /\ Placed(p, chunks[k]) /\ UNCHANGED <<socket, dispatcher, box, sent, chunks, joining, emits>>
  BY DEF LiveInv, LiveTypeOK, Live!BeginShutdown, Live!Stop, Live!socketVars
<1>2. CASE Live!BeginShutdown(k)
  <2>1. /\ pipeline' = [pipeline EXCEPT ![k] = x] /\ x \in Pipelines /\ x.heard = p.heard /\ x.text = p.text
        /\ x.queue = p.queue /\ x.acc = p.acc /\ x.buf = p.buf /\ x.whole = p.whole /\ x.at = p.at
    BY <1>1, <1>2 DEF Live!BeginShutdown, Pipelines, LiveInv, LiveTypeOK
  <2> HIDE DEF x
  <2>2. Placed(x, chunks[k])
    BY <1>1, <2>1 DEF Placed
  <2> QED
    BY <1>1, <2>1, <2>2, SilentStep
<1>3. CASE Live!Stop(k)
  <2>1. /\ pipeline' = [pipeline EXCEPT ![k] = y] /\ y \in Pipelines /\ y.heard = p.heard /\ y.text = p.text
        /\ y.queue = p.queue /\ y.acc = p.acc /\ y.buf = p.buf /\ y.whole = p.whole /\ y.at = "stopped"
    BY <1>1, <1>3 DEF Live!Stop, Pipelines, LiveInv, LiveTypeOK
  <2> HIDE DEF y
  <2>2. Placed(y, chunks[k])
    BY <1>1, <2>1 DEF Placed
  <2> QED
    BY <1>1, <2>1, <2>2, SilentStep
<1> QED
  BY <1>2, <1>3

\* The flush emits at most the rest's text and the final one, behind all before them.
LEMMA FlushGrows ==
  ASSUME NEW p \in Pipelines, NEW r \in Pipelines, NEW e \in Seq(Nat), NEW n \in Nat, NEW speech \in BOOLEAN, NEW quiet \in BOOLEAN,
         p.heard <= n, r.heard = n, ~r.text, speech => p.heard < n,
         NEW f, f = IF quiet THEN e ELSE e \o (IF speech THEN <<2 * n>> ELSE <<>>) \o (IF speech \/ p.text THEN <<2 * n + 1>> ELSE <<>>)
  PROVE  Grows(e, Top(p), f, Top(r))
<1> DEFINE h == p.heard
<1>1. h \in Nat /\ h <= n /\ (speech => h < n) /\ p.text \in BOOLEAN /\ Top(p) = 2 * h + (IF p.text THEN 0 ELSE 1) /\ Top(r) = 2 * n + 1
  BY DEF Top, Pipelines
<1> HIDE DEF h
<1>2. Top(p) \in Nat /\ Top(r) \in Nat /\ Top(p) <= Top(r) /\ (speech => Top(p) < 2 * n) /\ (p.text => Top(p) < 2 * n + 1)
  BY <1>1
<1>3. 2 * n \in Nat /\ 2 * n + 1 \in Nat /\ 2 * n < 2 * n + 1
  OBVIOUS
<1>4. CASE quiet
  BY <1>2, <1>4 DEF Grows
<1>5. CASE ~quiet /\ speech
  <2>1. f = (e \o <<2 * n>>) \o <<2 * n + 1>>
    BY <1>5
  <2>2. \A s \in Seq(Nat), m \in Nat : s \o <<m>> = Append(s, m) /\ Append(s, m) \in Seq(Nat)
    OBVIOUS
  <2>3. f = Append(Append(e, 2 * n), 2 * n + 1)
    BY <1>3, <2>1, <2>2
  <2> DEFINE m == 2 * n  k == 2 * n + 1
  <2>4. /\ m \in Nat /\ k \in Nat /\ Top(p) < m /\ m < k /\ k <= Top(r) /\ Top(p) <= Top(r)
        /\ f = Append(Append(e, m), k)
    BY <1>1, <1>2, <1>3, <1>5, <2>3
  <2> HIDE DEF m, k
  <2> QED
    BY <2>4 DEF Grows
<1>6. CASE ~quiet /\ ~speech /\ p.text
  <2>1. f = (e \o <<>>) \o <<2 * n + 1>>
    BY <1>6
  <2>2. e \o <<>> = e /\ e \o <<2 * n + 1>> = Append(e, 2 * n + 1)
    BY ConcatEmptySeq
  <2>3. f = Append(e, 2 * n + 1)
    BY <2>1, <2>2
  <2> QED
    BY <1>1, <1>2, <1>3, <1>6, <2>3 DEF Grows
<1>7. CASE ~quiet /\ ~speech /\ ~p.text
  <2>1. f = (e \o <<>>) \o <<>>
    BY <1>7
  <2>2. f = e
    BY <2>1, ConcatEmptySeq
  <2> QED
    BY <1>2, <2>2 DEF Grows
<1> QED
  BY <1>1, <1>4, <1>5, <1>6, <1>7

LEMMA FinishStep ==
  ASSUME LiveInv, NEW k \in Speakers, Live!FinishShutdown(k)
  PROVE  LiveInv'
<1> DEFINE p == pipeline[k]
           rest == p.buf \o p.acc
           n == IF rest = <<>> THEN p.heard ELSE Live!Last(rest)
           at == IF joining.drop THEN "none" ELSE "over"
<1>1. p \in Pipelines /\ chunks[k] \in Nat /\ Placed(p, chunks[k]) /\ emits[k] \in Seq(Nat) /\ UNCHANGED <<dispatcher, box, sent, chunks>>
  BY DEF LiveInv, LiveTypeOK, Live!FinishShutdown
<1>2. /\ n \in Nat /\ p.heard <= n /\ (rest # <<>> => p.heard < n)
      /\ \A r \in Pipelines : /\ r.queue = p.queue /\ r.acc = <<>> /\ r.buf = <<>> /\ r.at \in {"over", "none"} /\ r.heard = n
                              /\ rest = <<>> => (r.whole => p.whole)
                              => Placed(r, chunks[k])
  BY <1>1, RestLeaves
<1>3. PICK speech \in BOOLEAN, fails \in BOOLEAN :
        /\ speech \/ fails => rest # <<>>
        /\ pipeline' = [pipeline EXCEPT ![k] = [Live!Flushed(p, n) EXCEPT !.at = at, !.whole = @ /\ ~fails]]
        /\ emits' = IF fails \/ p.at = "over" THEN emits
                    ELSE [emits EXCEPT ![k] = @ \o (IF speech THEN <<2 * n>> ELSE <<>>) \o (IF speech \/ p.text THEN <<2 * n + 1>> ELSE <<>>)]
  BY DEF Live!FinishShutdown, Live!Rest
<1> DEFINE r == [Live!Flushed(p, n) EXCEPT !.at = at, !.whole = @ /\ ~fails]
           quiet == fails \/ p.at = "over"
           f == IF quiet THEN emits[k] ELSE emits[k] \o (IF speech THEN <<2 * n>> ELSE <<>>) \o (IF speech \/ p.text THEN <<2 * n + 1>> ELSE <<>>)
<1>4. /\ r \in Pipelines /\ r.queue = p.queue /\ r.acc = <<>> /\ r.buf = <<>> /\ r.at = at /\ r.heard = n
      /\ ~r.text /\ (r.whole => p.whole)
  <2>1. <<>> \in Seq(Nat) /\ at \in {"over", "none"} /\ p.whole \in BOOLEAN
    BY <1>1 DEF Pipelines
  <2> DEFINE z == Live!Flushed(p, n)
  <2>2. /\ z \in Pipelines /\ z.queue = p.queue /\ z.acc = <<>> /\ z.buf = <<>> /\ z.heard = n /\ ~z.text /\ z.whole = p.whole
    <3> HIDE DEF n, p
    <3> QED
      BY <1>1, <1>2, <2>1 DEF Live!Flushed, Pipelines
  <2> DEFINE w == p.whole /\ ~fails
  <2>3. r = [z EXCEPT !.at = at, !.whole = w] /\ w \in BOOLEAN /\ (w => p.whole)
    <3>1. z.whole = p.whole
      BY <2>2
    <3>2. r = [z EXCEPT !.at = at, !.whole = z.whole /\ ~fails]
      <4> HIDE DEF at, n, p
      <4> QED
        BY <2>2 DEF Pipelines
    <3> HIDE DEF z
    <3> QED
      BY <3>1, <3>2, Zenon
  <2> HIDE DEF z, w, r, at, n
  <2> QED
    BY <2>1, <2>2, <2>3 DEF Pipelines
<1>5. pipeline' = [pipeline EXCEPT ![k] = r] /\ chunks' = [chunks EXCEPT ![k] = chunks[k]] /\ emits' = [emits EXCEPT ![k] = f]
  BY <1>1, <1>3 DEF LiveInv, LiveTypeOK
<1>6. speech => p.heard < n
  BY <1>2, <1>3
<1> HIDE DEF r, n, rest
<1>7. Placed(r, chunks[k])
  BY <1>2, <1>4
<1>8. Grows(emits[k], Top(p), f, Top(r))
  <2>1. quiet \in BOOLEAN
    OBVIOUS
  <2> HIDE DEF quiet
  <2> QED
    BY <1>1, <1>2, <1>4, <1>6, <2>1, FlushGrows
<1> HIDE DEF f
<1>9. /\ joining \in [clients : SUBSET Speakers, who : Sockets \cup {Nobody}, drop : BOOLEAN]
      /\ joining' \in [clients : SUBSET Speakers, who : Sockets \cup {Nobody}, drop : BOOLEAN] /\ joining'.who \in {joining.who, Nobody}
  BY DEF LiveInv, LiveTypeOK, Live!FinishShutdown, Live!NotJoining
<1>10. socket' \in [Sockets -> Handlers] /\ \A c \in Sockets : socket'[c].client = socket[c].client /\ (Met(c)' <=> Met(c))
  <2>1. CASE joining.who = Nobody
    BY <2>1 DEF LiveInv, LiveTypeOK, Live!FinishShutdown, Met
  <2>2. CASE joining.who # Nobody
    <3> DEFINE c == joining.who  x == [socket[c] EXCEPT !.at = "over"]
    <3>1. c \in Sockets /\ Met(c) /\ socket[c] \in Handlers /\ socket' = [socket EXCEPT ![c] = x]
      BY <1>9, <2>2 DEF LiveInv, LiveTypeOK, Routed, Live!FinishShutdown
    <3>2. x \in Handlers /\ x.client = socket[c].client /\ x.at # "new"
      BY <3>1 DEF Handlers
    <3> HIDE DEF x, c
    <3>3. socket' \in [Sockets -> Handlers] /\ socket'[c] = x /\ \A d \in Sockets \ {c} : socket'[d] = socket[d]
      BY <3>1, <3>2 DEF LiveInv, LiveTypeOK
    <3> QED
      BY <3>1, <3>2, <3>3 DEF Met
  <2> QED
    BY <2>1, <2>2
<1> QED
  BY <1>1, <1>4, <1>5, <1>7, <1>8, <1>9, <1>10, ClientStep

\* emit_result: the head goes into the dispatcher's queue, or nowhere.
LEMMA EmitStep ==
  ASSUME LiveInv, NEW k \in Speakers, Live!EmitResult(k)
  PROVE  LiveInv'
<1> DEFINE e == emits[k]  m == Head(e)  g == Tail(e)
<1>1. /\ e \in Seq(Nat) /\ e # <<>> /\ UNCHANGED <<socket, dispatcher, sent, pipeline, chunks, joining>> /\ emits' = [emits EXCEPT ![k] = g]
      /\ box' = IF Live!HasRoom(k) THEN [box EXCEPT ![dispatcher[k]] = Append(@, m)] ELSE box
  BY DEF Live!EmitResult, Live!Waiting, Live!socketVars, LiveInv, LiveTypeOK
<1>2. /\ m = e[1] /\ m \in Nat /\ g \in Seq(Nat) /\ Len(e) \in Nat \ {0} /\ Len(g) = Len(e) - 1
      /\ \A i \in 1..(Len(e) - 1) : g[i] = e[i + 1] /\ e[i + 1] \in Nat
  <2> HIDE DEF e
  <2> QED
    BY <1>1
<1>3. Spoken(e, Top(pipeline[k])) /\ Top(pipeline[k]) \in Nat
  BY DEF LiveInv, LiveTypeOK, Pipelines, Top
<1> HIDE DEF e, m, g
<1>4. /\ 0 < m /\ m <= Top(pipeline[k]) /\ \A i \in 1..Len(g) : m < g[i]
  <2>1. 1 \in 1..Len(e)
    BY <1>2
  <2>2. ASSUME NEW i \in 1..Len(g) PROVE m < g[i]
    <3>1. i + 1 \in 1..Len(e) /\ 1 \in 1..((i + 1) - 1) /\ g[i] = e[i + 1]
      BY <1>2
    <3> QED
      BY <1>2, <1>3, <3>1 DEF Spoken, Increasing
  <2> QED
    BY <1>2, <1>3, <2>1, <2>2 DEF Spoken
<1>5. Spoken(g, Top(pipeline[k]))
  <2>1. ASSUME NEW i \in 1..Len(g) PROVE 0 < g[i] /\ g[i] <= Top(pipeline[k])
    <3>1. i + 1 \in 1..Len(e) /\ g[i] = e[i + 1]
      BY <1>2
    <3> QED
      BY <1>3, <3>1 DEF Spoken
  <2>2. ASSUME NEW j \in 1..Len(g), NEW i \in 1..(j - 1) PROVE g[i] < g[j]
    <3>1. j + 1 \in 1..Len(e) /\ i + 1 \in 1..((j + 1) - 1) /\ i \in 1..(Len(e) - 1) /\ j \in 1..(Len(e) - 1)
      BY <1>2
    <3>2. e[i + 1] < e[j + 1] /\ g[i] = e[i + 1] /\ g[j] = e[j + 1]
      BY <1>2, <1>3, <3>1 DEF Spoken, Increasing
    <3> QED
      BY <3>2
  <2> QED
    BY <2>1, <2>2 DEF Spoken, Increasing
<1>6. ASSUME NEW x \in Nat, NEW b \in Seq(Nat), NEW t \in Nat, m <= t, Chain(x, b, e, t)
      PROVE  Chain(x, b, g, t) /\ Append(b, m) \in Seq(Nat) /\ Chain(x, Append(b, m), g, t)
  <2>1. /\ x <= t /\ Increasing(b) /\ \A i \in 1..Len(b) : b[i] \in Nat /\ x < b[i] /\ b[i] <= t /\ b[i] < m
        /\ x < m
    <3>1. 1 \in 1..Len(e)
      BY <1>2
    <3> QED
      BY <1>2, <1>6, <3>1 DEF Chain
  <2>2. ASSUME NEW j \in 1..Len(g) PROVE x < g[j] /\ \A i \in 1..Len(b) : b[i] < g[j]
    <3>1. j + 1 \in 1..Len(e) /\ g[j] = e[j + 1]
      BY <1>2
    <3> QED
      BY <1>6, <3>1 DEF Chain
  <2>3. Chain(x, b, g, t)
    BY <2>1, <2>2 DEF Chain
  <2> DEFINE a == Append(b, m)  l == Len(b)
  <2>4. /\ l \in Nat /\ a \in Seq(Nat) /\ Len(a) = l + 1 /\ a[l + 1] = m /\ \A i \in 1..l : a[i] = b[i]
        /\ \A i \in 1..(l + 1) : i \in 1..l \/ i = l + 1
    BY <1>2
  <2> HIDE DEF a
  <2>5. ASSUME NEW i \in 1..(l + 1) PROVE x < a[i] /\ a[i] <= t /\ \A j \in 1..Len(g) : a[i] < g[j]
    <3>1. CASE i \in 1..l
      BY <2>1, <2>2, <2>4, <3>1
    <3>2. CASE i = l + 1
      BY <1>4, <1>6, <2>1, <2>4, <3>2
    <3> QED
      BY <2>4, <3>1, <3>2
  <2>6. ASSUME NEW j \in 1..(l + 1), NEW i \in 1..(j - 1) PROVE a[i] < a[j]
    <3>1. i \in 1..l
      BY <2>4
    <3>2. CASE j \in 1..l
      BY <2>1, <2>4, <3>1, <3>2 DEF Increasing
    <3>3. CASE j = l + 1
      BY <2>1, <2>4, <3>1, <3>3
    <3> QED
      BY <2>4, <3>2, <3>3
  <2>7. Chain(x, a, g, t)
    BY <2>1, <2>2, <2>4, <2>5, <2>6 DEF Chain, Increasing
  <2> QED
    BY <2>3, <2>4, <2>7 DEF a
<1>7. /\ emits' \in [Speakers -> Seq(Nat)] /\ emits'[k] = g /\ \A j \in Speakers \ {k} : emits'[j] = emits[j]
  BY <1>1, <1>2 DEF LiveInv, LiveTypeOK
<1>8. \A c \in Sockets : \/ box'[c] = box[c]
                         \/ box'[c] = Append(box[c], m) /\ dispatcher[k] = c
  BY <1>1 DEF LiveInv, LiveTypeOK
<1>9. box' \in [Sockets -> Seq(Nat)]
  <2>1. ASSUME NEW c \in Sockets PROVE box[c] \in Seq(Nat) /\ Append(box[c], m) \in Seq(Nat)
    <3>1. box[c] \in Seq(Nat)
      BY DEF LiveInv, LiveTypeOK
    <3> QED
      BY <1>2, <3>1
  <2> QED
    BY <1>1, <2>1 DEF LiveInv, LiveTypeOK
<1>10. ASSUME NEW c \in Sockets, Met(c)' PROVE Chain(sent'[c], box'[c], emits'[socket'[c].client], Top(pipeline'[socket'[c].client]))
  <2> DEFINE j == socket[c].client
  <2>1. Met(c) /\ j \in Speakers /\ sent[c] \in Nat /\ box[c] \in Seq(Nat) /\ (dispatcher[k] = c => j = k)
    BY <1>1, <1>10, LiveAssumption DEF LiveInv, Routed, LiveTypeOK, Met
  <2>2. Chain(sent[c], box[c], emits[j], Top(pipeline[j]))
    BY <2>1 DEF LiveInv, Chained
  <2> HIDE DEF j
  <2>3. CASE j = k
    BY <1>3, <1>4, <1>6, <1>7, <1>8, <1>1, <2>1, <2>2, <2>3 DEF e, j
  <2>4. CASE j # k
    <3>1. box'[c] = box[c] /\ emits'[j] = emits[j]
      BY <1>7, <1>8, <2>1, <2>4
    <3> QED
      BY <1>1, <2>2, <3>1 DEF j
  <2> QED
    BY <2>3, <2>4
<1>11. ASSUME NEW j \in Speakers PROVE Placed(pipeline'[j], chunks'[j]) /\ Spoken(emits'[j], Top(pipeline'[j]))
  <2>1. CASE j = k
    BY <1>1, <1>5, <1>7, <2>1 DEF LiveInv
  <2>2. CASE j # k
    BY <1>1, <1>7, <2>2 DEF LiveInv
  <2> QED
    BY <2>1, <2>2
<1>12. Routed'
  <2>1. ASSUME NEW c \in Sockets, ~Met(c) PROVE box'[c] = box[c]
    BY <1>8, <2>1 DEF LiveInv, Routed
  <2> QED
    BY <1>1, <2>1 DEF LiveInv, Routed, Met
<1>13. \A c \in Sockets : Chained(c)'
  BY <1>10 DEF Chained
<1> QED
  BY <1>1, <1>7, <1>9, <1>11, <1>12, <1>13 DEF LiveInv, LiveTypeOK

\* The dispatcher sends its head, or forgets it.
LEMMA SendStep ==
  ASSUME LiveInv, NEW c \in Sockets, Live!Send(c)
  PROVE  LiveInv'
<1> DEFINE b == box[c]  g == Tail(b)
<1>1. /\ b \in Seq(Nat) /\ b # <<>> /\ sent[c] \in Nat /\ box' = [box EXCEPT ![c] = g]
      /\ UNCHANGED <<socket, dispatcher, pipeline, chunks, emits, joining>>
  BY DEF Live!Send, Live!socketVars, LiveInv, LiveTypeOK
<1>2. PICK v : sent' = [sent EXCEPT ![c] = v] /\ v \in {sent[c], Head(b)}
  BY DEF Live!Send, LiveInv, LiveTypeOK
<1>3. /\ Head(b) = b[1] /\ b[1] \in Nat /\ g \in Seq(Nat) /\ Len(b) \in Nat \ {0} /\ Len(g) = Len(b) - 1
      /\ \A i \in 1..(Len(b) - 1) : g[i] = b[i + 1] /\ b[i + 1] \in Nat
  <2> HIDE DEF b
  <2> QED
    BY <1>1
<1>4. Met(c)
  BY <1>1 DEF LiveInv, Routed
<1> DEFINE k == socket[c].client  e == emits[k]  t == Top(pipeline[k])
<1>5. Chain(sent[c], b, e, t) /\ k \in Speakers
  BY <1>4 DEF LiveInv, Chained, Routed
<1>6. e \in Seq(Nat) /\ t \in Nat
  BY <1>5 DEF LiveInv, LiveTypeOK, Pipelines, Top
<1> HIDE DEF b, g, k, e, t
<1>7. Chain(v, g, e, t) /\ v \in Nat
  <2>1. 1 \in 1..Len(b) /\ v \in {sent[c], b[1]} /\ v \in Nat
    BY <1>1, <1>2, <1>3
  <2>2. v <= t /\ \A j \in 1..Len(e) : v < e[j]
    BY <1>5, <2>1 DEF Chain
  <2>3. ASSUME NEW i \in 1..Len(g) PROVE v < g[i] /\ g[i] <= t /\ \A j \in 1..Len(e) : g[i] < e[j]
    <3>1. i + 1 \in 1..Len(b) /\ 1 \in 1..((i + 1) - 1) /\ g[i] = b[i + 1]
      BY <1>3
    <3>2. sent[c] < b[i + 1] /\ b[1] < b[i + 1] /\ b[i + 1] <= t /\ \A j \in 1..Len(e) : b[i + 1] < e[j]
      BY <1>5, <2>1, <3>1 DEF Chain, Increasing
    <3> QED
      BY <2>1, <3>1, <3>2
  <2>4. ASSUME NEW j \in 1..Len(g), NEW i \in 1..(j - 1) PROVE g[i] < g[j]
    <3>1. j + 1 \in 1..Len(b) /\ i + 1 \in 1..((j + 1) - 1) /\ i \in 1..(Len(b) - 1) /\ j \in 1..(Len(b) - 1)
      BY <1>3
    <3>2. b[i + 1] < b[j + 1] /\ g[i] = b[i + 1] /\ g[j] = b[j + 1]
      BY <1>3, <1>5, <3>1 DEF Chain, Increasing
    <3> QED
      BY <3>2
  <2> QED
    BY <2>1, <2>2, <2>3, <2>4 DEF Chain, Increasing
<1>8. /\ box' \in [Sockets -> Seq(Nat)] /\ sent' \in [Sockets -> Nat] /\ box'[c] = g /\ sent'[c] = v
      /\ \A d \in Sockets \ {c} : box'[d] = box[d] /\ sent'[d] = sent[d]
  BY <1>1, <1>2, <1>3, <1>7 DEF LiveInv, LiveTypeOK
<1>9. ASSUME NEW d \in Sockets, Met(d)' PROVE Chain(sent'[d], box'[d], emits'[socket'[d].client], Top(pipeline'[socket'[d].client]))
  <2>1. CASE d = c
    BY <1>1, <1>7, <1>8, <2>1 DEF e, t, k
  <2>2. CASE d # c
    BY <1>1, <1>8, <1>9, <2>2 DEF LiveInv, Chained, Met
  <2> QED
    BY <2>1, <2>2
<1>10. Routed'
  BY <1>1, <1>4, <1>8 DEF LiveInv, Routed, Met
<1>11. \A d \in Sockets : Chained(d)'
  BY <1>9 DEF Chained
<1> QED
  BY <1>1, <1>8, <1>10, <1>11 DEF LiveInv, LiveTypeOK

LEMMA LiveStep == LiveInv /\ [Live!Next]_Live!vars => LiveInv'
<1> SUFFICES ASSUME LiveInv, [Live!Next]_Live!vars PROVE LiveInv'
  OBVIOUS
<1>1. ASSUME NEW c \in Sockets, Live!Handler(c) PROVE LiveInv'
  BY <1>1, AcceptStep, HandlersKeep, SubmitStep DEF Live!Handler
<1>2. ASSUME NEW k \in Speakers, Live!Thread(k) \/ Live!Loop(k) PROVE LiveInv'
  BY <1>2, GetStep, RecogniseStep, MarkStep, ShutdownsBegin, FinishStep, EmitStep DEF Live!Thread, Live!Loop
<1>3. CASE UNCHANGED Live!vars
  BY <1>3 DEF Live!vars, Live!socketVars, LiveInv, LiveTypeOK, Routed, Met, Chained
<1> QED
  BY <1>1, <1>2, <1>3, SendStep, ShutdownsBegin DEF Live!Next

LEMMA LiveInvAlways == Live!Spec => []LiveInv
<1> QED
  BY LiveInit, LiveStep, PTL DEF Live!Spec

\* ClientInferencePipeline and ResultDispatcher: for any number of clients, connections,
\* chunks and failures, what a connection was sent and what waits for it is in the order
\* of the audio, each result once.
THEOREM ResultsInOrderAlways == Live!Spec => []ResultsInOrder
<1>1. LiveInv => ResultsInOrder
  <2> SUFFICES ASSUME LiveInv, NEW c \in Sockets
               PROVE  \A j \in 1..Len(box[c]) : sent[c] < box[c][j] /\ \A i \in 1..(j - 1) : box[c][i] < box[c][j]
    BY DEF ResultsInOrder
  <2>1. CASE Met(c)
    BY <2>1 DEF LiveInv, Chained, Chain, Increasing
  <2>2. CASE ~Met(c)
    <3>1. box[c] = <<>>
      BY <2>2 DEF LiveInv, Routed
    <3> QED
      BY <3>1
  <2> QED
    BY <2>1, <2>2
<1> QED
  BY <1>1, LiveInvAlways, PTL

\* shutdown: for any sizes of queue, batch and block, a pipeline that is shut down has
\* recognised all it took, the last short block included, unless the model failed.
THEOREM TailIsHeardAlways == Live!Spec => []TailIsHeard
<1>1. LiveInv => TailIsHeard
  <2> SUFFICES ASSUME LiveInv, NEW k \in Speakers, pipeline[k].at \in {"over", "none"}, pipeline[k].whole
               PROVE  pipeline[k].heard + Len(pipeline[k].queue) = chunks[k] /\ pipeline[k].acc \o pipeline[k].buf = <<>>
    BY DEF TailIsHeard
  <2> DEFINE h == pipeline[k].heard  q == Len(pipeline[k].queue)  n == chunks[k]
  <2>1. h \in Nat /\ q \in Nat /\ n \in Nat /\ Placed(pipeline[k], n)
    BY DEF LiveInv, LiveTypeOK, Pipelines
  <2>2. pipeline[k].acc = <<>> /\ pipeline[k].buf = <<>> /\ h = ((n - q) - Len(pipeline[k].acc)) - Len(pipeline[k].buf)
    BY <2>1 DEF Placed
  <2>3. h = ((n - q) - 0) - 0
    BY <2>2
  <2> HIDE DEF h, q, n
  <2>4. h + q = n
    BY <2>1, <2>3
  <2> QED
    BY <2>2, <2>4 DEF h, q, n
<1> QED
  BY <1>1, LiveInvAlways, PTL
================================================================================
