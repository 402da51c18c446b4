-------------------------- MODULE RoomLifecycleProofs --------------------------
(***************************************************************************)
(* What TLAPS proves of RoomLifecycle for every set of rooms and tracks,   *)
(* any number of deliveries and crashes and every choice of faults.        *)
(***************************************************************************)
EXTENDS RoomLifecycle, TLAPS

--------------------------------------------------------------------------------
(* Calls and where they can be *)

\* A call about a track names a track, a call about a room names a room.
LEMMA CallFacts ==
    /\ \A c \in Calls : /\ Op(c) \in TrackOps \cup RoomOps
                        /\ Op(c) \in TrackOps => On(c) \in Tracks /\ RoomOf[On(c)] \in Rooms
                        /\ Op(c) \in RoomOps => On(c) \in Rooms
    /\ \A c \in Calls : Op(c) = "unregister" => Background(c) \in Calls
    /\ \A c : Op(Background(c)) = "final"
<1>1. ASSUME NEW ops, NEW ids, NEW c \in Deliveries(ops, ids)
      PROVE  /\ Op(c) \in ops /\ On(c) \in ids /\ c = <<Op(c), On(c), c[3]>>
             /\ c[3] \in 1..Copies[Op(c)]
  BY <1>1 DEF Deliveries, Op, On
<1>2. ASSUME NEW c \in Calls, Op(c) = "unregister" PROVE Background(c) \in Calls
  <2>1. c \in Deliveries(RoomOps, Rooms)
    BY <1>1, <1>2 DEF Calls, TrackOps
  <2>2. On(c) \in Rooms /\ c[3] \in 1..Copies["unregister"]
    BY <1>1, <1>2, <2>1
  <2>3. Background(c) \in Deliveries({"final"}, Rooms)
    BY <2>2, CopiesAssumption DEF Deliveries, Background
  <2>4. Background(c) \in Deliveries(RoomOps, Rooms)
    BY <2>3 DEF Deliveries, RoomOps
  <2> QED
    BY <2>4 DEF Calls
<1>3. \A c : Op(Background(c)) = "final"
  BY DEF Background, Op
<1>4. \A c \in Calls : c \in Deliveries(TrackOps, Tracks) \/ c \in Deliveries(RoomOps, Rooms)
  BY DEF Calls
<1>5. TrackOps \cap RoomOps = {}
  BY DEF TrackOps, RoomOps
<1> QED
  BY <1>1, <1>2, <1>3, <1>4, <1>5, TracksAssumption

TrackPcs == {"resolve", "insert", "load", "write", "stt", "derive", "mark", "ack"}
RoomPcs  == {"current", "create", "overwrite", "delete"}
GatePcs  == {"final", "notify", "push", "count", "complete", "summary"}

\* A call is only at the steps of its own handler; a registration that evaluates the
\* gates of a superseded room has found one.
WhereInv ==
    \A c \in Calls :
        /\ pc[c] \in TrackPcs => Op(c) \in TrackOps
        /\ pc[c] = "resolve" => Op(c) \in {"started", "completed", "failed"}
        /\ pc[c] \in {"load", "write"} => Op(c) \in {"completed", "failed", "derived"}
        /\ pc[c] \in RoomPcs => Op(c) \in RoomOps
        /\ pc[c] \in GatePcs /\ Op(c) = "register" => current[c] \in Rooms

\* A row that was loaded exists: rows are never deleted.
ReadInv ==
    \A c \in Calls :
        /\ read[c] # NoRow => Op(c) \in TrackOps /\ track[On(c)] # NoRow
        /\ pc[c] = "write" /\ Op(c) = "derived" => read[c] # NoRow

TypeInv == TypeOK /\ WhereInv /\ ReadInv

\* Where a call may be sent next.
MayBeAt(c, l) ==
    /\ l \in Pcs
    /\ l \in TrackPcs => Op(c) \in TrackOps
    /\ l = "resolve" => Op(c) \in {"started", "completed", "failed"}
    /\ l \in {"load", "write"} => Op(c) \in {"completed", "failed", "derived"}
    /\ l \in RoomPcs => Op(c) \in RoomOps
    /\ l \in GatePcs /\ Op(c) = "register" => current[c] \in Rooms

\* A step that only moves one call keeps every call where it may be.
LEMMA ThenWhere ==
    ASSUME TypeOK, WhereInv, NEW c \in Calls, NEW l, Then(c, l), MayBeAt(c, l),
           current' = current
    PROVE  pc' \in [Calls -> Pcs] /\ WhereInv'
  BY DEF TypeOK, WhereInv, Then, MayBeAt

\* A call at one of its gates evaluates them for a room.
LEMMA GateRoom ==
    ASSUME TypeOK, WhereInv, NEW c \in Calls, pc[c] \in GatePcs
    PROVE  Room(c) \in Rooms
  BY CallFacts DEF WhereInv, Room, TrackOps, RoomOps

\* What is next after the shared steps.
LEMMA NextFacts ==
    ASSUME TypeOK, WhereInv, NEW c \in Calls
    PROVE  /\ MayBeAt(c, "idle") /\ MayBeAt(c, "done") /\ MayBeAt(c, "error")
           /\ MayBeAt(c, AfterComplete(c))
           /\ pc[c] \in GatePcs => /\ MayBeAt(c, AfterNotify(c))
                                  /\ \A l \in GatePcs : MayBeAt(c, l)
           /\ Op(c) \in TrackOps => /\ MayBeAt(c, AfterMark(c)) /\ MayBeAt(c, AfterWrite(c))
                                    /\ \A l \in TrackPcs \ {"resolve", "load", "write"} : MayBeAt(c, l)
           /\ Op(c) \in {"started", "completed", "failed"} => MayBeAt(c, "resolve")
           /\ Op(c) \in {"completed", "failed", "derived"} => MayBeAt(c, "load") /\ MayBeAt(c, "write")
           /\ Op(c) \in RoomOps => \A l \in RoomPcs : MayBeAt(c, l)
           /\ MayBeAt(c, Entry(c))
<1>1. MayBeAt(c, "idle") /\ MayBeAt(c, "done") /\ MayBeAt(c, "error")
  BY DEF MayBeAt, Pcs, TrackPcs, RoomPcs, GatePcs
<1>2. MayBeAt(c, AfterComplete(c))
  BY CallFacts DEF AfterComplete, MayBeAt, Pcs, TrackPcs, RoomPcs, GatePcs, TrackOps, RoomOps
<1>3. pc[c] \in GatePcs => MayBeAt(c, AfterNotify(c)) /\ \A l \in GatePcs : MayBeAt(c, l)
  BY <1>1 DEF WhereInv, AfterNotify, MayBeAt, Pcs, TrackPcs, RoomPcs, GatePcs
<1>4. /\ Op(c) \in TrackOps => \A l \in (TrackPcs \ {"resolve", "load", "write"}) \cup GatePcs : MayBeAt(c, l)
      /\ Op(c) \in {"started", "completed", "failed"} => MayBeAt(c, "resolve")
      /\ Op(c) \in {"completed", "failed", "derived"} => MayBeAt(c, "load") /\ MayBeAt(c, "write")
  BY DEF MayBeAt, Pcs, TrackPcs, RoomPcs, GatePcs, TrackOps
<1>5. Op(c) \in TrackOps => MayBeAt(c, AfterMark(c)) /\ MayBeAt(c, AfterWrite(c))
  BY <1>4 DEF AfterMark, AfterWrite, TrackPcs, GatePcs
<1>6. Op(c) \in RoomOps => \A l \in RoomPcs : MayBeAt(c, l)
  BY DEF MayBeAt, Pcs, TrackPcs, RoomPcs, GatePcs
<1>7. MayBeAt(c, Entry(c))
  BY <1>4, <1>6, CallFacts DEF Entry, TrackPcs, RoomPcs, TrackOps, RoomOps
<1> QED
  BY <1>1, <1>2, <1>3, <1>4, <1>5, <1>6, <1>7

\* No shared step leads straight to a write, a push or a summary.
LEMMA NotWrite ==
    \A c \in Calls :
        {"write", "push", "summary"} \cap
            {AfterComplete(c), AfterNotify(c), AfterMark(c), AfterWrite(c), Entry(c)} = {}
  BY CallFacts DEF AfterComplete, AfterNotify, AfterMark, AfterWrite, Entry

\* Only a load sends a call to the write of a row, and rows stay.
LEMMA ReadKept ==
    ASSUME TypeOK, ReadInv, NEW c \in Calls, NEW l, Then(c, l), l # "write", read' = read,
           \A t \in Tracks : track'[t] = NoRow => track[t] = NoRow
    PROVE  ReadInv'
  BY CallFacts DEF TypeOK, ReadInv, Then

\* A row has two columns or does not exist; what the handlers make of one is a row.
LEMMA RowFacts ==
    /\ \A x \in Rows : x # NoRow <=> x.stt \in Stts /\ x.der \in Ders
    /\ \A s \in Stts, d \in Ders : [stt |-> s, der |-> d] \in Rows \ {NoRow}
    /\ \A x \in Rows, s \in Stts : x # NoRow => [x EXCEPT !.stt = s] \in Rows \ {NoRow}
    /\ NoRow \in Rows /\ {"completed", "failed"} \subseteq Stts
    /\ "pending" \in Stts \cap Ders /\ "wait_process" \in Stts /\ {"completed", "failed"} \subseteq Ders
  BY DEF Rows, NoRow, Stts, Ders

\* No handler deletes a row or leaves it half written.
LEMMA RowsStay ==
    ASSUME TypeInv, NEW c \in Calls, CreateTrackPlaceholder(c) \/ MarkTrack(c) \/ WriteTrack(c)
    PROVE  /\ track' \in [Tracks -> Rows]
           /\ \A t \in Tracks : track'[t] = NoRow => track[t] = NoRow
<1>1. ASSUME CreateTrackPlaceholder(c)
      PROVE  /\ track' \in [Tracks -> Rows]
             /\ \A t \in Tracks : track'[t] = NoRow => track[t] = NoRow
  BY <1>1, RowFacts DEF CreateTrackPlaceholder, Placeholder, TypeInv, TypeOK
<1>2. ASSUME MarkTrack(c)
      PROVE  /\ track' \in [Tracks -> Rows]
             /\ \A t \in Tracks : track'[t] = NoRow => track[t] = NoRow
  BY <1>2, RowFacts DEF MarkTrack, TypeInv, TypeOK
<1>3. ASSUME WriteTrack(c)
      PROVE  /\ track' \in [Tracks -> Rows]
             /\ \A t \in Tracks : track'[t] = NoRow => track[t] = NoRow
  <2>0. On(c) \in Tracks /\ Op(c) \in TrackOps
    BY <1>3, CallFacts DEF WriteTrack, TypeInv, WhereInv, TrackPcs
  <2> DEFINE new == CASE Op(c) = "completed" -> [stt |-> "wait_process", der |-> "pending"]
                      [] Op(c) = "failed" -> [stt |-> "failed", der |-> "failed"]
                      [] OTHER -> [stt |-> read[c].stt, der |-> outcome[c]]
  <2>1. CASE read[c] = NoRow
    <3>1. new \in Rows \ {NoRow}
      BY <1>3, <2>1, <2>0, RowFacts DEF WriteTrack, TypeInv, TypeOK, ReadInv, WhereInv
    <3> QED
      BY <1>3, <2>1, <3>1 DEF WriteTrack, TypeInv, TypeOK
  <2>2. CASE read[c] # NoRow
    <3>1. new \in Rows \ {NoRow} /\ track[On(c)] \in Rows \ {NoRow} /\ read[c] \in Rows \ {NoRow}
      BY <1>3, <2>2, <2>0, RowFacts DEF TypeInv, TypeOK, ReadInv
    <3> DEFINE row == [stt |-> Written(read[c].stt, track[On(c)].stt, new.stt),
                       der |-> Written(read[c].der, track[On(c)].der, new.der)]
    <3>2. row \in Rows \ {NoRow}
      BY <3>1, RowFacts DEF Written
    <3>3. track' = track \/ track' = [track EXCEPT ![On(c)] = row]
      BY <1>3, <2>2 DEF WriteTrack
    <3> QED
      BY <3>2, <3>3 DEF TypeInv, TypeOK
  <2> QED
    BY <2>1, <2>2
<1> QED
  BY <1>1, <1>2, <1>3

\* Every step keeps the types; rows, once written, stay.
LEMMA TypeStep ==
    ASSUME TypeInv, [Next]_vars
    PROVE  TypeInv'
<1> USE DEF roomVars, envVars, tallies
<1>1. ASSUME NEW t \in Tracks, BeginTrack(t) PROVE TypeInv'
  BY <1>1 DEF TypeInv, TypeOK, WhereInv, ReadInv, BeginTrack
<1>2. ASSUME NEW t \in Tracks, EndTrack(t) PROVE TypeInv'
  BY <1>2 DEF TypeInv, TypeOK, WhereInv, ReadInv, EndTrack
<1>3. ASSUME NEW t \in Tracks, Transcribe(t) PROVE TypeInv'
  BY <1>3 DEF TypeInv, TypeOK, WhereInv, ReadInv, Transcribe
<1>4. ASSUME NEW t \in Tracks, EndSpeech(t) PROVE TypeInv'
  BY <1>4 DEF TypeInv, TypeOK, WhereInv, ReadInv, EndSpeech
<1>5. ASSUME NEW t \in Tracks, Transcode(t) PROVE TypeInv'
  BY <1>5 DEF TypeInv, TypeOK, WhereInv, ReadInv, Transcode
<1>6. ASSUME NEW c \in Calls, Deliver(c) PROVE TypeInv'
  <2>1. PICK l \in {Entry(c)} : Then(c, l)
    BY <1>6 DEF Deliver, Then
  <2>2. MayBeAt(c, l)
    BY <1>6, <2>1, NextFacts DEF TypeInv, WhereInv, Deliver, TrackPcs, RoomPcs, GatePcs
  <2>3. pc' \in [Calls -> Pcs] /\ WhereInv'
    BY <1>6, <2>1, <2>2, ThenWhere DEF TypeInv, Deliver
  <2>a. Carried(c) \in {"completed", "failed"}
    BY <1>6, CallFacts DEF Deliver, Due, Carried, TypeInv, TypeOK, TrackOps, RoomOps
  <2>4. TypeOK'
    BY <1>6, <2>3, <2>a DEF TypeInv, TypeOK, WhereInv, Deliver
  <2>5. ReadInv'
    BY <1>6, <2>1, ReadKept, NotWrite DEF TypeInv, Deliver
  <2> QED
    BY <2>3, <2>4, <2>5 DEF TypeInv
<1>7. ASSUME NEW c \in Calls, Resolve(c) PROVE TypeInv'
  <2>1. PICK l \in {"done", IF Op(c) = "started" THEN "insert" ELSE "load"} : Then(c, l)
    BY <1>7 DEF Resolve, Then
  <2>2. MayBeAt(c, l)
    BY <1>7, <2>1, NextFacts DEF TypeInv, WhereInv, Resolve, TrackPcs, RoomPcs, GatePcs
  <2>3. pc' \in [Calls -> Pcs] /\ WhereInv'
    BY <1>7, <2>1, <2>2, ThenWhere DEF TypeInv, Resolve
  <2>4. TypeOK'
    BY <1>7, <2>3 DEF TypeInv, TypeOK, WhereInv, Resolve
  <2>5. ReadInv'
    BY <1>7, <2>1, ReadKept, NotWrite DEF TypeInv, Resolve
  <2> QED
    BY <2>3, <2>4, <2>5 DEF TypeInv
<1>8. ASSUME NEW c \in Calls, CreateTrackPlaceholder(c) PROVE TypeInv'
  <2>1. PICK l \in {"done"} : Then(c, l)
    BY <1>8 DEF CreateTrackPlaceholder, Then
  <2>2. MayBeAt(c, l)
    BY <1>8, <2>1, NextFacts DEF TypeInv, WhereInv, CreateTrackPlaceholder, TrackPcs, RoomPcs,
       GatePcs
  <2>3. pc' \in [Calls -> Pcs] /\ WhereInv'
    BY <1>8, <2>1, <2>2, ThenWhere DEF TypeInv, CreateTrackPlaceholder
  <2>a. /\ track' \in [Tracks -> Rows]
        /\ \A t \in Tracks : track'[t] = NoRow => track[t] = NoRow
    BY <1>8, RowsStay
  <2>4. TypeOK'
    BY <1>8, <2>3, <2>a DEF TypeInv, TypeOK, WhereInv, CreateTrackPlaceholder
  <2>5. ReadInv'
    BY <1>8, <2>1, <2>a, ReadKept, NotWrite DEF TypeInv, CreateTrackPlaceholder
  <2> QED
    BY <2>3, <2>4, <2>5 DEF TypeInv
<1>9. ASSUME NEW c \in Calls, LoadTrack(c) PROVE TypeInv'
  <2>1. PICK l \in {"done", "write"} : Then(c, l)
    BY <1>9 DEF LoadTrack, Then
  <2>2. MayBeAt(c, l)
    BY <1>9, <2>1, NextFacts DEF TypeInv, WhereInv, LoadTrack, TrackPcs, RoomPcs, GatePcs
  <2>3. pc' \in [Calls -> Pcs] /\ WhereInv'
    BY <1>9, <2>1, <2>2, ThenWhere DEF TypeInv, LoadTrack
  <2>4. TypeOK'
    BY <1>9, <2>3, CallFacts DEF TypeInv, TypeOK, WhereInv, LoadTrack, TrackPcs
  <2>5. ReadInv'
    BY <1>9, <2>1, CallFacts DEF TypeInv, TypeOK, WhereInv, ReadInv, TrackPcs, Then, LoadTrack
  <2> QED
    BY <2>3, <2>4, <2>5 DEF TypeInv
<1>10. ASSUME NEW c \in Calls, WriteTrack(c) PROVE TypeInv'
  <2>1. PICK l \in {AfterWrite(c)} : Then(c, l)
    BY <1>10 DEF WriteTrack, Then
  <2>2. MayBeAt(c, l)
    BY <1>10, <2>1, NextFacts DEF TypeInv, WhereInv, WriteTrack, TrackPcs, RoomPcs, GatePcs
  <2>3. pc' \in [Calls -> Pcs] /\ WhereInv'
    BY <1>10, <2>1, <2>2, ThenWhere DEF TypeInv, WriteTrack
  <2>a. /\ track' \in [Tracks -> Rows]
        /\ \A t \in Tracks : track'[t] = NoRow => track[t] = NoRow
    BY <1>10, RowsStay
  <2>4. TypeOK'
    BY <1>10, <2>3, <2>a, RowFacts DEF TypeInv, TypeOK, WhereInv, WriteTrack
  <2>5. ReadInv'
    <3>1. AfterWrite(c) # "write"
      BY NotWrite
    <3>2. read' = [read EXCEPT ![c] = NoRow]
      BY <1>10 DEF WriteTrack
    <3>3. read'[c] = NoRow /\ \A d \in Calls : d # c => read'[d] = read[d]
      BY <3>2 DEF TypeInv, TypeOK
    <3>4. pc'[c] # "write" /\ \A d \in Calls : d # c => pc'[d] = pc[d]
      BY <2>1, <3>1 DEF Then, TypeInv, TypeOK
    <3> QED
      BY <2>a, <3>3, <3>4, CallFacts DEF TypeInv, ReadInv
  <2> QED
    BY <2>3, <2>4, <2>5 DEF TypeInv
<1>11. ASSUME NEW c \in Calls, EnqueueTranscription(c) PROVE TypeInv'
  <2>1. PICK l \in {"derive"} : Then(c, l)
    BY <1>11 DEF EnqueueTranscription, Then, Enqueue
  <2>2. MayBeAt(c, l)
    BY <1>11, <2>1, NextFacts DEF TypeInv, WhereInv, EnqueueTranscription, TrackPcs, RoomPcs,
       GatePcs, Enqueue
  <2>3. pc' \in [Calls -> Pcs] /\ WhereInv'
    BY <1>11, <2>1, <2>2, ThenWhere DEF TypeInv, EnqueueTranscription, Enqueue
  <2>4. TypeOK'
    BY <1>11, <2>3, CallFacts DEF TypeInv, TypeOK, WhereInv, EnqueueTranscription, Enqueue,
       TrackPcs
  <2>5. ReadInv'
    BY <1>11, <2>1, ReadKept, NotWrite DEF TypeInv, EnqueueTranscription, Enqueue
  <2> QED
    BY <2>3, <2>4, <2>5 DEF TypeInv
<1>12. ASSUME NEW c \in Calls, EnqueueDerivative(c) PROVE TypeInv'
  <2>1. PICK l \in {"done"} : Then(c, l)
    BY <1>12 DEF EnqueueDerivative, Then, Enqueue
  <2>2. MayBeAt(c, l)
    BY <1>12, <2>1, NextFacts DEF TypeInv, WhereInv, EnqueueDerivative, TrackPcs, RoomPcs,
       GatePcs, Enqueue
  <2>3. pc' \in [Calls -> Pcs] /\ WhereInv'
    BY <1>12, <2>1, <2>2, ThenWhere DEF TypeInv, EnqueueDerivative, Enqueue
  <2>4. TypeOK'
    BY <1>12, <2>3, CallFacts DEF TypeInv, TypeOK, WhereInv, EnqueueDerivative, Enqueue,
       TrackPcs
  <2>5. ReadInv'
    BY <1>12, <2>1, ReadKept, NotWrite DEF TypeInv, EnqueueDerivative, Enqueue
  <2> QED
    BY <2>3, <2>4, <2>5 DEF TypeInv
<1>13. ASSUME NEW c \in Calls, CheckAndNotify(c) PROVE TypeInv'
  <2>1. PICK l \in {"push", AfterNotify(c)} : Then(c, l)
    BY <1>13 DEF CheckAndNotify, Then
  <2>2. MayBeAt(c, l)
    BY <1>13, <2>1, NextFacts DEF TypeInv, WhereInv, CheckAndNotify, TrackPcs, RoomPcs, GatePcs
  <2>3. pc' \in [Calls -> Pcs] /\ WhereInv'
    BY <1>13, <2>1, <2>2, ThenWhere DEF TypeInv, CheckAndNotify
  <2>4. TypeOK'
    BY <1>13, <2>3 DEF TypeInv, TypeOK, WhereInv, CheckAndNotify
  <2>5. ReadInv'
    BY <1>13, <2>1, ReadKept, NotWrite DEF TypeInv, CheckAndNotify
  <2> QED
    BY <2>3, <2>4, <2>5 DEF TypeInv
<1>14. ASSUME NEW c \in Calls, PushRoomRecordDone(c) PROVE TypeInv'
  <2>1. PICK l \in {AfterNotify(c)} : Then(c, l)
    BY <1>14 DEF PushRoomRecordDone, Then
  <2>2. MayBeAt(c, l)
    BY <1>14, <2>1, NextFacts DEF TypeInv, WhereInv, PushRoomRecordDone, TrackPcs, RoomPcs,
       GatePcs
  <2>3. pc' \in [Calls -> Pcs] /\ WhereInv'
    BY <1>14, <2>1, <2>2, ThenWhere DEF TypeInv, PushRoomRecordDone
  <2>a. pushed' \in [Rooms -> Nat]
    BY <1>14, GateRoom DEF PushRoomRecordDone, TypeInv, TypeOK, GatePcs
  <2>4. TypeOK'
    BY <1>14, <2>3, <2>a DEF TypeInv, TypeOK, WhereInv, PushRoomRecordDone
  <2>5. ReadInv'
    BY <1>14, <2>1, ReadKept, NotWrite DEF TypeInv, PushRoomRecordDone
  <2> QED
    BY <2>3, <2>4, <2>5 DEF TypeInv
<1>15. ASSUME NEW c \in Calls, CountUnfinished(c) PROVE TypeInv'
  <2>1. PICK l \in {"complete", AfterComplete(c)} : Then(c, l)
    BY <1>15 DEF CountUnfinished, Then
  <2>2. MayBeAt(c, l)
    BY <1>15, <2>1, NextFacts DEF TypeInv, WhereInv, CountUnfinished, TrackPcs, RoomPcs, GatePcs
  <2>3. pc' \in [Calls -> Pcs] /\ WhereInv'
    BY <1>15, <2>1, <2>2, ThenWhere DEF TypeInv, CountUnfinished
  <2>4. TypeOK'
    BY <1>15, <2>3 DEF TypeInv, TypeOK, WhereInv, CountUnfinished
  <2>5. ReadInv'
    BY <1>15, <2>1, ReadKept, NotWrite DEF TypeInv, CountUnfinished
  <2> QED
    BY <2>3, <2>4, <2>5 DEF TypeInv
<1>16. ASSUME NEW c \in Calls, CompleteRoom(c) PROVE TypeInv'
  <2>1. PICK l \in {"summary", AfterComplete(c)} : Then(c, l)
    BY <1>16 DEF CompleteRoom, Then
  <2>2. MayBeAt(c, l)
    BY <1>16, <2>1, NextFacts DEF TypeInv, WhereInv, CompleteRoom, TrackPcs, RoomPcs, GatePcs
  <2>3. pc' \in [Calls -> Pcs] /\ WhereInv'
    BY <1>16, <2>1, <2>2, ThenWhere DEF TypeInv, CompleteRoom
  <2>4. TypeOK'
    BY <1>16, <2>3 DEF TypeInv, TypeOK, WhereInv, CompleteRoom
  <2>5. ReadInv'
    BY <1>16, <2>1, ReadKept, NotWrite DEF TypeInv, CompleteRoom
  <2> QED
    BY <2>3, <2>4, <2>5 DEF TypeInv
<1>17. ASSUME NEW c \in Calls, GenerateSummary(c) PROVE TypeInv'
  <2>1. PICK l \in {AfterComplete(c)} : Then(c, l)
    BY <1>17 DEF GenerateSummary, Then
  <2>2. MayBeAt(c, l)
    BY <1>17, <2>1, NextFacts DEF TypeInv, WhereInv, GenerateSummary, TrackPcs, RoomPcs, GatePcs
  <2>3. pc' \in [Calls -> Pcs] /\ WhereInv'
    BY <1>17, <2>1, <2>2, ThenWhere DEF TypeInv, GenerateSummary
  <2>a. summaries' \in [Rooms -> Nat]
    BY <1>17, GateRoom DEF GenerateSummary, TypeInv, TypeOK, GatePcs
  <2>4. TypeOK'
    BY <1>17, <2>3, <2>a DEF TypeInv, TypeOK, WhereInv, GenerateSummary
  <2>5. ReadInv'
    BY <1>17, <2>1, ReadKept, NotWrite DEF TypeInv, GenerateSummary
  <2> QED
    BY <2>3, <2>4, <2>5 DEF TypeInv
<1>18. ASSUME NEW c \in Calls, MarkTrack(c) PROVE TypeInv'
  <2>1. PICK l \in {AfterMark(c), "done", "ack", "idle"} : Then(c, l)
    BY <1>18 DEF MarkTrack, Then
  <2>2. MayBeAt(c, l)
    BY <1>18, <2>1, NextFacts DEF TypeInv, WhereInv, MarkTrack, TrackPcs, RoomPcs, GatePcs
  <2>3. pc' \in [Calls -> Pcs] /\ WhereInv'
    BY <1>18, <2>1, <2>2, ThenWhere DEF TypeInv, MarkTrack
  <2>a. /\ track' \in [Tracks -> Rows]
        /\ \A t \in Tracks : track'[t] = NoRow => track[t] = NoRow
    BY <1>18, RowsStay
  <2>4. TypeOK'
    BY <1>18, <2>3, <2>a DEF TypeInv, TypeOK, WhereInv, MarkTrack
  <2>5. ReadInv'
    BY <1>18, <2>1, <2>a, ReadKept, NotWrite DEF TypeInv, MarkTrack
  <2> QED
    BY <2>3, <2>4, <2>5 DEF TypeInv
<1>19. ASSUME NEW c \in Calls, Acknowledge(c) PROVE TypeInv'
  <2>1. PICK l \in {"done"} : Then(c, l)
    BY <1>19 DEF Acknowledge, Then
  <2>2. MayBeAt(c, l)
    BY <1>19, <2>1, NextFacts DEF TypeInv, WhereInv, Acknowledge, TrackPcs, RoomPcs, GatePcs
  <2>3. pc' \in [Calls -> Pcs] /\ WhereInv'
    BY <1>19, <2>1, <2>2, ThenWhere DEF TypeInv, Acknowledge
  <2>4. TypeOK'
    BY <1>19, <2>3 DEF TypeInv, TypeOK, WhereInv, Acknowledge
  <2>5. ReadInv'
    BY <1>19, <2>1, ReadKept, NotWrite DEF TypeInv, Acknowledge
  <2> QED
    BY <2>3, <2>4, <2>5 DEF TypeInv
<1>20. ASSUME NEW c \in Calls, FinalRoomStatus(c) PROVE TypeInv'
  <2>1. PICK l \in {"notify", AfterComplete(c)} : Then(c, l)
    BY <1>20 DEF FinalRoomStatus, Then
  <2>2. MayBeAt(c, l)
    BY <1>20, <2>1, NextFacts DEF TypeInv, WhereInv, FinalRoomStatus, TrackPcs, RoomPcs, GatePcs
  <2>3. pc' \in [Calls -> Pcs] /\ WhereInv'
    BY <1>20, <2>1, <2>2, ThenWhere DEF TypeInv, FinalRoomStatus
  <2>4. TypeOK'
    BY <1>20, <2>3 DEF TypeInv, TypeOK, WhereInv, FinalRoomStatus
  <2>5. ReadInv'
    BY <1>20, <2>1, ReadKept, NotWrite DEF TypeInv, FinalRoomStatus
  <2> QED
    BY <2>3, <2>4, <2>5 DEF TypeInv
<1>21. ASSUME NEW c \in Calls, CreateRoom(c) PROVE TypeInv'
  <2>1. PICK l \in {"overwrite", "error"} : Then(c, l)
    BY <1>21 DEF CreateRoom, Then
  <2>2. MayBeAt(c, l)
    BY <1>21, <2>1, NextFacts DEF TypeInv, WhereInv, CreateRoom, TrackPcs, RoomPcs, GatePcs
  <2>3. pc' \in [Calls -> Pcs] /\ WhereInv'
    BY <1>21, <2>1, <2>2, ThenWhere DEF TypeInv, CreateRoom
  <2>4. TypeOK'
    BY <1>21, <2>3 DEF TypeInv, TypeOK, WhereInv, CreateRoom
  <2>5. ReadInv'
    BY <1>21, <2>1, ReadKept, NotWrite DEF TypeInv, CreateRoom
  <2> QED
    BY <2>3, <2>4, <2>5 DEF TypeInv
<1>22. ASSUME NEW c \in Calls, OverwriteRegistry(c) PROVE TypeInv'
  <2>1. PICK l \in {"done"} : Then(c, l)
    BY <1>22 DEF OverwriteRegistry, Then
  <2>2. MayBeAt(c, l)
    BY <1>22, <2>1, NextFacts DEF TypeInv, WhereInv, OverwriteRegistry, TrackPcs, RoomPcs,
       GatePcs
  <2>3. pc' \in [Calls -> Pcs] /\ WhereInv'
    BY <1>22, <2>1, <2>2, ThenWhere DEF TypeInv, OverwriteRegistry
  <2>4. TypeOK'
    BY <1>22, <2>3, CallFacts DEF TypeInv, TypeOK, WhereInv, OverwriteRegistry, RoomPcs
  <2>5. ReadInv'
    BY <1>22, <2>1, ReadKept DEF TypeInv, OverwriteRegistry
  <2> QED
    BY <2>3, <2>4, <2>5 DEF TypeInv
<1>23. ASSUME NEW c \in Calls, RegisterLooksUp(c) PROVE TypeInv'
  <2>1. TypeOK'
    BY <1>23, CallFacts DEF TypeInv, TypeOK, Then, SpawnFinalRoom, Pcs, RegisterLooksUp
  <2>2. WhereInv'
    BY <1>23, CallFacts DEF TypeInv, TypeOK, WhereInv, Then, SpawnFinalRoom, TrackPcs,
       RoomPcs, GatePcs, RoomOps, Supersedes, RegisterLooksUp
  <2>3. ReadInv'
    BY <1>23, CallFacts DEF TypeInv, TypeOK, ReadInv, Then, SpawnFinalRoom, RegisterLooksUp
  <2> QED
    BY <2>1, <2>2, <2>3 DEF TypeInv
<1>24. ASSUME NEW c \in Calls, UnregisterLooksUp(c) PROVE TypeInv'
  <2>1. TypeOK'
    BY <1>24, CallFacts DEF TypeInv, TypeOK, Then, SpawnFinalRoom, Pcs, UnregisterLooksUp
  <2>2. WhereInv'
    BY <1>24, CallFacts DEF TypeInv, TypeOK, WhereInv, Then, SpawnFinalRoom, TrackPcs,
       RoomPcs, GatePcs, RoomOps, Supersedes, UnregisterLooksUp
  <2>3. ReadInv'
    BY <1>24, CallFacts DEF TypeInv, TypeOK, ReadInv, Then, SpawnFinalRoom, UnregisterLooksUp
  <2> QED
    BY <2>1, <2>2, <2>3 DEF TypeInv
<1>25. ASSUME NEW c \in Calls, DeleteEntry(c) PROVE TypeInv'
  <2>1. TypeOK'
    BY <1>25, CallFacts DEF TypeInv, TypeOK, Then, SpawnFinalRoom, Pcs, DeleteEntry
  <2>2. WhereInv'
    BY <1>25, CallFacts DEF TypeInv, TypeOK, WhereInv, Then, SpawnFinalRoom, TrackPcs,
       RoomPcs, GatePcs, RoomOps, Supersedes, DeleteEntry
  <2>3. ReadInv'
    BY <1>25, CallFacts DEF TypeInv, TypeOK, ReadInv, Then, SpawnFinalRoom, DeleteEntry
  <2> QED
    BY <2>1, <2>2, <2>3 DEF TypeInv
<1>26. ASSUME Crash PROVE TypeInv'
  <2>1. \A c \in Calls : pc'[c] \in {"idle", "done", "error"}
    BY <1>26 DEF Crash
  <2>2. TypeOK'
    BY <1>26, <2>1 DEF TypeInv, TypeOK, Crash, Rows, Pcs
  <2>3. WhereInv' /\ ReadInv'
    BY <1>26, <2>1 DEF TypeInv, WhereInv, ReadInv, Crash, TrackPcs, RoomPcs, GatePcs
  <2> QED
    BY <2>2, <2>3 DEF TypeInv
<1>27. ASSUME UNCHANGED vars PROVE TypeInv'
  BY <1>27 DEF TypeInv, TypeOK, WhereInv, ReadInv, vars
<1> QED
  BY <1>1, <1>2, <1>3, <1>4, <1>5, <1>6, <1>7, <1>8, <1>9, <1>10, <1>11, <1>12, <1>13, <1>14,
     <1>15, <1>16, <1>17, <1>18, <1>19, <1>20, <1>21, <1>22, <1>23, <1>24, <1>25, <1>26, <1>27
     DEF Next, EnvStep, EventStep, GateStep, RoomStep

\* Initially nothing has happened.
LEMMA TypeInit == Init => TypeInv
  BY DEF Init, TypeInv, TypeOK, WhereInv, ReadInv, Rows, Pcs, TrackPcs, RoomPcs, GatePcs

\* Every variable keeps its type: in particular no row is half written, whatever
\* the order in which placeholder, outcome and derivative reach it.
THEOREM TypeCorrect == Spec => []TypeOK
<1>1. TypeInv => TypeOK
  BY DEF TypeInv
<1> QED
  BY TypeInit, TypeStep, <1>1, PTL DEF Spec

--------------------------------------------------------------------------------
(* Each room is notified once and summarised once *)

\* The call that set record_notified_at is the only one that pushes.
NotifyInv ==
    /\ \A c \in Calls : pc[c] = "push" => notified[Room(c)] /\ pushed[Room(c)] = 0
    /\ \A c, d \in Calls : pc[c] = "push" /\ pc[d] = "push" /\ Room(c) = Room(d) => c = d
    /\ \A r \in Rooms : pushed[r] <= 1 /\ (~notified[r] => pushed[r] = 0)

\* The call that completed the room is the only one that summarises it.
SummaryInv ==
    /\ \A c \in Calls : pc[c] = "summary" => room[Room(c)] = "completed" /\ summaries[Room(c)] = 0
    /\ \A c, d \in Calls : pc[c] = "summary" /\ pc[d] = "summary" /\ Room(c) = Room(d) => c = d
    /\ \A r \in Rooms : summaries[r] <= 1 /\ (room[r] # "completed" => summaries[r] = 0)

\* A step that neither notifies nor pushes keeps NotifyInv.
LEMMA NotifyKept ==
    ASSUME TypeInv, NotifyInv, notified' = notified, pushed' = pushed,
           \A c \in Calls : pc'[c] = "push" => pc[c] = "push" /\ current'[c] = current[c]
    PROVE  NotifyInv'
<1>1. \A c \in Calls : pc'[c] = "push" => pc[c] = "push" /\ Room(c)' = Room(c)
  BY DEF Room
<1> QED
  BY <1>1 DEF NotifyInv

\* A step that neither completes a room nor summarises it keeps SummaryInv.
LEMMA SummaryKept ==
    ASSUME TypeInv, SummaryInv, summaries' = summaries,
           \A r \in Rooms : room[r] = "completed" <=> room'[r] = "completed",
           \A c \in Calls : pc'[c] = "summary" => pc[c] = "summary" /\ current'[c] = current[c]
    PROVE  SummaryInv'
<1>1. \A c \in Calls : pc'[c] = "summary" =>
        pc[c] = "summary" /\ Room(c)' = Room(c) /\ Room(c) \in Rooms
  BY GateRoom DEF Room, TypeInv, GatePcs
<1> QED
  BY <1>1 DEF SummaryInv

\* Every step keeps both.
LEMMA FireStep ==
    ASSUME TypeInv, NotifyInv, SummaryInv, [Next]_vars
    PROVE  NotifyInv' /\ SummaryInv'
<1> USE DEF roomVars, envVars, tallies
<1>1. ASSUME NEW t \in Tracks, BeginTrack(t) PROVE NotifyInv' /\ SummaryInv'
  BY <1>1, NotifyKept, SummaryKept DEF BeginTrack
<1>2. ASSUME NEW t \in Tracks, EndTrack(t) PROVE NotifyInv' /\ SummaryInv'
  BY <1>2, NotifyKept, SummaryKept DEF EndTrack
<1>3. ASSUME NEW t \in Tracks, Transcribe(t) PROVE NotifyInv' /\ SummaryInv'
  BY <1>3, NotifyKept, SummaryKept DEF Transcribe
<1>4. ASSUME NEW t \in Tracks, EndSpeech(t) PROVE NotifyInv' /\ SummaryInv'
  BY <1>4, NotifyKept, SummaryKept DEF EndSpeech
<1>5. ASSUME NEW t \in Tracks, Transcode(t) PROVE NotifyInv' /\ SummaryInv'
  BY <1>5, NotifyKept, SummaryKept DEF Transcode
<1>6. ASSUME NEW c \in Calls, Deliver(c) PROVE NotifyInv' /\ SummaryInv'
  <2>1. \A d \in Calls : pc'[d] \in {"push", "summary"} => pc'[d] = pc[d] /\ current'[d] = current[d]
    BY <1>6, NotWrite DEF TypeInv, TypeOK, Then, Deliver
  <2> QED
    BY <1>6, <2>1, NotifyKept, SummaryKept DEF Deliver
<1>7. ASSUME NEW c \in Calls, Resolve(c) PROVE NotifyInv' /\ SummaryInv'
  <2>1. \A d \in Calls : pc'[d] \in {"push", "summary"} => pc'[d] = pc[d] /\ current'[d] = current[d]
    BY <1>7, NotWrite DEF TypeInv, TypeOK, Then, Resolve
  <2> QED
    BY <1>7, <2>1, NotifyKept, SummaryKept DEF Resolve
<1>8. ASSUME NEW c \in Calls, CreateTrackPlaceholder(c) PROVE NotifyInv' /\ SummaryInv'
  <2>1. \A d \in Calls : pc'[d] \in {"push", "summary"} => pc'[d] = pc[d] /\ current'[d] = current[d]
    BY <1>8, NotWrite DEF TypeInv, TypeOK, Then, CreateTrackPlaceholder
  <2> QED
    BY <1>8, <2>1, NotifyKept, SummaryKept DEF CreateTrackPlaceholder
<1>9. ASSUME NEW c \in Calls, LoadTrack(c) PROVE NotifyInv' /\ SummaryInv'
  <2>1. \A d \in Calls : pc'[d] \in {"push", "summary"} => pc'[d] = pc[d] /\ current'[d] = current[d]
    BY <1>9, NotWrite DEF TypeInv, TypeOK, Then, LoadTrack
  <2> QED
    BY <1>9, <2>1, NotifyKept, SummaryKept DEF LoadTrack
<1>10. ASSUME NEW c \in Calls, WriteTrack(c) PROVE NotifyInv' /\ SummaryInv'
  <2>1. \A d \in Calls : pc'[d] \in {"push", "summary"} => pc'[d] = pc[d] /\ current'[d] = current[d]
    BY <1>10, NotWrite DEF TypeInv, TypeOK, Then, WriteTrack
  <2> QED
    BY <1>10, <2>1, NotifyKept, SummaryKept DEF WriteTrack
<1>11. ASSUME NEW c \in Calls, EnqueueTranscription(c) PROVE NotifyInv' /\ SummaryInv'
  <2>1. \A d \in Calls : pc'[d] \in {"push", "summary"} => pc'[d] = pc[d] /\ current'[d] = current[d]
    BY <1>11, NotWrite DEF TypeInv, TypeOK, Then, EnqueueTranscription, Enqueue
  <2> QED
    BY <1>11, <2>1, NotifyKept, SummaryKept DEF EnqueueTranscription, Enqueue
<1>12. ASSUME NEW c \in Calls, EnqueueDerivative(c) PROVE NotifyInv' /\ SummaryInv'
  <2>1. \A d \in Calls : pc'[d] \in {"push", "summary"} => pc'[d] = pc[d] /\ current'[d] = current[d]
    BY <1>12, NotWrite DEF TypeInv, TypeOK, Then, EnqueueDerivative, Enqueue
  <2> QED
    BY <1>12, <2>1, NotifyKept, SummaryKept DEF EnqueueDerivative, Enqueue
<1>13. ASSUME NEW c \in Calls, CheckAndNotify(c) PROVE NotifyInv' /\ SummaryInv'
  <2>1. \A d \in Calls : pc'[d] \in {"summary"} => pc'[d] = pc[d] /\ current'[d] = current[d]
    BY <1>13, NotWrite DEF TypeInv, TypeOK, Then, CheckAndNotify
  <2>2. SummaryInv'
    BY <1>13, <2>1, SummaryKept DEF CheckAndNotify
  <2>3. Room(c) \in Rooms /\ \A d \in Calls : Room(d)' = Room(d)
    BY <1>13, GateRoom DEF CheckAndNotify, Room, TypeInv, GatePcs
  <2>4. CASE ~notified[Room(c)] /\ notified' = [notified EXCEPT ![Room(c)] = TRUE] /\ Then(c, "push")
    <3>1. \A d \in Calls : pc'[d] = "push" => d = c \/ (pc[d] = "push" /\ Room(d) # Room(c))
      <4>1. \A d \in Calls : pc[d] = "push" => notified[Room(d)]
        BY DEF NotifyInv
      <4>2. \A d \in Calls : pc'[d] = "push" => d = c \/ pc[d] = "push"
        BY <2>4 DEF TypeInv, TypeOK, Then
      <4>3. ASSUME NEW d \in Calls, pc[d] = "push" PROVE Room(d) # Room(c)
        BY <2>4, <4>1, <4>3, Zenon
      <4> QED
        BY <4>2, <4>3
    <3>2. \A d \in Calls : pc[d] = "push" => Room(d) \in Rooms
      BY GateRoom DEF TypeInv, GatePcs
    <3>3. pushed' = pushed
      BY <1>13 DEF CheckAndNotify
    <3> QED
      BY <2>2, <2>3, <2>4, <3>1, <3>2, <3>3 DEF NotifyInv, TypeInv, TypeOK
  <2>5. CASE UNCHANGED notified /\ Then(c, AfterNotify(c))
    <3>1. \A d \in Calls : pc'[d] = "push" => pc[d] = "push" /\ current'[d] = current[d]
      BY <1>13, <2>5, NotWrite DEF TypeInv, TypeOK, Then, CheckAndNotify
    <3> QED
      BY <1>13, <2>2, <2>5, <3>1, NotifyKept DEF CheckAndNotify
  <2> QED
    BY <1>13, <2>4, <2>5 DEF CheckAndNotify, NotYetNotified
<1>14. ASSUME NEW c \in Calls, PushRoomRecordDone(c) PROVE NotifyInv' /\ SummaryInv'
  <2>1. \A d \in Calls : pc'[d] \in {"push", "summary"} => pc'[d] = pc[d] /\ current'[d] = current[d]
    BY <1>14, NotWrite DEF TypeInv, TypeOK, Then, PushRoomRecordDone
  <2>2. SummaryInv'
    BY <1>14, <2>1, SummaryKept DEF PushRoomRecordDone
  <2>3. Room(c) \in Rooms /\ pc[c] = "push" /\ \A d \in Calls : Room(d)' = Room(d)
    BY <1>14, GateRoom DEF PushRoomRecordDone, Room, TypeInv, GatePcs
  <2>4. pushed[Room(c)] = 0 /\ pushed' = [pushed EXCEPT ![Room(c)] = 1]
    <3>1. pushed[Room(c)] = 0
      BY <2>3 DEF NotifyInv
    <3>2. pushed' = [pushed EXCEPT ![Room(c)] = pushed[Room(c)] + 1]
      BY <1>14 DEF PushRoomRecordDone
    <3> QED
      BY <3>1, <3>2
  <2>5. \A d \in Calls : pc'[d] = "push" => pc[d] = "push" /\ d # c /\ Room(d) \in Rooms /\ Room(d) # Room(c)
    BY <1>14, <2>1, <2>3, NotWrite, GateRoom DEF PushRoomRecordDone, NotifyInv, TypeInv,
       TypeOK, Then, GatePcs
  <2> QED
    BY <1>14, <2>2, <2>3, <2>4, <2>5 DEF PushRoomRecordDone, NotifyInv, TypeInv, TypeOK
<1>15. ASSUME NEW c \in Calls, CountUnfinished(c) PROVE NotifyInv' /\ SummaryInv'
  <2>1. \A d \in Calls : pc'[d] \in {"push", "summary"} => pc'[d] = pc[d] /\ current'[d] = current[d]
    BY <1>15, NotWrite DEF TypeInv, TypeOK, Then, CountUnfinished
  <2> QED
    BY <1>15, <2>1, NotifyKept, SummaryKept DEF CountUnfinished
<1>16. ASSUME NEW c \in Calls, CompleteRoom(c) PROVE NotifyInv' /\ SummaryInv'
  <2>1. \A d \in Calls : pc'[d] \in {"push"} => pc'[d] = pc[d] /\ current'[d] = current[d]
    BY ZenonT(30), <1>16, NotWrite DEF TypeInv, TypeOK, Then, CompleteRoom
  <2>2. NotifyInv'
    BY <1>16, <2>1, NotifyKept DEF CompleteRoom
  <2>3. Room(c) \in Rooms /\ \A d \in Calls : Room(d)' = Room(d)
    BY <1>16, GateRoom DEF CompleteRoom, Room, TypeInv, GatePcs
  <2>4. CASE room[Room(c)] # "completed" /\ room' = [room EXCEPT ![Room(c)] = "completed"] /\ Then(c, "summary")
    <3>1. \A d \in Calls : pc'[d] = "summary" => d = c \/ (pc[d] = "summary" /\ Room(d) # Room(c))
      <4>1. \A d \in Calls : pc[d] = "summary" => room[Room(d)] = "completed"
        BY DEF SummaryInv
      <4>2. \A d \in Calls : pc'[d] = "summary" => d = c \/ pc[d] = "summary"
        BY <2>4 DEF TypeInv, TypeOK, Then
      <4>3. ASSUME NEW d \in Calls, pc[d] = "summary" PROVE Room(d) # Room(c)
        BY <2>4, <4>1, <4>3, Zenon
      <4> QED
        BY <4>2, <4>3
    <3>2. \A d \in Calls : pc[d] = "summary" => Room(d) \in Rooms
      BY GateRoom DEF TypeInv, GatePcs
    <3>3. summaries' = summaries
      BY <1>16 DEF CompleteRoom
    <3> QED
      BY <2>2, <2>3, <2>4, <3>1, <3>2, <3>3 DEF SummaryInv, TypeInv, TypeOK
  <2>5. CASE UNCHANGED room /\ Then(c, AfterComplete(c))
    <3>1. \A d \in Calls : pc'[d] = "summary" => pc[d] = "summary" /\ current'[d] = current[d]
      BY <1>16, <2>5, NotWrite DEF TypeInv, TypeOK, Then, CompleteRoom
    <3> QED
      BY <1>16, <2>2, <2>5, <3>1, SummaryKept DEF CompleteRoom
  <2> QED
    BY <1>16, <2>4, <2>5 DEF CompleteRoom, Completable
<1>17. ASSUME NEW c \in Calls, GenerateSummary(c) PROVE NotifyInv' /\ SummaryInv'
  <2>1. \A d \in Calls : pc'[d] \in {"push", "summary"} => pc'[d] = pc[d] /\ current'[d] = current[d]
    BY <1>17, NotWrite DEF TypeInv, TypeOK, Then, GenerateSummary
  <2>2. NotifyInv'
    BY <1>17, <2>1, NotifyKept DEF GenerateSummary
  <2>3. Room(c) \in Rooms /\ pc[c] = "summary" /\ \A d \in Calls : Room(d)' = Room(d)
    BY <1>17, GateRoom DEF GenerateSummary, Room, TypeInv, GatePcs
  <2>4. summaries[Room(c)] = 0 /\ summaries' = [summaries EXCEPT ![Room(c)] = 1]
    <3>1. summaries[Room(c)] = 0
      BY <2>3 DEF SummaryInv
    <3>2. summaries' = [summaries EXCEPT ![Room(c)] = summaries[Room(c)] + 1]
      BY <1>17 DEF GenerateSummary
    <3> QED
      BY <3>1, <3>2
  <2>5. \A d \in Calls : pc'[d] = "summary" => pc[d] = "summary" /\ d # c /\ Room(d) \in Rooms /\ Room(d) # Room(c)
    BY <1>17, <2>1, <2>3, NotWrite, GateRoom DEF GenerateSummary, SummaryInv, TypeInv, TypeOK,
       Then, GatePcs
  <2> QED
    BY <1>17, <2>2, <2>3, <2>4, <2>5 DEF GenerateSummary, SummaryInv, TypeInv, TypeOK
<1>18. ASSUME NEW c \in Calls, MarkTrack(c) PROVE NotifyInv' /\ SummaryInv'
  <2>1. \A d \in Calls : pc'[d] \in {"push", "summary"} => pc'[d] = pc[d] /\ current'[d] = current[d]
    BY <1>18, NotWrite DEF TypeInv, TypeOK, Then, MarkTrack
  <2> QED
    BY <1>18, <2>1, NotifyKept, SummaryKept DEF MarkTrack
<1>19. ASSUME NEW c \in Calls, Acknowledge(c) PROVE NotifyInv' /\ SummaryInv'
  <2>1. \A d \in Calls : pc'[d] \in {"push", "summary"} => pc'[d] = pc[d] /\ current'[d] = current[d]
    BY <1>19, NotWrite DEF TypeInv, TypeOK, Then, Acknowledge
  <2> QED
    BY <1>19, <2>1, NotifyKept, SummaryKept DEF Acknowledge
<1>20. ASSUME NEW c \in Calls, FinalRoomStatus(c) PROVE NotifyInv' /\ SummaryInv'
  <2>1. \A d \in Calls : pc'[d] \in {"push", "summary"} => pc'[d] = pc[d] /\ current'[d] = current[d]
    BY <1>20, NotWrite DEF TypeInv, TypeOK, Then, FinalRoomStatus
  <2>2. \A r \in Rooms : room[r] = "completed" <=> room'[r] = "completed"
    BY <1>20 DEF TypeInv, TypeOK, FinalRoomStatus
  <2> QED
    BY <1>20, <2>1, <2>2, NotifyKept, SummaryKept DEF FinalRoomStatus
<1>21. ASSUME NEW c \in Calls, CreateRoom(c) PROVE NotifyInv' /\ SummaryInv'
  <2>1. \A d \in Calls : pc'[d] \in {"push", "summary"} => pc'[d] = pc[d] /\ current'[d] = current[d]
    BY <1>21, NotWrite DEF TypeInv, TypeOK, Then, CreateRoom
  <2>2. \A r \in Rooms : room[r] = "completed" <=> room'[r] = "completed"
    BY <1>21 DEF TypeInv, TypeOK, CreateRoom
  <2> QED
    BY <1>21, <2>1, <2>2, NotifyKept, SummaryKept DEF CreateRoom
<1>22. ASSUME NEW c \in Calls, OverwriteRegistry(c) PROVE NotifyInv' /\ SummaryInv'
  <2>1. \A d \in Calls : pc'[d] \in {"push", "summary"} => pc'[d] = pc[d] /\ current'[d] = current[d]
    BY <1>22, NotWrite DEF TypeInv, TypeOK, Then, OverwriteRegistry
  <2> QED
    BY <1>22, <2>1, NotifyKept, SummaryKept DEF OverwriteRegistry
<1>23. ASSUME NEW c \in Calls, RegisterLooksUp(c) PROVE NotifyInv' /\ SummaryInv'
  <2>1. \A d \in Calls : pc'[d] \in {"push", "summary"} => pc'[d] = pc[d] /\ current'[d] = current[d]
    BY <1>23, NotWrite DEF TypeInv, TypeOK, Then, RegisterLooksUp
  <2> QED
    BY <1>23, <2>1, NotifyKept, SummaryKept DEF RegisterLooksUp
<1>24. ASSUME NEW c \in Calls, UnregisterLooksUp(c) PROVE NotifyInv' /\ SummaryInv'
  <2>1. \A d \in Calls : pc'[d] \in {"push", "summary"} => pc'[d] = pc[d] /\ current'[d] = current[d]
    BY <1>24, NotWrite DEF TypeInv, TypeOK, Then, UnregisterLooksUp, SpawnFinalRoom
  <2> QED
    BY <1>24, <2>1, NotifyKept, SummaryKept DEF UnregisterLooksUp
<1>25. ASSUME NEW c \in Calls, DeleteEntry(c) PROVE NotifyInv' /\ SummaryInv'
  <2>1. \A d \in Calls : pc'[d] \in {"push", "summary"} => pc'[d] = pc[d] /\ current'[d] = current[d]
    BY <1>25, NotWrite DEF TypeInv, TypeOK, Then, DeleteEntry, SpawnFinalRoom
  <2> QED
    BY <1>25, <2>1, NotifyKept, SummaryKept DEF DeleteEntry
<1>26. ASSUME Crash PROVE NotifyInv' /\ SummaryInv'
  <2>1. \A d \in Calls : pc'[d] \notin {"push", "summary"}
    BY <1>26 DEF Crash
  <2> QED
    BY <1>26, <2>1, NotifyKept, SummaryKept DEF Crash
<1>27. ASSUME UNCHANGED vars PROVE NotifyInv' /\ SummaryInv'
  BY <1>27, NotifyKept, SummaryKept DEF vars
<1> QED
  BY <1>1, <1>2, <1>3, <1>4, <1>5, <1>6, <1>7, <1>8, <1>9, <1>10, <1>11, <1>12, <1>13, <1>14,
     <1>15, <1>16, <1>17, <1>18, <1>19, <1>20, <1>21, <1>22, <1>23, <1>24, <1>25, <1>26, <1>27
     DEF Next, EnvStep, EventStep, GateStep, RoomStep

\* "... each fire exactly once" (README.md:55): no interleaving, redelivery, crash
\* or failed write makes a room be notified twice or summarised twice.
THEOREM FireOnceAlways == Spec => []FireOnce
<1>1. Init => NotifyInv /\ SummaryInv
  BY DEF Init, NotifyInv, SummaryInv
<1>2. NotifyInv /\ SummaryInv => FireOnce
  BY DEF NotifyInv, SummaryInv, FireOnce
<1> QED
  BY TypeInit, TypeStep, FireStep, <1>1, <1>2, PTL DEF Spec

--------------------------------------------------------------------------------
(* A room is notified when its recordings are ready *)

\* The recording has an outcome that leaves nothing to wait for.
Ready(t) == recording[t] = "failed" \/ derivative[t] # "no"

\* A terminal derivative_status tells the truth.
DerInv == \A t \in Tracks : track[t].der \in {"completed", "failed"} => Ready(t)

\* A delivered event has happened.
EventInv ==
    \A c \in Calls : pc[c] # "idle" =>
        /\ Op(c) = "started" => recording[On(c)] # "no"
        /\ Op(c) = "failed" => recording[On(c)] = "failed"
        /\ Op(c) = "derived" => derivative[On(c)] # "no"

\* A handled recording.started has left a row.
StartedInv ==
    \A c \in Calls : Op(c) = "started" =>
        /\ pc[c] \in {"idle", "resolve", "insert", "done"}
        /\ pc[c] = "done" => track[On(c)] # NoRow

\* What is recorded belongs to a room, and has a row once the room is finalized;
\* only finalized rooms are notified.
RowInv ==
    /\ \A t \in Tracks : recording[t] # "no" =>
         /\ room[RoomOf[t]] # "none"
         /\ room[RoomOf[t]] \in {"final_room", "completed"} => track[t] # NoRow
    /\ \A r \in Rooms : notified[r] => room[r] \in {"final_room", "completed"}

\* What NotifiedWhenReady needs to be inductive.
ReadyInv == DerInv /\ EventInv /\ StartedInv /\ RowInv /\ NotifiedWhenReady

\* The transcript markers leave derivative_status alone.
LEMMA DerKept ==
    ASSUME TypeInv, NEW c \in Calls, MarkTrack(c)
    PROVE  \A t \in Tracks : track'[t].der = track[t].der
<1>1. \A t \in Tracks : track[t] \in [stt : Stts, der : Ders] \/ track[t] = NoRow
  BY DEF TypeInv, TypeOK, Rows
<1>2. \A x \in [stt : Stts, der : Ders], s \in Stts : [x EXCEPT !.stt = s].der = x.der
  OBVIOUS
<1>3. CASE track' = [track EXCEPT ![On(c)].stt = outcome[c]] /\ track[On(c)] # NoRow
  <2>1. outcome[c] \in Stts
    BY DEF TypeInv, TypeOK, Stts
  <2>2. ASSUME NEW t \in Tracks, t = On(c) PROVE track'[t].der = track[t].der
    <3>1. track'[t] = [track[t] EXCEPT !.stt = outcome[c]]
      BY <1>3, <2>2 DEF TypeInv, TypeOK
    <3> QED
      BY <1>1, <1>2, <1>3, <2>1, <2>2, <3>1
  <2>3. ASSUME NEW t \in Tracks, t # On(c) PROVE track'[t] = track[t]
    BY <1>3, <2>3 DEF TypeInv, TypeOK
  <2> QED
    BY <2>2, <2>3
<1>4. CASE track' = track
  BY <1>4
<1> QED
  BY <1>3, <1>4 DEF MarkTrack

\* What save_track_metadata and update_track_derivative may make of derivative_status.
LEMMA DerWritten ==
    ASSUME TypeInv, NEW c \in Calls, WriteTrack(c), NEW t \in Tracks
    PROVE  \/ track'[t].der = track[t].der
           \/ t = On(c) /\ Op(c) = "completed" /\ track'[t].der = "pending"
           \/ t = On(c) /\ Op(c) \in {"failed", "derived"}
<1>1. Op(c) \in {"completed", "failed", "derived"}
  BY DEF TypeInv, WhereInv, WriteTrack
<1>2. CASE t # On(c)
  BY <1>2 DEF TypeInv, TypeOK, WriteTrack
<1>3. CASE t = On(c) /\ Op(c) = "completed"
  BY <1>3 DEF TypeInv, TypeOK, WriteTrack, Written
<1> QED
  BY <1>1, <1>2, <1>3

\* Every step keeps them, when recording.started is handled before the room is finalized.
LEMMA ReadyStep ==
    ASSUME LateStarted = FALSE, TypeInv, ReadyInv, [Next]_vars
    PROVE  ReadyInv'
<1> USE DEF roomVars, envVars, tallies, ReadyInv
<1>1. ASSUME NEW t \in Tracks, BeginTrack(t) PROVE ReadyInv'
  <2>1. DerInv'
    BY <1>1 DEF TypeInv, TypeOK, DerInv, Ready, BeginTrack
  <2>2. EventInv'
    BY <1>1, CallFacts DEF TypeInv, TypeOK, EventInv, TrackOps, BeginTrack
  <2>3. StartedInv'
    BY <1>1 DEF StartedInv, BeginTrack
  <2>4. RowInv'
    BY <1>1, TracksAssumption DEF TypeInv, TypeOK, RowInv, BeginTrack
  <2>5. NotifiedWhenReady'
    BY <1>1, TracksAssumption DEF TypeInv, TypeOK, RowInv, NotifiedWhenReady, Begun, BeginTrack
  <2> QED
    BY <2>1, <2>2, <2>3, <2>4, <2>5
<1>2. ASSUME NEW t \in Tracks, EndTrack(t) PROVE ReadyInv'
  <2>1. DerInv'
    BY <1>2 DEF TypeInv, TypeOK, DerInv, Ready, EndTrack
  <2>2. EventInv'
    BY <1>2, CallFacts DEF TypeInv, TypeOK, EventInv, TrackOps, EndTrack
  <2>3. StartedInv'
    BY <1>2 DEF StartedInv, EndTrack
  <2>4. RowInv'
    BY <1>2, TracksAssumption DEF TypeInv, TypeOK, RowInv, EndTrack
  <2>5. NotifiedWhenReady'
    BY <1>2, TracksAssumption DEF TypeInv, TypeOK, RowInv, NotifiedWhenReady, Begun, EndTrack
  <2> QED
    BY <2>1, <2>2, <2>3, <2>4, <2>5
<1>3. ASSUME NEW t \in Tracks, Transcribe(t) PROVE ReadyInv'
  <2>1. DerInv'
    BY <1>3 DEF TypeInv, TypeOK, DerInv, Ready, Transcribe
  <2>2. EventInv'
    BY <1>3, CallFacts DEF TypeInv, TypeOK, EventInv, TrackOps, Transcribe
  <2>3. StartedInv'
    BY <1>3 DEF StartedInv, Transcribe
  <2>4. RowInv'
    BY <1>3, TracksAssumption DEF TypeInv, TypeOK, RowInv, Transcribe
  <2>5. NotifiedWhenReady'
    BY <1>3, TracksAssumption DEF TypeInv, TypeOK, RowInv, NotifiedWhenReady, Begun, Transcribe
  <2> QED
    BY <2>1, <2>2, <2>3, <2>4, <2>5
<1>4. ASSUME NEW t \in Tracks, EndSpeech(t) PROVE ReadyInv'
  <2>1. DerInv'
    BY <1>4 DEF TypeInv, TypeOK, DerInv, Ready, EndSpeech
  <2>2. EventInv'
    BY <1>4, CallFacts DEF TypeInv, TypeOK, EventInv, TrackOps, EndSpeech
  <2>3. StartedInv'
    BY <1>4 DEF StartedInv, EndSpeech
  <2>4. RowInv'
    BY <1>4, TracksAssumption DEF TypeInv, TypeOK, RowInv, EndSpeech
  <2>5. NotifiedWhenReady'
    BY <1>4, TracksAssumption DEF TypeInv, TypeOK, RowInv, NotifiedWhenReady, Begun, EndSpeech
  <2> QED
    BY <2>1, <2>2, <2>3, <2>4, <2>5
<1>5. ASSUME NEW t \in Tracks, Transcode(t) PROVE ReadyInv'
  <2>1. DerInv'
    BY <1>5 DEF TypeInv, TypeOK, DerInv, Ready, Transcode
  <2>2. EventInv'
    BY <1>5, CallFacts DEF TypeInv, TypeOK, EventInv, TrackOps, Transcode
  <2>3. StartedInv'
    BY <1>5 DEF StartedInv, Transcode
  <2>4. RowInv'
    BY <1>5, TracksAssumption DEF TypeInv, TypeOK, RowInv, Transcode
  <2>5. NotifiedWhenReady'
    BY <1>5, TracksAssumption DEF TypeInv, TypeOK, RowInv, NotifiedWhenReady, Begun, Transcode
  <2> QED
    BY <2>1, <2>2, <2>3, <2>4, <2>5
<1>6. ASSUME NEW c \in Calls, Deliver(c) PROVE ReadyInv'
  <2>1. DerInv'
    BY <1>6, CallFacts DEF TypeInv, TypeOK, DerInv, Ready, Deliver
  <2>2. EventInv'
    BY <1>6, CallFacts DEF TypeInv, TypeOK, EventInv, Deliver, Due, MaySend, TrackOps, RoomOps
  <2>3. StartedInv'
    BY <1>6, CallFacts DEF TypeInv, TypeOK, StartedInv, Deliver, Entry, MaySend
  <2>4. RowInv'
    BY <1>6, TracksAssumption DEF TypeInv, TypeOK, RowInv, Deliver
  <2>5. NotifiedWhenReady'
    BY <1>6 DEF NotifiedWhenReady, Begun, Deliver
  <2> QED
    BY <2>1, <2>2, <2>3, <2>4, <2>5
<1>7. ASSUME NEW c \in Calls, Resolve(c) PROVE ReadyInv'
  <2>0. Op(c) = "started" => room[Room(c)] # "none"
    BY <1>7, CallFacts DEF Resolve, Room, EventInv, RowInv, TrackOps
  <2>1. DerInv'
    BY <1>7, CallFacts DEF TypeInv, TypeOK, DerInv, Ready, Resolve
  <2>2. EventInv'
    BY <1>7, CallFacts DEF TypeInv, TypeOK, EventInv, Then, Resolve
  <2>3. StartedInv'
    BY <1>7, <2>0 DEF TypeInv, TypeOK, StartedInv, Then, Resolve
  <2>4. RowInv'
    BY <1>7, TracksAssumption DEF TypeInv, TypeOK, RowInv, Resolve
  <2>5. NotifiedWhenReady'
    BY <1>7 DEF NotifiedWhenReady, Begun, Resolve
  <2> QED
    BY <2>1, <2>2, <2>3, <2>4, <2>5
<1>8. ASSUME NEW c \in Calls, CreateTrackPlaceholder(c) PROVE ReadyInv'
  <2>0. \A t \in Tracks : track'[t] = NoRow => track[t] = NoRow
    BY <1>8, RowsStay
  <2>a. On(c) \in Tracks /\ track'[On(c)] # NoRow
    BY <1>8, CallFacts, RowFacts DEF CreateTrackPlaceholder, Placeholder, TypeInv, TypeOK,
       WhereInv, TrackPcs
  <2>1. DerInv'
    BY <1>8 DEF TypeInv, TypeOK, DerInv, Ready, Placeholder, CreateTrackPlaceholder
  <2>2. EventInv'
    BY <1>8, CallFacts DEF TypeInv, TypeOK, EventInv, Then, CreateTrackPlaceholder
  <2>3. StartedInv'
    BY <1>8, <2>0, <2>a, CallFacts DEF TypeInv, TypeOK, StartedInv, Then, TrackOps,
       CreateTrackPlaceholder
  <2>4. RowInv'
    BY <1>8, <2>0, TracksAssumption DEF RowInv, CreateTrackPlaceholder
  <2>5. NotifiedWhenReady'
    BY <1>8 DEF NotifiedWhenReady, Begun, CreateTrackPlaceholder
  <2> QED
    BY <2>1, <2>2, <2>3, <2>4, <2>5
<1>9. ASSUME NEW c \in Calls, LoadTrack(c) PROVE ReadyInv'
  <2>1. DerInv'
    BY <1>9, CallFacts DEF TypeInv, TypeOK, DerInv, Ready, LoadTrack
  <2>2. EventInv'
    BY <1>9, CallFacts DEF TypeInv, TypeOK, EventInv, Then, LoadTrack
  <2>3. StartedInv'
    BY <1>9, CallFacts DEF TypeInv, TypeOK, StartedInv, Then, LoadTrack
  <2>4. RowInv'
    BY <1>9, TracksAssumption DEF TypeInv, TypeOK, RowInv, LoadTrack
  <2>5. NotifiedWhenReady'
    BY <1>9 DEF NotifiedWhenReady, Begun, LoadTrack
  <2> QED
    BY <2>1, <2>2, <2>3, <2>4, <2>5
<1>10. ASSUME NEW c \in Calls, WriteTrack(c) PROVE ReadyInv'
  <2>0. \A t \in Tracks : track'[t] = NoRow => track[t] = NoRow
    BY <1>10, RowsStay
  <2>1. DerInv'
    BY <1>10, DerWritten, CallFacts DEF DerInv, EventInv, Ready, WriteTrack
  <2>2. EventInv'
    BY <1>10, CallFacts DEF TypeInv, TypeOK, EventInv, Then, WriteTrack
  <2>3. StartedInv'
    BY <1>10, <2>0, CallFacts DEF TypeInv, TypeOK, StartedInv, Then, TrackOps, WriteTrack
  <2>4. RowInv'
    BY <1>10, <2>0, TracksAssumption DEF RowInv, WriteTrack
  <2>5. NotifiedWhenReady'
    BY <1>10 DEF NotifiedWhenReady, Begun, WriteTrack
  <2> QED
    BY <2>1, <2>2, <2>3, <2>4, <2>5
<1>11. ASSUME NEW c \in Calls, EnqueueTranscription(c) PROVE ReadyInv'
  <2>1. DerInv'
    BY <1>11, CallFacts DEF TypeInv, TypeOK, DerInv, Ready, EnqueueTranscription, Enqueue
  <2>2. EventInv'
    BY <1>11, CallFacts DEF TypeInv, TypeOK, EventInv, Then, EnqueueTranscription, Enqueue
  <2>3. StartedInv'
    BY <1>11, CallFacts DEF TypeInv, TypeOK, StartedInv, Then, EnqueueTranscription, Enqueue
  <2>4. RowInv'
    BY <1>11, TracksAssumption DEF TypeInv, TypeOK, RowInv, EnqueueTranscription, Enqueue
  <2>5. NotifiedWhenReady'
    BY <1>11 DEF NotifiedWhenReady, Begun, EnqueueTranscription, Enqueue
  <2> QED
    BY <2>1, <2>2, <2>3, <2>4, <2>5
<1>12. ASSUME NEW c \in Calls, EnqueueDerivative(c) PROVE ReadyInv'
  <2>1. DerInv'
    BY <1>12, CallFacts DEF TypeInv, TypeOK, DerInv, Ready, EnqueueDerivative, Enqueue
  <2>2. EventInv'
    BY <1>12, CallFacts DEF TypeInv, TypeOK, EventInv, Then, EnqueueDerivative, Enqueue
  <2>3. StartedInv'
    BY <1>12, CallFacts DEF TypeInv, TypeOK, StartedInv, Then, EnqueueDerivative, Enqueue
  <2>4. RowInv'
    BY <1>12, TracksAssumption DEF TypeInv, TypeOK, RowInv, EnqueueDerivative, Enqueue
  <2>5. NotifiedWhenReady'
    BY <1>12 DEF NotifiedWhenReady, Begun, EnqueueDerivative, Enqueue
  <2> QED
    BY <2>1, <2>2, <2>3, <2>4, <2>5
<1>13. ASSUME NEW c \in Calls, CheckAndNotify(c) PROVE ReadyInv'
  <2>0. ASSUME RecordingsReady(Room(c)), room[Room(c)] = "final_room" PROVE \A t \in Begun(Room(c)) : Ready(t)
    <3>1. ASSUME NEW t \in Begun(Room(c)) PROVE Ready(t)
      <4>1. t \in Tracks /\ track[t] # NoRow /\ t \in RowsOf(Room(c))
        BY <2>0, <3>1 DEF Begun, RowInv, RowsOf
      <4>2. track[t].der \in {"completed", "failed"}
        BY <2>0, <4>1, RowFacts DEF RecordingsReady, TypeInv, TypeOK, Ders
      <4> QED
        BY <4>1, <4>2 DEF DerInv
    <3> QED
      BY <3>1
  <2>1. DerInv'
    BY <1>13, CallFacts DEF TypeInv, TypeOK, DerInv, Ready, CheckAndNotify
  <2>2. EventInv'
    BY <1>13, CallFacts DEF TypeInv, TypeOK, EventInv, Then, CheckAndNotify
  <2>3. StartedInv'
    BY <1>13, CallFacts DEF TypeInv, TypeOK, StartedInv, Then, CheckAndNotify
  <2>4. RowInv'
    BY <1>13, TracksAssumption DEF TypeInv, TypeOK, RowInv, CheckAndNotify
  <2>5. NotifiedWhenReady'
    BY <1>13, <2>0 DEF TypeInv, TypeOK, NotifiedWhenReady, Begun, Ready, CheckAndNotify
  <2> QED
    BY <2>1, <2>2, <2>3, <2>4, <2>5
<1>14. ASSUME NEW c \in Calls, PushRoomRecordDone(c) PROVE ReadyInv'
  <2>1. DerInv'
    BY <1>14, CallFacts DEF TypeInv, TypeOK, DerInv, Ready, PushRoomRecordDone
  <2>2. EventInv'
    BY <1>14, CallFacts DEF TypeInv, TypeOK, EventInv, Then, PushRoomRecordDone
  <2>3. StartedInv'
    BY <1>14, CallFacts DEF TypeInv, TypeOK, StartedInv, Then, PushRoomRecordDone
  <2>4. RowInv'
    BY <1>14, TracksAssumption DEF TypeInv, TypeOK, RowInv, PushRoomRecordDone
  <2>5. NotifiedWhenReady'
    BY <1>14 DEF NotifiedWhenReady, Begun, PushRoomRecordDone
  <2> QED
    BY <2>1, <2>2, <2>3, <2>4, <2>5
<1>15. ASSUME NEW c \in Calls, CountUnfinished(c) PROVE ReadyInv'
  <2>1. DerInv'
    BY <1>15, CallFacts DEF TypeInv, TypeOK, DerInv, Ready, CountUnfinished
  <2>2. EventInv'
    BY <1>15, CallFacts DEF TypeInv, TypeOK, EventInv, Then, CountUnfinished
  <2>3. StartedInv'
    BY <1>15, CallFacts DEF TypeInv, TypeOK, StartedInv, Then, CountUnfinished
  <2>4. RowInv'
    BY <1>15, TracksAssumption DEF TypeInv, TypeOK, RowInv, CountUnfinished
  <2>5. NotifiedWhenReady'
    BY <1>15 DEF NotifiedWhenReady, Begun, CountUnfinished
  <2> QED
    BY <2>1, <2>2, <2>3, <2>4, <2>5
<1>16. ASSUME NEW c \in Calls, CompleteRoom(c) PROVE ReadyInv'
  <2>1. DerInv'
    BY <1>16, CallFacts DEF TypeInv, TypeOK, DerInv, Ready, CompleteRoom
  <2>2. EventInv'
    BY <1>16, CallFacts DEF TypeInv, TypeOK, EventInv, Then, CompleteRoom
  <2>3. StartedInv'
    BY <1>16, CallFacts DEF TypeInv, TypeOK, StartedInv, Then, CompleteRoom
  <2>4. RowInv'
    BY <1>16, TracksAssumption DEF TypeInv, TypeOK, RowInv, Completable, CompleteRoom
  <2>5. NotifiedWhenReady'
    BY <1>16 DEF NotifiedWhenReady, Begun, CompleteRoom
  <2> QED
    BY <2>1, <2>2, <2>3, <2>4, <2>5
<1>17. ASSUME NEW c \in Calls, GenerateSummary(c) PROVE ReadyInv'
  <2>1. DerInv'
    BY <1>17, CallFacts DEF TypeInv, TypeOK, DerInv, Ready, GenerateSummary
  <2>2. EventInv'
    BY <1>17, CallFacts DEF TypeInv, TypeOK, EventInv, Then, GenerateSummary
  <2>3. StartedInv'
    BY <1>17, CallFacts DEF TypeInv, TypeOK, StartedInv, Then, GenerateSummary
  <2>4. RowInv'
    BY <1>17, TracksAssumption DEF TypeInv, TypeOK, RowInv, GenerateSummary
  <2>5. NotifiedWhenReady'
    BY <1>17 DEF NotifiedWhenReady, Begun, GenerateSummary
  <2> QED
    BY <2>1, <2>2, <2>3, <2>4, <2>5
<1>18. ASSUME NEW c \in Calls, MarkTrack(c) PROVE ReadyInv'
  <2>0. \A t \in Tracks : track'[t] = NoRow => track[t] = NoRow
    BY <1>18, RowsStay
  <2>1. DerInv'
    BY <1>18, DerKept DEF DerInv, Ready, MarkTrack
  <2>2. EventInv'
    BY <1>18, CallFacts DEF TypeInv, TypeOK, EventInv, Then, MarkTrack
  <2>3. StartedInv'
    BY <1>18, <2>0, CallFacts DEF TypeInv, TypeOK, StartedInv, Then, TrackOps, MarkTrack
  <2>4. RowInv'
    BY <1>18, <2>0, TracksAssumption DEF RowInv, MarkTrack
  <2>5. NotifiedWhenReady'
    BY <1>18 DEF NotifiedWhenReady, Begun, MarkTrack
  <2> QED
    BY <2>1, <2>2, <2>3, <2>4, <2>5
<1>19. ASSUME NEW c \in Calls, Acknowledge(c) PROVE ReadyInv'
  <2>1. DerInv'
    BY <1>19, CallFacts DEF TypeInv, TypeOK, DerInv, Ready, Acknowledge
  <2>2. EventInv'
    BY <1>19, CallFacts DEF TypeInv, TypeOK, EventInv, Then, Acknowledge
  <2>3. StartedInv'
    BY <1>19, CallFacts DEF TypeInv, TypeOK, StartedInv, Then, Acknowledge
  <2>4. RowInv'
    BY <1>19, TracksAssumption DEF TypeInv, TypeOK, RowInv, Acknowledge
  <2>5. NotifiedWhenReady'
    BY <1>19 DEF NotifiedWhenReady, Begun, Acknowledge
  <2> QED
    BY <2>1, <2>2, <2>3, <2>4, <2>5
<1>20. ASSUME NEW c \in Calls, FinalRoomStatus(c) PROVE ReadyInv'
  <2>0. ASSUME NEW t \in Tracks, RoomOf[t] = Room(c), recording[t] # "no" PROVE track[t] # NoRow
    <3>1. Handled("started", t)
      BY <1>20, <2>0 DEF FinalRoomStatus, StartedIsHandled
    <3>2. PICK n \in 1..Copies["started"] : pc[<<"started", t, n>>] = "done"
      BY <3>1 DEF Handled
    <3>3. <<"started", t, n>> \in Calls
      BY DEF Calls, Deliveries, TrackOps
    <3> QED
      BY <3>2, <3>3 DEF StartedInv, Op, On
  <2>1. DerInv'
    BY <1>20, CallFacts DEF TypeInv, TypeOK, DerInv, Ready, FinalRoomStatus
  <2>2. EventInv'
    BY <1>20, CallFacts DEF TypeInv, TypeOK, EventInv, Then, FinalRoomStatus
  <2>3. StartedInv'
    BY <1>20, CallFacts DEF TypeInv, TypeOK, StartedInv, Then, FinalRoomStatus
  <2>4. RowInv'
    BY <1>20, <2>0, TracksAssumption DEF TypeInv, TypeOK, RowInv, FinalRoomStatus
  <2>5. NotifiedWhenReady'
    BY <1>20 DEF NotifiedWhenReady, Begun, FinalRoomStatus
  <2> QED
    BY <2>1, <2>2, <2>3, <2>4, <2>5
<1>21. ASSUME NEW c \in Calls, CreateRoom(c) PROVE ReadyInv'
  <2>1. DerInv'
    BY <1>21, CallFacts DEF TypeInv, TypeOK, DerInv, Ready, CreateRoom
  <2>2. EventInv'
    BY <1>21, CallFacts DEF TypeInv, TypeOK, EventInv, Then, CreateRoom
  <2>3. StartedInv'
    BY <1>21, CallFacts DEF TypeInv, TypeOK, StartedInv, Then, CreateRoom
  <2>4. RowInv'
    BY <1>21, TracksAssumption DEF TypeInv, TypeOK, RowInv, CreateRoom
  <2>5. NotifiedWhenReady'
    BY <1>21 DEF NotifiedWhenReady, Begun, CreateRoom
  <2> QED
    BY <2>1, <2>2, <2>3, <2>4, <2>5
<1>22. ASSUME NEW c \in Calls, OverwriteRegistry(c) PROVE ReadyInv'
  <2>1. DerInv'
    BY <1>22, CallFacts DEF TypeInv, TypeOK, DerInv, Ready, OverwriteRegistry
  <2>2. EventInv'
    BY <1>22, CallFacts DEF TypeInv, TypeOK, EventInv, Then, OverwriteRegistry
  <2>3. StartedInv'
    BY <1>22, CallFacts DEF TypeInv, TypeOK, StartedInv, Then, OverwriteRegistry
  <2>4. RowInv'
    BY <1>22, TracksAssumption DEF TypeInv, TypeOK, RowInv, OverwriteRegistry
  <2>5. NotifiedWhenReady'
    BY <1>22 DEF NotifiedWhenReady, Begun, OverwriteRegistry
  <2> QED
    BY <2>1, <2>2, <2>3, <2>4, <2>5
<1>23. ASSUME NEW c \in Calls, RegisterLooksUp(c) PROVE ReadyInv'
  <2>1. DerInv'
    BY <1>23, CallFacts DEF TypeInv, TypeOK, DerInv, Ready, RegisterLooksUp
  <2>2. EventInv'
    BY <1>23, CallFacts DEF TypeInv, TypeOK, EventInv, Then, RegisterLooksUp
  <2>3. StartedInv'
    BY <1>23, CallFacts DEF TypeInv, TypeOK, StartedInv, Then, RegisterLooksUp
  <2>4. RowInv'
    BY <1>23, TracksAssumption DEF TypeInv, TypeOK, RowInv, RegisterLooksUp
  <2>5. NotifiedWhenReady'
    BY <1>23 DEF NotifiedWhenReady, Begun, RegisterLooksUp
  <2> QED
    BY <2>1, <2>2, <2>3, <2>4, <2>5
<1>24. ASSUME NEW c \in Calls, UnregisterLooksUp(c) PROVE ReadyInv'
  <2>1. DerInv'
    BY <1>24, CallFacts DEF TypeInv, TypeOK, DerInv, Ready, UnregisterLooksUp, SpawnFinalRoom
  <2>2. EventInv'
    BY <1>24, CallFacts DEF TypeInv, TypeOK, EventInv, Then, UnregisterLooksUp, SpawnFinalRoom
  <2>3. StartedInv'
    BY <1>24, CallFacts DEF TypeInv, TypeOK, StartedInv, Then, UnregisterLooksUp, SpawnFinalRoom
  <2>4. RowInv'
    BY <1>24, TracksAssumption DEF TypeInv, TypeOK, RowInv, UnregisterLooksUp, SpawnFinalRoom
  <2>5. NotifiedWhenReady'
    BY <1>24 DEF NotifiedWhenReady, Begun, UnregisterLooksUp, SpawnFinalRoom
  <2> QED
    BY <2>1, <2>2, <2>3, <2>4, <2>5
<1>25. ASSUME NEW c \in Calls, DeleteEntry(c) PROVE ReadyInv'
  <2>1. DerInv'
    BY <1>25, CallFacts DEF TypeInv, TypeOK, DerInv, Ready, DeleteEntry, SpawnFinalRoom
  <2>2. EventInv'
    BY <1>25, CallFacts DEF TypeInv, TypeOK, EventInv, Then, DeleteEntry, SpawnFinalRoom
  <2>3. StartedInv'
    BY <1>25, CallFacts DEF TypeInv, TypeOK, StartedInv, Then, DeleteEntry, SpawnFinalRoom
  <2>4. RowInv'
    BY <1>25, TracksAssumption DEF TypeInv, TypeOK, RowInv, DeleteEntry, SpawnFinalRoom
  <2>5. NotifiedWhenReady'
    BY <1>25 DEF NotifiedWhenReady, Begun, DeleteEntry, SpawnFinalRoom
  <2> QED
    BY <2>1, <2>2, <2>3, <2>4, <2>5
<1>26. ASSUME Crash PROVE ReadyInv'
  <2>1. DerInv' /\ EventInv' /\ RowInv' /\ NotifiedWhenReady'
    BY <1>26 DEF DerInv, EventInv, RowInv, NotifiedWhenReady, Begun, Ready, Crash
  <2>2. StartedInv'
    BY <1>26 DEF StartedInv, Redelivered, TrackOps, Crash
  <2> QED
    BY <2>1, <2>2
<1>27. ASSUME UNCHANGED vars PROVE ReadyInv'
  BY <1>27 DEF DerInv, EventInv, StartedInv, RowInv, NotifiedWhenReady, Begun, Ready, vars
<1> QED
  BY <1>1, <1>2, <1>3, <1>4, <1>5, <1>6, <1>7, <1>8, <1>9, <1>10, <1>11, <1>12, <1>13, <1>14,
     <1>15, <1>16, <1>17, <1>18, <1>19, <1>20, <1>21, <1>22, <1>23, <1>24, <1>25, <1>26, <1>27
     DEF Next, EnvStep, EventStep, GateStep, RoomStep

\* room_record_done waits for every recording begun in the room, for every number of
\* tracks and every interleaving, provided no recording.started is handled late
\* (pg_transcript_repository.py:574-579 relies on the placeholder).
THEOREM NotifiedWhenReadyAlways ==
    ASSUME LateStarted = FALSE
    PROVE  Spec => []NotifiedWhenReady
<1>1. Init => ReadyInv
  BY DEF Init, ReadyInv, DerInv, EventInv, StartedInv, RowInv, NotifiedWhenReady, NoRow
<1>2. ReadyInv => NotifiedWhenReady
  BY DEF ReadyInv
<1>3. TypeInv /\ ReadyInv /\ [Next]_vars => ReadyInv'
  BY ReadyStep
<1> QED
  BY TypeInit, TypeStep, <1>1, <1>2, <1>3, PTL DEF Spec

--------------------------------------------------------------------------------
(* A room is completed when its transcripts are done *)

\* The recording has an outcome that leaves no transcript to wait for.
Done(t) == recording[t] = "failed" \/ transcript[t] # "no"

\* The gates of a room, once its finalization has been tried.
GateTail == GatePcs \ {"final"}

\* A terminal status tells the truth.
SttInv == \A t \in Tracks : track[t].stt \in {"completed", "failed"} => Done(t)

\* A marker is handled when there is one, and of the events only markers ask for completion.
MarkerInv ==
    \A c \in Calls :
        /\ pc[c] # "idle" /\ Op(c) \in {"saved", "tts"} => transcript[On(c)] # "no"
        /\ pc[c] \in {"mark", "count", "complete"} /\ Op(c) \in TrackOps => Op(c) \in {"saved", "tts"}

\* A registration or finalization evaluates the gates of a finalized room only.
FinalInv ==
    \A c \in Calls : Op(c) \notin TrackOps /\ pc[c] \in GateTail =>
        room[Room(c)] \in {"final_room", "completed"}

\* What was counted stays done until the room is updated.
CountedInv == \A c \in Calls : pc[c] = "complete" => \A t \in Begun(Room(c)) : Done(t)

DoneInv == SttInv /\ MarkerInv /\ FinalInv /\ CountedInv /\ CompletedWhenDone

\* The rooms of one track each: CompletedWhenDone is true of these only, because the count and
\* the update of check_and_complete_room are two statements.
SingleTracks == \A t, u \in Tracks : RoomOf[t] = RoomOf[u] => t = u

\* What the handlers may make of a row's status.
LEMMA SttWritten ==
    ASSUME TypeInv, NEW c \in Calls, WriteTrack(c), NEW t \in Tracks
    PROVE  \/ track'[t].stt = track[t].stt
           \/ t = On(c) /\ Op(c) = "completed" /\ track'[t].stt = "wait_process"
           \/ t = On(c) /\ Op(c) = "failed" /\ track'[t].stt = "failed"
<1>1. Op(c) \in {"completed", "failed", "derived"} /\ (Op(c) = "derived" => read[c] # NoRow)
  BY DEF TypeInv, WhereInv, ReadInv, WriteTrack
<1>2. CASE t # On(c)
  BY <1>2 DEF TypeInv, TypeOK, WriteTrack
<1>3. CASE t = On(c) /\ Op(c) = "completed"
  BY <1>3 DEF TypeInv, TypeOK, WriteTrack, Written
<1>4. CASE t = On(c) /\ Op(c) = "failed"
  BY <1>4 DEF TypeInv, TypeOK, WriteTrack, Written
<1>5. CASE t = On(c) /\ Op(c) = "derived"
  BY <1>1, <1>5 DEF TypeInv, TypeOK, WriteTrack, Written
<1> QED
  BY <1>1, <1>2, <1>3, <1>4, <1>5

LEMMA SttMarked ==
    ASSUME TypeInv, NEW c \in Calls, MarkTrack(c), NEW t \in Tracks
    PROVE  track'[t].stt = track[t].stt \/ (t = On(c) /\ track'[t].stt = outcome[c])
<1>1. CASE track' = [track EXCEPT ![On(c)].stt = outcome[c]] /\ track[On(c)] # NoRow
  <2>1. CASE t = On(c)
    <3>1. track'[t] = [track[t] EXCEPT !.stt = outcome[c]] /\ track[t] \in [stt : Stts, der : Ders]
      BY <1>1, <2>1 DEF TypeInv, TypeOK, Rows
    <3> QED
      BY <2>1, <3>1
  <2> QED
    BY <1>1, <2>1 DEF TypeInv, TypeOK
<1> QED
  BY <1>1 DEF MarkTrack

LEMMA SttPlaced ==
    ASSUME TypeInv, NEW c \in Calls, CreateTrackPlaceholder(c), NEW t \in Tracks
    PROVE  track'[t].stt = track[t].stt \/ (track[t] = NoRow /\ track'[t].stt = "pending")
<1>1. On(c) \in Tracks /\ track' = [track EXCEPT ![On(c)] = Placeholder(track[On(c)])]
  BY CallFacts DEF CreateTrackPlaceholder, TypeInv, WhereInv, TrackPcs
<1>2. CASE t = On(c)
  BY <1>1, <1>2 DEF TypeInv, TypeOK, Placeholder
<1> QED
  BY <1>1, <1>2 DEF TypeInv, TypeOK

\* A step that touches no row's status, no room's and no outcome, and only moves calls along.
LEMMA DoneKept ==
    ASSUME TypeInv, DoneInv, UNCHANGED <<recording, transcript, room>>,
           \A t \in Tracks : track'[t].stt \in {"completed", "failed"} => Done(t),
           \A c \in Calls : /\ pc'[c] = "idle" \/ pc[c] # "idle" \/ Op(c) \notin {"saved", "tts"}
                            /\ pc'[c] \in {"mark", "count", "complete"} /\ Op(c) \in TrackOps =>
                                 Op(c) \in {"saved", "tts"}
                            /\ Op(c) \notin TrackOps /\ pc'[c] \in GateTail =>
                                 pc[c] \in GateTail /\ current'[c] = current[c]
                            /\ pc'[c] = "complete" => pc[c] = "complete" /\ current'[c] = current[c]
    PROVE  DoneInv'
<1>1. \A t \in Tracks : Done(t)' <=> Done(t)
  BY DEF Done
<1>2. SttInv'
  BY <1>1 DEF SttInv
<1>3. MarkerInv'
  BY DEF DoneInv, MarkerInv
<1>4. FinalInv'
  BY DEF DoneInv, FinalInv, Room
<1>5. CountedInv'
  BY <1>1 DEF DoneInv, CountedInv, Begun, Room
<1>6. CompletedWhenDone'
  BY DEF DoneInv, CompletedWhenDone, Begun
<1> QED
  BY <1>2, <1>3, <1>4, <1>5, <1>6 DEF DoneInv

\* Where the steps of a handler lead, as far as the invariant is concerned.
LEMMA NextTail ==
    ASSUME TypeInv, NEW c \in Calls
    PROVE  /\ Entry(c) \notin GateTail /\ (Entry(c) = "mark" => Op(c) \in {"saved", "tts"})
           /\ Op(c) \in TrackOps /\ Op(c) \notin {"saved", "tts"} => AfterNotify(c) = "done"
           /\ AfterNotify(c) \in {"count", "done"}
           /\ AfterComplete(c) \in {"create", "ack", "done"}
           /\ AfterWrite(c) \in {"notify", "derive", "stt"}
           /\ AfterMark(c) \in {"count", "ack"}
<1>1. Op(c) \in TrackOps \cup RoomOps
  BY CallFacts
<1> QED
  BY <1>1 DEF Entry, AfterNotify, AfterComplete, AfterWrite, AfterMark, GateTail, GatePcs, TrackOps, RoomOps

\* Every step keeps it, when each room has one track and its recording.started is not late.
LEMMA DoneStep ==
    ASSUME LateStarted = FALSE, SingleTracks, TypeInv, ReadyInv, DoneInv, [Next]_vars
    PROVE  DoneInv'
<1> USE DEF roomVars, envVars, tallies
<1>0. \A t \in Tracks : track[t].stt \in {"completed", "failed"} => Done(t)
  BY DEF DoneInv, SttInv
<1>1. ASSUME NEW t \in Tracks, BeginTrack(t) PROVE DoneInv'
  <2>1. \A u \in Tracks : Done(u) => Done(u)'
    BY <1>1 DEF Done, BeginTrack, TypeInv, TypeOK
  <2>2. SttInv' /\ MarkerInv' /\ FinalInv'
    BY <1>1, <2>1 DEF BeginTrack, DoneInv, SttInv, MarkerInv, FinalInv, Room
  <2>3. room[RoomOf[t]] = "pending" /\ \A u \in Tracks : u # t => recording'[u] = recording[u]
    BY <1>1 DEF BeginTrack, TypeInv, TypeOK
  <2>4. ASSUME NEW c \in Calls, pc[c] = "complete", NEW u \in Begun(Room(c))' PROVE Done(u)'
    <3>0. UNCHANGED <<pc, current>>
      BY <1>1 DEF BeginTrack
    <3>1. CASE u # t
      <4>1. u \in Begun(Room(c))
        BY <2>3, <2>4, <3>0, <3>1 DEF Begun, Room
      <4> QED
        BY <2>1, <2>4, <4>1 DEF DoneInv, CountedInv, Begun
    <3>2. CASE u = t
      <4>1. RoomOf[t] = Room(c)
        BY <2>4, <3>0, <3>2 DEF Begun, Room
      <4>2. Op(c) \in TrackOps
        BY <2>3, <2>4, <4>1 DEF DoneInv, FinalInv, GateTail, GatePcs
      <4>3. On(c) = t /\ Op(c) \in {"saved", "tts"}
        BY <2>4, <4>1, <4>2, CallFacts DEF DoneInv, MarkerInv, Room, TrackOps, SingleTracks
      <4>4. transcript[t] # "no"
        BY <2>4, <4>3 DEF DoneInv, MarkerInv
      <4> QED
        BY <1>1, <3>2, <4>4 DEF Done, BeginTrack
    <3> QED
      BY <3>1, <3>2
  <2>5. CountedInv'
    BY <1>1, <2>4 DEF CountedInv, BeginTrack, Room
  <2>6. CompletedWhenDone'
    BY <1>1, <2>3, TracksAssumption DEF DoneInv, CompletedWhenDone, Begun, BeginTrack
  <2> QED
    BY <2>2, <2>5, <2>6 DEF DoneInv
<1>2. ASSUME NEW t \in Tracks, EndTrack(t) PROVE DoneInv'
  <2>1. \A u \in Tracks : (Done(u) => Done(u)') /\ (recording'[u] # "no" => recording[u] # "no")
    BY <1>2 DEF Done, EndTrack, TypeInv, TypeOK
  <2>2. \A u \in Tracks : transcript[u] # "no" => transcript'[u] # "no"
    BY <1>2 DEF EndTrack, TypeInv, TypeOK
  <2>3. SttInv' /\ FinalInv'
    BY <1>2, <2>1 DEF EndTrack, DoneInv, SttInv, FinalInv, Room
  <2>4. MarkerInv'
    BY <1>2, <2>2, CallFacts DEF EndTrack, DoneInv, MarkerInv, TrackOps
  <2>5. CountedInv' /\ CompletedWhenDone'
    <3>0. UNCHANGED <<room, pc, current>>
      BY <1>2 DEF EndTrack
    <3>1. \A r \in Rooms : \A u \in Begun(r)' : u \in Begun(r)
      BY <2>1 DEF Begun
    <3>2. CountedInv'
      <4>1. \A c \in Calls : pc[c] = "complete" => Room(c) \in Rooms /\ Room(c)' = Room(c)
        BY <3>0, GateRoom DEF TypeInv, GatePcs, Room
      <4> QED
        BY <2>1, <3>0, <3>1, <4>1 DEF DoneInv, CountedInv, Begun
    <3> QED
      BY <2>1, <3>0, <3>1, <3>2 DEF DoneInv, CompletedWhenDone, Begun, Done
  <2> QED
    BY <2>3, <2>4, <2>5 DEF DoneInv
<1>3. ASSUME NEW t \in Tracks, Transcribe(t) PROVE DoneInv'
  <2>1. \A u \in Tracks : (Done(u) => Done(u)') /\ (recording'[u] # "no" => recording[u] # "no")
    BY <1>3 DEF Done, Transcribe, TypeInv, TypeOK
  <2>2. \A u \in Tracks : transcript[u] # "no" => transcript'[u] # "no"
    BY <1>3 DEF Transcribe, TypeInv, TypeOK
  <2>3. SttInv' /\ FinalInv'
    BY <1>3, <2>1 DEF Transcribe, DoneInv, SttInv, FinalInv, Room
  <2>4. MarkerInv'
    BY <1>3, <2>2, CallFacts DEF Transcribe, DoneInv, MarkerInv, TrackOps
  <2>5. CountedInv' /\ CompletedWhenDone'
    <3>0. UNCHANGED <<room, pc, current>>
      BY <1>3 DEF Transcribe
    <3>1. \A r \in Rooms : \A u \in Begun(r)' : u \in Begun(r)
      BY <2>1 DEF Begun
    <3>2. CountedInv'
      <4>1. \A c \in Calls : pc[c] = "complete" => Room(c) \in Rooms /\ Room(c)' = Room(c)
        BY <3>0, GateRoom DEF TypeInv, GatePcs, Room
      <4> QED
        BY <2>1, <3>0, <3>1, <4>1 DEF DoneInv, CountedInv, Begun
    <3> QED
      BY <2>1, <3>0, <3>1, <3>2 DEF DoneInv, CompletedWhenDone, Begun, Done
  <2> QED
    BY <2>3, <2>4, <2>5 DEF DoneInv
<1>4. ASSUME NEW t \in Tracks, EndSpeech(t) PROVE DoneInv'
  <2>1. \A u \in Tracks : (Done(u) => Done(u)') /\ (recording'[u] # "no" => recording[u] # "no")
    BY <1>4 DEF Done, EndSpeech, TypeInv, TypeOK
  <2>2. \A u \in Tracks : transcript[u] # "no" => transcript'[u] # "no"
    BY <1>4 DEF EndSpeech, TypeInv, TypeOK
  <2>3. SttInv' /\ FinalInv'
    BY <1>4, <2>1 DEF EndSpeech, DoneInv, SttInv, FinalInv, Room
  <2>4. MarkerInv'
    BY <1>4, <2>2, CallFacts DEF EndSpeech, DoneInv, MarkerInv, TrackOps
  <2>5. CountedInv' /\ CompletedWhenDone'
    <3>0. UNCHANGED <<room, pc, current>>
      BY <1>4 DEF EndSpeech
    <3>1. \A r \in Rooms : \A u \in Begun(r)' : u \in Begun(r)
      BY <2>1 DEF Begun
    <3>2. CountedInv'
      <4>1. \A c \in Calls : pc[c] = "complete" => Room(c) \in Rooms /\ Room(c)' = Room(c)
        BY <3>0, GateRoom DEF TypeInv, GatePcs, Room
      <4> QED
        BY <2>1, <3>0, <3>1, <4>1 DEF DoneInv, CountedInv, Begun
    <3> QED
      BY <2>1, <3>0, <3>1, <3>2 DEF DoneInv, CompletedWhenDone, Begun, Done
  <2> QED
    BY <2>3, <2>4, <2>5 DEF DoneInv
<1>5. ASSUME NEW t \in Tracks, Transcode(t) PROVE DoneInv'
  <2>1. \A u \in Tracks : (Done(u) => Done(u)') /\ (recording'[u] # "no" => recording[u] # "no")
    BY <1>5 DEF Done, Transcode, TypeInv, TypeOK
  <2>2. \A u \in Tracks : transcript[u] # "no" => transcript'[u] # "no"
    BY <1>5 DEF Transcode, TypeInv, TypeOK
  <2>3. SttInv' /\ FinalInv'
    BY <1>5, <2>1 DEF Transcode, DoneInv, SttInv, FinalInv, Room
  <2>4. MarkerInv'
    BY <1>5, <2>2, CallFacts DEF Transcode, DoneInv, MarkerInv, TrackOps
  <2>5. CountedInv' /\ CompletedWhenDone'
    <3>0. UNCHANGED <<room, pc, current>>
      BY <1>5 DEF Transcode
    <3>1. \A r \in Rooms : \A u \in Begun(r)' : u \in Begun(r)
      BY <2>1 DEF Begun
    <3>2. CountedInv'
      <4>1. \A c \in Calls : pc[c] = "complete" => Room(c) \in Rooms /\ Room(c)' = Room(c)
        BY <3>0, GateRoom DEF TypeInv, GatePcs, Room
      <4> QED
        BY <2>1, <3>0, <3>1, <4>1 DEF DoneInv, CountedInv, Begun
    <3> QED
      BY <2>1, <3>0, <3>1, <3>2 DEF DoneInv, CompletedWhenDone, Begun, Done
  <2> QED
    BY <2>3, <2>4, <2>5 DEF DoneInv
<1>6. ASSUME NEW c \in Calls, Deliver(c) PROVE DoneInv'
  <2>1. /\ UNCHANGED <<recording, transcript, room, track, current>> /\ pc' = [pc EXCEPT ![c] = Entry(c)]
        /\ Op(c) \in {"saved", "tts"} => transcript[On(c)] # "no"
    BY <1>6 DEF Deliver, Due
  <2>2. \A d \in Calls : d # c => pc'[d] = pc[d]
    BY <2>1 DEF TypeInv, TypeOK
  <2>3. pc'[c] = Entry(c)
    BY <2>1 DEF TypeInv, TypeOK
  <2>4. Entry(c) \notin GateTail /\ (Entry(c) = "mark" => Op(c) \in {"saved", "tts"})
    BY NextTail
  <2>5. MarkerInv'
    BY <2>1, <2>2, <2>3, <2>4 DEF DoneInv, MarkerInv, GateTail, GatePcs
  <2>6. FinalInv' /\ CountedInv'
    BY <2>1, <2>2, <2>3, <2>4 DEF DoneInv, FinalInv, CountedInv, Begun, Done, Room, GateTail, GatePcs
  <2>7. SttInv' /\ CompletedWhenDone'
    BY <2>1 DEF DoneInv, SttInv, CompletedWhenDone, Begun, Done
  <2> QED
    BY <2>5, <2>6, <2>7 DEF DoneInv
<1>7. ASSUME NEW c \in Calls, Resolve(c) PROVE DoneInv'
  <2>1. UNCHANGED <<recording, transcript, room, current>> /\ pc[c] # "idle"
    BY <1>7 DEF Resolve
  <2>2. \A d \in Calls : d # c => pc'[d] = pc[d]
    BY <1>7 DEF Resolve, Then, TypeInv, TypeOK
  <2>3. pc'[c] \in {"done", "insert", "load"}
    BY <1>7 DEF Resolve, Then, TypeInv, TypeOK
  <2>4. \A t \in Tracks : track'[t].stt \in {"completed", "failed"} => Done(t)
    BY <1>0, <1>7 DEF Resolve
  <2>5. \A d \in Calls :
          /\ pc'[d] = "idle" \/ pc[d] # "idle" \/ Op(d) \notin {"saved", "tts"}
          /\ pc'[d] \in {"mark", "count", "complete"} /\ Op(d) \in TrackOps => Op(d) \in {"saved", "tts"}
          /\ Op(d) \notin TrackOps /\ pc'[d] \in GateTail => pc[d] \in GateTail /\ current'[d] = current[d]
          /\ pc'[d] = "complete" => pc[d] = "complete" /\ current'[d] = current[d]
    BY <2>1, <2>2, <2>3 DEF DoneInv, MarkerInv, GateTail, GatePcs, TrackOps
  <2> QED
    BY <2>1, <2>4, <2>5, DoneKept
<1>8. ASSUME NEW c \in Calls, CreateTrackPlaceholder(c) PROVE DoneInv'
  <2>1. UNCHANGED <<recording, transcript, room, current>> /\ pc[c] # "idle"
    BY <1>8 DEF CreateTrackPlaceholder
  <2>2. \A d \in Calls : d # c => pc'[d] = pc[d]
    BY <1>8 DEF CreateTrackPlaceholder, Then, TypeInv, TypeOK
  <2>3. pc'[c] = "done"
    BY <1>8 DEF CreateTrackPlaceholder, Then, TypeInv, TypeOK
  <2>4. \A t \in Tracks : track'[t].stt \in {"completed", "failed"} => Done(t)
    BY <1>0, <1>8, SttPlaced
  <2>5. \A d \in Calls :
          /\ pc'[d] = "idle" \/ pc[d] # "idle" \/ Op(d) \notin {"saved", "tts"}
          /\ pc'[d] \in {"mark", "count", "complete"} /\ Op(d) \in TrackOps => Op(d) \in {"saved", "tts"}
          /\ Op(d) \notin TrackOps /\ pc'[d] \in GateTail => pc[d] \in GateTail /\ current'[d] = current[d]
          /\ pc'[d] = "complete" => pc[d] = "complete" /\ current'[d] = current[d]
    BY <2>1, <2>2, <2>3 DEF DoneInv, MarkerInv, GateTail, GatePcs, TrackOps
  <2> QED
    BY <2>1, <2>4, <2>5, DoneKept
<1>9. ASSUME NEW c \in Calls, LoadTrack(c) PROVE DoneInv'
  <2>1. UNCHANGED <<recording, transcript, room, current>> /\ pc[c] # "idle"
    BY <1>9 DEF LoadTrack
  <2>2. \A d \in Calls : d # c => pc'[d] = pc[d]
    BY <1>9 DEF LoadTrack, Then, TypeInv, TypeOK
  <2>3. pc'[c] \in {"done", "write"}
    BY <1>9 DEF LoadTrack, Then, TypeInv, TypeOK
  <2>4. \A t \in Tracks : track'[t].stt \in {"completed", "failed"} => Done(t)
    BY <1>0, <1>9 DEF LoadTrack
  <2>5. \A d \in Calls :
          /\ pc'[d] = "idle" \/ pc[d] # "idle" \/ Op(d) \notin {"saved", "tts"}
          /\ pc'[d] \in {"mark", "count", "complete"} /\ Op(d) \in TrackOps => Op(d) \in {"saved", "tts"}
          /\ Op(d) \notin TrackOps /\ pc'[d] \in GateTail => pc[d] \in GateTail /\ current'[d] = current[d]
          /\ pc'[d] = "complete" => pc[d] = "complete" /\ current'[d] = current[d]
    BY <2>1, <2>2, <2>3 DEF DoneInv, MarkerInv, GateTail, GatePcs, TrackOps
  <2> QED
    BY <2>1, <2>4, <2>5, DoneKept
<1>10. ASSUME NEW c \in Calls, WriteTrack(c) PROVE DoneInv'
  <2>1. UNCHANGED <<recording, transcript, room, current>> /\ pc[c] # "idle"
    BY <1>10 DEF WriteTrack
  <2>2. \A d \in Calls : d # c => pc'[d] = pc[d]
    BY <1>10 DEF WriteTrack, Then, TypeInv, TypeOK
  <2>3. Op(c) \in TrackOps /\ pc'[c] \in {"notify", "derive", "stt"}
    BY <1>10, NextTail DEF WriteTrack, Then, TypeInv, TypeOK, WhereInv, TrackPcs
  <2>4. \A t \in Tracks : track'[t].stt \in {"completed", "failed"} => Done(t)
    <3>1. Op(c) = "failed" => recording[On(c)] = "failed"
      BY <1>10 DEF WriteTrack, ReadyInv, EventInv
    <3> QED
      BY <1>0, <1>10, <3>1, SttWritten DEF Done
  <2>5. \A d \in Calls :
          /\ pc'[d] = "idle" \/ pc[d] # "idle" \/ Op(d) \notin {"saved", "tts"}
          /\ pc'[d] \in {"mark", "count", "complete"} /\ Op(d) \in TrackOps => Op(d) \in {"saved", "tts"}
          /\ Op(d) \notin TrackOps /\ pc'[d] \in GateTail => pc[d] \in GateTail /\ current'[d] = current[d]
          /\ pc'[d] = "complete" => pc[d] = "complete" /\ current'[d] = current[d]
    BY <2>1, <2>2, <2>3 DEF DoneInv, MarkerInv, GateTail, GatePcs, TrackOps
  <2> QED
    BY <2>1, <2>4, <2>5, DoneKept
<1>11. ASSUME NEW c \in Calls, EnqueueTranscription(c) PROVE DoneInv'
  <2>1. UNCHANGED <<recording, transcript, room, current>> /\ pc[c] # "idle"
    BY <1>11 DEF EnqueueTranscription, Enqueue
  <2>2. \A d \in Calls : d # c => pc'[d] = pc[d]
    BY <1>11 DEF EnqueueTranscription, Then, TypeInv, TypeOK, Enqueue
  <2>3. pc'[c] = "derive"
    BY <1>11 DEF EnqueueTranscription, Enqueue, Then, TypeInv, TypeOK
  <2>4. \A t \in Tracks : track'[t].stt \in {"completed", "failed"} => Done(t)
    BY <1>0, <1>11 DEF EnqueueTranscription, Enqueue
  <2>5. \A d \in Calls :
          /\ pc'[d] = "idle" \/ pc[d] # "idle" \/ Op(d) \notin {"saved", "tts"}
          /\ pc'[d] \in {"mark", "count", "complete"} /\ Op(d) \in TrackOps => Op(d) \in {"saved", "tts"}
          /\ Op(d) \notin TrackOps /\ pc'[d] \in GateTail => pc[d] \in GateTail /\ current'[d] = current[d]
          /\ pc'[d] = "complete" => pc[d] = "complete" /\ current'[d] = current[d]
    BY <2>1, <2>2, <2>3 DEF DoneInv, MarkerInv, GateTail, GatePcs, TrackOps
  <2> QED
    BY <2>1, <2>4, <2>5, DoneKept
<1>12. ASSUME NEW c \in Calls, EnqueueDerivative(c) PROVE DoneInv'
  <2>1. UNCHANGED <<recording, transcript, room, current>> /\ pc[c] # "idle"
    BY <1>12 DEF EnqueueDerivative, Enqueue
  <2>2. \A d \in Calls : d # c => pc'[d] = pc[d]
    BY <1>12 DEF EnqueueDerivative, Then, TypeInv, TypeOK, Enqueue
  <2>3. pc'[c] = "done"
    BY <1>12 DEF EnqueueDerivative, Enqueue, Then, TypeInv, TypeOK
  <2>4. \A t \in Tracks : track'[t].stt \in {"completed", "failed"} => Done(t)
    BY <1>0, <1>12 DEF EnqueueDerivative, Enqueue
  <2>5. \A d \in Calls :
          /\ pc'[d] = "idle" \/ pc[d] # "idle" \/ Op(d) \notin {"saved", "tts"}
          /\ pc'[d] \in {"mark", "count", "complete"} /\ Op(d) \in TrackOps => Op(d) \in {"saved", "tts"}
          /\ Op(d) \notin TrackOps /\ pc'[d] \in GateTail => pc[d] \in GateTail /\ current'[d] = current[d]
          /\ pc'[d] = "complete" => pc[d] = "complete" /\ current'[d] = current[d]
    BY <2>1, <2>2, <2>3 DEF DoneInv, MarkerInv, GateTail, GatePcs, TrackOps
  <2> QED
    BY <2>1, <2>4, <2>5, DoneKept
<1>13. ASSUME NEW c \in Calls, CheckAndNotify(c) PROVE DoneInv'
  <2>1. UNCHANGED <<recording, transcript, room, current>> /\ pc[c] # "idle"
    BY <1>13 DEF CheckAndNotify
  <2>2. \A d \in Calls : d # c => pc'[d] = pc[d]
    BY <1>13 DEF CheckAndNotify, Then, TypeInv, TypeOK
  <2>3. /\ pc[c] \in GateTail /\ pc'[c] \in {"push", "count", "done"}
        /\ pc'[c] = "count" => Op(c) \notin TrackOps
    BY <1>13 DEF CheckAndNotify, AfterNotify, Then, TypeInv, TypeOK, TrackOps, GateTail, GatePcs
  <2>4. \A t \in Tracks : track'[t].stt \in {"completed", "failed"} => Done(t)
    BY <1>0, <1>13 DEF CheckAndNotify
  <2>5. \A d \in Calls :
          /\ pc'[d] = "idle" \/ pc[d] # "idle" \/ Op(d) \notin {"saved", "tts"}
          /\ pc'[d] \in {"mark", "count", "complete"} /\ Op(d) \in TrackOps => Op(d) \in {"saved", "tts"}
          /\ Op(d) \notin TrackOps /\ pc'[d] \in GateTail => pc[d] \in GateTail /\ current'[d] = current[d]
          /\ pc'[d] = "complete" => pc[d] = "complete" /\ current'[d] = current[d]
    BY <2>1, <2>2, <2>3 DEF DoneInv, MarkerInv, GateTail, GatePcs, TrackOps
  <2> QED
    BY <2>1, <2>4, <2>5, DoneKept
<1>14. ASSUME NEW c \in Calls, PushRoomRecordDone(c) PROVE DoneInv'
  <2>1. UNCHANGED <<recording, transcript, room, current>> /\ pc[c] # "idle"
    BY <1>14 DEF PushRoomRecordDone
  <2>2. \A d \in Calls : d # c => pc'[d] = pc[d]
    BY <1>14 DEF PushRoomRecordDone, Then, TypeInv, TypeOK
  <2>3. /\ pc[c] \in GateTail /\ pc'[c] \in {"push", "count", "done"}
        /\ pc'[c] = "count" => Op(c) \notin TrackOps
    BY <1>14 DEF PushRoomRecordDone, AfterNotify, Then, TypeInv, TypeOK, TrackOps, GateTail, GatePcs
  <2>4. \A t \in Tracks : track'[t].stt \in {"completed", "failed"} => Done(t)
    BY <1>0, <1>14 DEF PushRoomRecordDone
  <2>5. \A d \in Calls :
          /\ pc'[d] = "idle" \/ pc[d] # "idle" \/ Op(d) \notin {"saved", "tts"}
          /\ pc'[d] \in {"mark", "count", "complete"} /\ Op(d) \in TrackOps => Op(d) \in {"saved", "tts"}
          /\ Op(d) \notin TrackOps /\ pc'[d] \in GateTail => pc[d] \in GateTail /\ current'[d] = current[d]
          /\ pc'[d] = "complete" => pc[d] = "complete" /\ current'[d] = current[d]
    BY <2>1, <2>2, <2>3 DEF DoneInv, MarkerInv, GateTail, GatePcs, TrackOps
  <2> QED
    BY <2>1, <2>4, <2>5, DoneKept
<1>15. ASSUME NEW c \in Calls, CountUnfinished(c) PROVE DoneInv'
  <2>1. UNCHANGED <<recording, transcript, room, track, current>> /\ pc[c] = "count"
    BY <1>15 DEF CountUnfinished
  <2>2. \A d \in Calls : d # c => pc'[d] = pc[d]
    BY <1>15 DEF CountUnfinished, Then, TypeInv, TypeOK
  <2>3. pc'[c] \in {"complete", "create", "ack", "done"}
    BY <1>15, NextTail DEF CountUnfinished, Then, TypeInv, TypeOK
  <2>4. ASSUME pc'[c] = "complete", NEW t \in Begun(Room(c)) PROVE Done(t)
    <3>1. t \in Tracks /\ RoomOf[t] = Room(c) /\ recording[t] # "no"
      BY <2>4 DEF Begun
    <3>2. CASE Op(c) \in TrackOps
      <4>1. Op(c) \in {"saved", "tts"}
        BY <2>1, <3>2 DEF DoneInv, MarkerInv
      <4>2. transcript[On(c)] # "no" /\ On(c) \in Tracks /\ Room(c) = RoomOf[On(c)]
        BY <2>1, <4>1, CallFacts DEF DoneInv, MarkerInv, Room, TrackOps
      <4>3. On(c) = t
        BY <3>1, <4>2 DEF SingleTracks
      <4> QED
        BY <4>2, <4>3 DEF Done
    <3>3. CASE Op(c) \notin TrackOps
      <4>1. room[RoomOf[t]] \in {"final_room", "completed"}
        BY <2>1, <3>1, <3>3 DEF DoneInv, FinalInv, GateTail, GatePcs
      <4>2. track[t] # NoRow
        BY <3>1, <4>1 DEF ReadyInv, RowInv
      <4>3. ~ \E u \in RowsOf(Room(c)) : track[u].stt \in Unfinished
        <5>1. AfterComplete(c) # "complete"
          BY NextTail
        <5>2. \/ ~ \E u \in RowsOf(Room(c)) : track[u].stt \in Counted
              \/ Then(c, AfterComplete(c))
          BY <1>15 DEF CountUnfinished
        <5>3. ~Then(c, AfterComplete(c))
          BY <2>4, <5>1 DEF Then, TypeInv, TypeOK
        <5> QED
          BY <5>2, <5>3 DEF Counted
      <4>4. track[t].stt \notin Unfinished
        BY <3>1, <4>2, <4>3 DEF RowsOf
      <4>5. track[t].stt \in Stts
        BY <3>1, <4>2, RowFacts DEF TypeInv, TypeOK
      <4>6. track[t].stt \in {"completed", "failed"}
        BY <4>4, <4>5 DEF Stts, Unfinished
      <4> QED
        BY <1>0, <3>1, <4>6
    <3> QED
      BY <3>2, <3>3
  <2>5. CountedInv'
    BY <2>1, <2>2, <2>4 DEF DoneInv, CountedInv, Begun, Room, Done
  <2>6. MarkerInv' /\ FinalInv'
    BY <2>1, <2>2, <2>3 DEF DoneInv, MarkerInv, FinalInv, Room, GateTail, GatePcs
  <2>7. SttInv' /\ CompletedWhenDone'
    BY <2>1 DEF DoneInv, SttInv, CompletedWhenDone, Begun, Done
  <2> QED
    BY <2>5, <2>6, <2>7 DEF DoneInv
<1>16. ASSUME NEW c \in Calls, CompleteRoom(c) PROVE DoneInv'
  <2>1. UNCHANGED <<recording, transcript, track, current>> /\ pc[c] = "complete"
    BY <1>16 DEF CompleteRoom
  <2>2. \A d \in Calls : d # c => pc'[d] = pc[d]
    BY <1>16 DEF CompleteRoom, Then, TypeInv, TypeOK
  <2>3. pc'[c] \in {"summary", "create", "ack", "done"} /\ pc[c] \in GateTail
    BY <1>16, NextTail DEF CompleteRoom, Then, TypeInv, TypeOK, GateTail, GatePcs
  <2>4. room' = room \/ room' = [room EXCEPT ![Room(c)] = "completed"]
    BY <1>16 DEF CompleteRoom
  <2>5. \A r \in Rooms : /\ room[r] \in {"final_room", "completed"} => room'[r] \in {"final_room", "completed"}
                         /\ room'[r] = "completed" => room[r] = "completed" \/ r = Room(c)
    BY <2>4 DEF TypeInv, TypeOK
  <2>6. \A d \in Calls : pc[d] \in GateTail => Room(d) \in Rooms
    BY GateRoom DEF GateTail, TypeInv
  <2>7. SttInv' /\ MarkerInv'
    BY <2>1, <2>2, <2>3 DEF DoneInv, SttInv, MarkerInv, Done
  <2>8. FinalInv'
    BY <2>1, <2>2, <2>3, <2>5, <2>6 DEF DoneInv, FinalInv, Room
  <2>9. CountedInv'
    BY <2>1, <2>2, <2>3 DEF DoneInv, CountedInv, Begun, Room, Done
  <2>10. CompletedWhenDone'
    BY <2>1, <2>5 DEF DoneInv, CountedInv, CompletedWhenDone, Begun, Done
  <2> QED
    BY <2>7, <2>8, <2>9, <2>10 DEF DoneInv
<1>17. ASSUME NEW c \in Calls, GenerateSummary(c) PROVE DoneInv'
  <2>1. UNCHANGED <<recording, transcript, room, current>> /\ pc[c] # "idle"
    BY <1>17 DEF GenerateSummary
  <2>2. \A d \in Calls : d # c => pc'[d] = pc[d]
    BY <1>17 DEF GenerateSummary, Then, TypeInv, TypeOK
  <2>3. pc'[c] \in {"create", "ack", "done"}
    BY <1>17, NextTail DEF GenerateSummary, Then, TypeInv, TypeOK
  <2>4. \A t \in Tracks : track'[t].stt \in {"completed", "failed"} => Done(t)
    BY <1>0, <1>17 DEF GenerateSummary
  <2>5. \A d \in Calls :
          /\ pc'[d] = "idle" \/ pc[d] # "idle" \/ Op(d) \notin {"saved", "tts"}
          /\ pc'[d] \in {"mark", "count", "complete"} /\ Op(d) \in TrackOps => Op(d) \in {"saved", "tts"}
          /\ Op(d) \notin TrackOps /\ pc'[d] \in GateTail => pc[d] \in GateTail /\ current'[d] = current[d]
          /\ pc'[d] = "complete" => pc[d] = "complete" /\ current'[d] = current[d]
    BY <2>1, <2>2, <2>3 DEF DoneInv, MarkerInv, GateTail, GatePcs, TrackOps
  <2> QED
    BY <2>1, <2>4, <2>5, DoneKept
<1>18. ASSUME NEW c \in Calls, MarkTrack(c) PROVE DoneInv'
  <2>1. UNCHANGED <<recording, transcript, room, current>> /\ pc[c] # "idle"
    BY <1>18 DEF MarkTrack
  <2>2. \A d \in Calls : d # c => pc'[d] = pc[d]
    BY <1>18 DEF MarkTrack, Then, TypeInv, TypeOK
  <2>3. /\ Op(c) \in {"saved", "tts"}
        /\ pc'[c] \in {"count", "ack", "done", "idle"}
    <3>1. Op(c) \in {"saved", "tts"}
      BY <1>18 DEF MarkTrack, TypeInv, WhereInv, TrackPcs, DoneInv, MarkerInv
    <3> QED
      BY <1>18, <3>1, NextTail DEF MarkTrack, Then, TypeInv, TypeOK
  <2>4. \A t \in Tracks : track'[t].stt \in {"completed", "failed"} => Done(t)
    <3>1. transcript[On(c)] # "no"
      BY <1>18, <2>3 DEF MarkTrack, DoneInv, MarkerInv
    <3> QED
      BY <1>0, <1>18, <3>1, SttMarked DEF Done
  <2>5. \A d \in Calls :
          /\ pc'[d] = "idle" \/ pc[d] # "idle" \/ Op(d) \notin {"saved", "tts"}
          /\ pc'[d] \in {"mark", "count", "complete"} /\ Op(d) \in TrackOps => Op(d) \in {"saved", "tts"}
          /\ Op(d) \notin TrackOps /\ pc'[d] \in GateTail => pc[d] \in GateTail /\ current'[d] = current[d]
          /\ pc'[d] = "complete" => pc[d] = "complete" /\ current'[d] = current[d]
    BY <2>1, <2>2, <2>3 DEF DoneInv, MarkerInv, GateTail, GatePcs, TrackOps
  <2> QED
    BY <2>1, <2>4, <2>5, DoneKept
<1>19. ASSUME NEW c \in Calls, Acknowledge(c) PROVE DoneInv'
  <2>1. UNCHANGED <<recording, transcript, room, current>> /\ pc[c] # "idle"
    BY <1>19 DEF Acknowledge
  <2>2. \A d \in Calls : d # c => pc'[d] = pc[d]
    BY <1>19 DEF Acknowledge, Then, TypeInv, TypeOK
  <2>3. pc'[c] = "done"
    BY <1>19 DEF Acknowledge, Then, TypeInv, TypeOK
  <2>4. \A t \in Tracks : track'[t].stt \in {"completed", "failed"} => Done(t)
    BY <1>0, <1>19 DEF Acknowledge
  <2>5. \A d \in Calls :
          /\ pc'[d] = "idle" \/ pc[d] # "idle" \/ Op(d) \notin {"saved", "tts"}
          /\ pc'[d] \in {"mark", "count", "complete"} /\ Op(d) \in TrackOps => Op(d) \in {"saved", "tts"}
          /\ Op(d) \notin TrackOps /\ pc'[d] \in GateTail => pc[d] \in GateTail /\ current'[d] = current[d]
          /\ pc'[d] = "complete" => pc[d] = "complete" /\ current'[d] = current[d]
    BY <2>1, <2>2, <2>3 DEF DoneInv, MarkerInv, GateTail, GatePcs, TrackOps
  <2> QED
    BY <2>1, <2>4, <2>5, DoneKept
<1>20. ASSUME NEW c \in Calls, FinalRoomStatus(c) PROVE DoneInv'
  <2>1. UNCHANGED <<recording, transcript, track, current>> /\ pc[c] = "final"
    BY <1>20 DEF FinalRoomStatus
  <2>2. \A d \in Calls : d # c => pc'[d] = pc[d]
    BY <1>20 DEF FinalRoomStatus, Then, TypeInv, TypeOK
  <2>3. Room(c) \in Rooms /\ pc'[c] \in {"notify", "create", "ack", "done"}
    BY <1>20, <2>1, NextTail, GateRoom DEF FinalRoomStatus, Then, TypeInv, TypeOK, GatePcs
  <2>4. /\ pc'[c] = "notify" => room'[Room(c)] = "final_room"
        /\ \A r \in Rooms : /\ room[r] \in {"final_room", "completed"} => room'[r] = room[r]
                            /\ room'[r] = "completed" => room[r] = "completed"
    BY <1>20, <2>3, NextTail DEF FinalRoomStatus, Then, TypeInv, TypeOK
  <2>5. \A d \in Calls : pc[d] \in GateTail => Room(d) \in Rooms
    BY GateRoom DEF GateTail, TypeInv
  <2>7. SttInv' /\ MarkerInv'
    BY <2>1, <2>2, <2>3 DEF DoneInv, SttInv, MarkerInv, Done
  <2>8. FinalInv'
    BY <2>1, <2>2, <2>3, <2>4, <2>5 DEF DoneInv, FinalInv, Room, GateTail, GatePcs
  <2>9. CountedInv'
    BY <2>1, <2>2, <2>3 DEF DoneInv, CountedInv, Begun, Room, Done
  <2>10. CompletedWhenDone'
    BY <2>1, <2>4 DEF DoneInv, CompletedWhenDone, Begun, Done
  <2> QED
    BY <2>7, <2>8, <2>9, <2>10 DEF DoneInv
<1>21. ASSUME NEW c \in Calls, CreateRoom(c) PROVE DoneInv'
  <2>1. UNCHANGED <<recording, transcript, track, current>>
    BY <1>21 DEF CreateRoom
  <2>2. \A d \in Calls : d # c => pc'[d] = pc[d]
    BY <1>21 DEF CreateRoom, Then, TypeInv, TypeOK
  <2>3. pc'[c] \in {"overwrite", "error"} /\ pc[c] # "idle"
    BY <1>21 DEF CreateRoom, Then, TypeInv, TypeOK
  <2>4. \A r \in Rooms : room[r] # "none" => room'[r] = room[r]
    BY <1>21 DEF CreateRoom, TypeInv, TypeOK
  <2>a. \A r \in Rooms : room'[r] = "completed" => room[r] = "completed"
    BY <1>21 DEF CreateRoom, TypeInv, TypeOK
  <2>5. \A d \in Calls : pc[d] \in GateTail => Room(d) \in Rooms
    BY GateRoom DEF GateTail, TypeInv
  <2>7. SttInv' /\ MarkerInv'
    BY <2>1, <2>2, <2>3 DEF DoneInv, SttInv, MarkerInv, Done
  <2>8. FinalInv'
    BY <2>1, <2>2, <2>3, <2>4, <2>5 DEF DoneInv, FinalInv, Room, GateTail, GatePcs
  <2>9. CountedInv'
    BY <2>1, <2>2, <2>3 DEF DoneInv, CountedInv, Begun, Room, Done
  <2>10. CompletedWhenDone'
    BY <2>1, <2>a DEF DoneInv, CompletedWhenDone, Begun, Done
  <2> QED
    BY <2>7, <2>8, <2>9, <2>10 DEF DoneInv
<1>22. ASSUME NEW c \in Calls, OverwriteRegistry(c) PROVE DoneInv'
  <2>1. UNCHANGED <<recording, transcript, room, current>> /\ pc[c] # "idle"
    BY <1>22 DEF OverwriteRegistry
  <2>2. \A d \in Calls : d # c => pc'[d] = pc[d]
    BY <1>22 DEF OverwriteRegistry, Then, TypeInv, TypeOK
  <2>3. pc'[c] = "done"
    BY <1>22 DEF OverwriteRegistry, Then, TypeInv, TypeOK
  <2>4. \A t \in Tracks : track'[t].stt \in {"completed", "failed"} => Done(t)
    BY <1>0, <1>22 DEF OverwriteRegistry
  <2>5. \A d \in Calls :
          /\ pc'[d] = "idle" \/ pc[d] # "idle" \/ Op(d) \notin {"saved", "tts"}
          /\ pc'[d] \in {"mark", "count", "complete"} /\ Op(d) \in TrackOps => Op(d) \in {"saved", "tts"}
          /\ Op(d) \notin TrackOps /\ pc'[d] \in GateTail => pc[d] \in GateTail /\ current'[d] = current[d]
          /\ pc'[d] = "complete" => pc[d] = "complete" /\ current'[d] = current[d]
    BY <2>1, <2>2, <2>3 DEF DoneInv, MarkerInv, GateTail, GatePcs, TrackOps
  <2> QED
    BY <2>1, <2>4, <2>5, DoneKept
<1>23. ASSUME NEW c \in Calls, RegisterLooksUp(c) PROVE DoneInv'
  <2>1. UNCHANGED <<recording, transcript, room, track>>
    BY <1>23 DEF RegisterLooksUp
  <2>a. Op(c) \notin TrackOps /\ "final" \notin TrackOps /\ pc[c] \notin GateTail
    BY <1>23 DEF RegisterLooksUp, TypeInv, WhereInv, RoomPcs, TrackOps, RoomOps, GateTail, GatePcs
  <2>2. \A d \in Calls : \/ pc'[d] = pc[d] /\ (current'[d] = current[d] \/ pc[d] \notin GateTail)
                         \/ Op(d) \notin TrackOps /\ pc'[d] \in {"final", "create"}
    BY <1>23, <2>a, CallFacts DEF RegisterLooksUp, Then, TypeInv, TypeOK, GateTail, GatePcs
  <2>3. \A d \in Calls :
          /\ pc'[d] = "idle" \/ pc[d] # "idle" \/ Op(d) \notin {"saved", "tts"}
          /\ pc'[d] \in {"mark", "count", "complete"} /\ Op(d) \in TrackOps => Op(d) \in {"saved", "tts"}
          /\ Op(d) \notin TrackOps /\ pc'[d] \in GateTail => pc[d] \in GateTail /\ current'[d] = current[d]
          /\ pc'[d] = "complete" => pc[d] = "complete" /\ current'[d] = current[d]
    BY <2>2 DEF DoneInv, MarkerInv, GateTail, GatePcs, TrackOps
  <2> QED
    BY <1>0, <2>1, <2>3, DoneKept
<1>24. ASSUME NEW c \in Calls, UnregisterLooksUp(c) PROVE DoneInv'
  <2>1. UNCHANGED <<recording, transcript, room, track>>
    BY <1>24 DEF UnregisterLooksUp, SpawnFinalRoom
  <2>a. Op(c) \notin TrackOps /\ "final" \notin TrackOps /\ pc[c] \notin GateTail
    BY <1>24 DEF UnregisterLooksUp, TypeInv, WhereInv, RoomPcs, TrackOps, RoomOps, GateTail, GatePcs
  <2>2. \A d \in Calls : \/ pc'[d] = pc[d] /\ (current'[d] = current[d] \/ pc[d] \notin GateTail)
                         \/ Op(d) \notin TrackOps /\ pc'[d] \in {"final", "delete", "done"}
    BY <1>24, <2>a, CallFacts DEF UnregisterLooksUp, Then, TypeInv, TypeOK, GateTail, GatePcs, SpawnFinalRoom
  <2>3. \A d \in Calls :
          /\ pc'[d] = "idle" \/ pc[d] # "idle" \/ Op(d) \notin {"saved", "tts"}
          /\ pc'[d] \in {"mark", "count", "complete"} /\ Op(d) \in TrackOps => Op(d) \in {"saved", "tts"}
          /\ Op(d) \notin TrackOps /\ pc'[d] \in GateTail => pc[d] \in GateTail /\ current'[d] = current[d]
          /\ pc'[d] = "complete" => pc[d] = "complete" /\ current'[d] = current[d]
    BY <2>2 DEF DoneInv, MarkerInv, GateTail, GatePcs, TrackOps
  <2> QED
    BY <1>0, <2>1, <2>3, DoneKept
<1>25. ASSUME NEW c \in Calls, DeleteEntry(c) PROVE DoneInv'
  <2>1. UNCHANGED <<recording, transcript, room, track>>
    BY <1>25 DEF DeleteEntry, SpawnFinalRoom
  <2>a. Op(c) \notin TrackOps /\ "final" \notin TrackOps /\ pc[c] \notin GateTail
    BY <1>25 DEF DeleteEntry, TypeInv, WhereInv, RoomPcs, TrackOps, RoomOps, GateTail, GatePcs
  <2>2. \A d \in Calls : \/ pc'[d] = pc[d] /\ (current'[d] = current[d] \/ pc[d] \notin GateTail)
                         \/ Op(d) \notin TrackOps /\ pc'[d] \in {"final", "error", "done"}
    BY <1>25, <2>a, CallFacts DEF DeleteEntry, Then, TypeInv, TypeOK, GateTail, GatePcs, SpawnFinalRoom
  <2>3. \A d \in Calls :
          /\ pc'[d] = "idle" \/ pc[d] # "idle" \/ Op(d) \notin {"saved", "tts"}
          /\ pc'[d] \in {"mark", "count", "complete"} /\ Op(d) \in TrackOps => Op(d) \in {"saved", "tts"}
          /\ Op(d) \notin TrackOps /\ pc'[d] \in GateTail => pc[d] \in GateTail /\ current'[d] = current[d]
          /\ pc'[d] = "complete" => pc[d] = "complete" /\ current'[d] = current[d]
    BY <2>2 DEF DoneInv, MarkerInv, GateTail, GatePcs, TrackOps
  <2> QED
    BY <1>0, <2>1, <2>3, DoneKept
<1>26. ASSUME Crash PROVE DoneInv'
  <2>1. UNCHANGED <<recording, transcript, room, track, current>>
    BY <1>26 DEF Crash
  <2>2. \A d \in Calls : (pc'[d] = pc[d] /\ pc[d] \in {"idle", "done", "error"}) \/ (pc[d] # "idle" /\ pc'[d] \in {"idle", "error"})
    BY <1>26 DEF Crash
  <2> QED
    BY <1>0, <2>1, <2>2, DoneKept DEF GateTail, GatePcs
<1>27. ASSUME UNCHANGED vars PROVE DoneInv'
  BY <1>0, <1>27, DoneKept DEF vars, DoneInv, MarkerInv
<1> QED
  BY <1>1, <1>2, <1>3, <1>4, <1>5, <1>6, <1>7, <1>8, <1>9, <1>10, <1>11, <1>12, <1>13, <1>14,
     <1>15, <1>16, <1>17, <1>18, <1>19, <1>20, <1>21, <1>22, <1>23, <1>24, <1>25, <1>26, <1>27
     DEF Next, EnvStep, EventStep, GateStep, RoomStep

\* check_and_complete_room completes a room only when every recording begun in it has failed or
\* has a transcript outcome, whatever is redelivered, crashes or fails, provided the room has
\* one track (the count and the update are two statements) and recording.started is not late.
THEOREM CompletedWhenDoneAlways ==
    ASSUME LateStarted = FALSE, SingleTracks
    PROVE  Spec => []CompletedWhenDone
<1>1. Init => ReadyInv
  BY DEF Init, ReadyInv, DerInv, EventInv, StartedInv, RowInv, NotifiedWhenReady, NoRow
<1>2. Init => DoneInv
  BY DEF Init, DoneInv, SttInv, MarkerInv, FinalInv, CountedInv, CompletedWhenDone, NoRow, GateTail, GatePcs
<1>3. TypeInv /\ ReadyInv /\ [Next]_vars => ReadyInv'
  BY ReadyStep
<1>4. TypeInv /\ ReadyInv /\ DoneInv /\ [Next]_vars => DoneInv'
  BY DoneStep
<1>5. DoneInv => CompletedWhenDone
  BY DEF DoneInv
<1> QED
  BY TypeInit, TypeStep, <1>1, <1>2, <1>3, <1>4, <1>5, PTL DEF Spec

--------------------------------------------------------------------------------
(* Which steps leave the rooms and the registry alone *)

\* What the agents, workers and record-service do moves no call.
LEMMA EnvMoves ==
    ASSUME NEW t \in Tracks, EnvStep(t)
    PROVE  UNCHANGED <<roomVars, track, pc, current, read, outcome>>
BY DEF EnvStep, BeginTrack, EndTrack, Transcribe, EndSpeech, Transcode, roomVars

\* The handler of an event touches no room but through the gates.
LEMMA EventMoves ==
    ASSUME TypeInv, NEW c \in Calls, EventStep(c)
    PROVE  /\ UNCHANGED <<registry, room, current>> /\ Op(c) \in TrackOps
           /\ \A d \in Calls : d # c => pc'[d] = pc[d]
           /\ pc'[c] \in {"idle", "done", "insert", "load", "write", "stt", "derive", "notify",
                          "count", "ack"}
<1> USE DEF roomVars, envVars, tallies
<1>1. \E l \in {"idle", "done", "insert", "load", "write", "stt", "derive", "notify", "count", "ack"} :
          Then(c, l)
  <2>1. CASE Resolve(c) \/ CreateTrackPlaceholder(c) \/ LoadTrack(c) \/ Acknowledge(c)
    BY <2>1 DEF Resolve, CreateTrackPlaceholder, LoadTrack, Acknowledge
  <2>2. CASE WriteTrack(c)
    BY <2>2, NextTail DEF WriteTrack
  <2>3. CASE EnqueueTranscription(c) \/ EnqueueDerivative(c)
    BY <2>3 DEF EnqueueTranscription, EnqueueDerivative, Enqueue
  <2>4. CASE MarkTrack(c)
    BY <2>4, NextTail DEF MarkTrack
  <2> QED
    BY <2>1, <2>2, <2>3, <2>4 DEF EventStep
<1>2. UNCHANGED <<registry, room, current>>
  BY DEF EventStep, Resolve, CreateTrackPlaceholder, LoadTrack, WriteTrack, EnqueueTranscription,
     EnqueueDerivative, Enqueue, MarkTrack, Acknowledge
<1>3. pc[c] \in TrackPcs
  BY DEF EventStep, Resolve, CreateTrackPlaceholder, LoadTrack, WriteTrack, EnqueueTranscription,
     EnqueueDerivative, Enqueue, MarkTrack, Acknowledge, TrackPcs
<1> QED
  BY <1>1, <1>2, <1>3 DEF TypeInv, TypeOK, WhereInv, Then

\* The gates only complete rooms that are finalized; a registration goes on to its own room.
LEMMA GateMoves ==
    ASSUME TypeInv, NEW c \in Calls, GateStep(c)
    PROVE  /\ UNCHANGED <<registry, current>> /\ pc[c] \in GateTail
           /\ \A d \in Calls : d # c => pc'[d] = pc[d]
           /\ pc'[c] \in GateTail \cup {"create", "ack", "done"}
           /\ pc'[c] = "create" <=> pc'[c] \notin GateTail /\ Op(c) = "register"
           /\ \A r \in Rooms : room'[r] = room[r] \/ (room[r] = "final_room" /\ room'[r] = "completed")
<1> USE DEF roomVars, envVars, tallies
<1>1. pc[c] \in GateTail /\ UNCHANGED <<registry, current>>
  BY DEF GateStep, CheckAndNotify, PushRoomRecordDone, CountUnfinished, CompleteRoom,
     GenerateSummary, GateTail, GatePcs
<1>2. \E l \in GateTail \cup {AfterNotify(c), AfterComplete(c)} : Then(c, l)
  BY DEF GateStep, CheckAndNotify, PushRoomRecordDone, CountUnfinished, CompleteRoom,
     GenerateSummary, GateTail, GatePcs
<1>3. PICK l \in GateTail \cup {AfterNotify(c), AfterComplete(c)} : Then(c, l)
  BY <1>2
<1>4. pc'[c] = l /\ \A d \in Calls : d # c => pc'[d] = pc[d]
  BY <1>3 DEF Then, TypeInv, TypeOK
<1>5. /\ l \in GateTail \cup {"create", "ack", "done"}
      /\ l = "create" <=> l \notin GateTail /\ Op(c) = "register"
  BY <1>3 DEF AfterNotify, AfterComplete, GateTail, GatePcs
<1>6. \A r \in Rooms : room'[r] = room[r] \/ (room[r] = "final_room" /\ room'[r] = "completed")
  BY DEF GateStep, CheckAndNotify, PushRoomRecordDone, CountUnfinished, CompleteRoom, Completable,
     GenerateSummary, TypeInv, TypeOK
<1> QED
  BY <1>1, <1>4, <1>5, <1>6

(* The name of a room *)

\* A session registers once: its id is minted for the registration.
RegistersOnce == Copies["register"] = 1
Registration(r) == <<"register", r, 1>>
Registered(r) == pc[Registration(r)] = "done"

\* Sessions are unregistered, and finalized in the background, after they registered.
SentInv == \A c \in Calls : Op(c) \in {"unregister", "final"} /\ pc[c] # "idle" => Registered(On(c))
\* What a registration finds under the name has registered before it.
FoundInv ==
    \A c \in Calls : Op(c) = "register" =>
        /\ pc[c] \in {"idle", "current"} => current[c] = None
        /\ current[c] \in Rooms => Registered(current[c])
\* Nothing else is finalized.
FinalizedInv == \A r \in Rooms : room[r] \in {"final_room", "completed"} => Registered(r)
\* The name is taken by a room that exists, and given up before its finalization starts.
NameInv ==
    /\ \A r \in Rooms : registry = r => Registered(r) /\ room[r] # "none"
    /\ \A c \in Calls : /\ Op(c) = "final" /\ pc[c] # "idle" => registry # On(c)
                        /\ pc[c] = "overwrite" => room[On(c)] # "none"

\* Rooms are finalized by registrations and background tasks, and created by registrations;
\* unregistrations delete their entries.
FinalizerInv ==
    \A c \in Calls : /\ pc[c] = "final" => Op(c) \in {"register", "final"}
                     /\ pc[c] \in {"create", "overwrite"} => Op(c) = "register"
                     /\ pc[c] = "delete" => Op(c) = "unregister"

LiveInv == SentInv /\ FoundInv /\ FinalizedInv /\ NameInv /\ FinalizerInv /\ RegisteredIsLive

\* There is one registration of each session.
LEMMA OneRegistration ==
    ASSUME RegistersOnce
    PROVE  /\ \A c \in Calls : Op(c) = "register" => On(c) \in Rooms /\ c = Registration(On(c))
           /\ \A r \in Rooms : Registration(r) \in Calls /\ Op(Registration(r)) = "register"
<1>1. ASSUME NEW c \in Calls, Op(c) = "register" PROVE On(c) \in Rooms /\ c = Registration(On(c))
  <2>1. c \in Deliveries(RoomOps, Rooms)
    BY <1>1 DEF Calls, Deliveries, TrackOps, Op
  <2>2. PICK op \in RoomOps, x \in Rooms, n \in Nat : c = <<op, x, n>> /\ n \in 1..Copies[op]
    BY <2>1 DEF Deliveries
  <2>3. op = "register" /\ n = 1 /\ On(c) = x
    BY <1>1, <2>2 DEF Op, On, RegistersOnce
  <2> QED
    BY <2>2, <2>3 DEF Registration
<1>2. ASSUME NEW r \in Rooms PROVE Registration(r) \in Calls /\ Op(Registration(r)) = "register"
  BY DEF Registration, Calls, Deliveries, RoomOps, RegistersOnce, Op
<1> QED
  BY <1>1, <1>2

\* A step that finalizes no room and leaves the name, and moves registrations, finalizations
\* and unregistrations forward only.
LEMMA LiveKept ==
    ASSUME RegistersOnce, TypeInv, LiveInv, UNCHANGED <<registry, current>>,
           \A r \in Rooms :
              /\ room[r] = "pending" => room'[r] = "pending"
              /\ room[r] # "none" => room'[r] # "none"
              /\ room'[r] \in {"final_room", "completed"} => room[r] \in {"final_room", "completed"},
           \A c \in Calls :
              /\ pc'[c] = "final" => pc[c] = "final"
              /\ pc'[c] = "create" => pc[c] = "create" \/ Op(c) = "register"
              /\ pc'[c] = "delete" => pc[c] = "delete"
              /\ pc'[c] = "overwrite" =>
                    pc[c] = "overwrite" \/ (Op(c) = "register" /\ room'[On(c)] # "none"),
           \A c \in Calls : Op(c) \in RoomOps =>
              /\ pc[c] = "done" => pc'[c] = "done"
              /\ pc'[c] # "idle" => pc[c] # "idle" \/ Op(c) = "register"
              /\ pc'[c] \in {"idle", "current"} => pc[c] \in {"idle", "current"}
              /\ pc'[c] \in {"idle", "done"} /\ Op(c) = "register" => pc[c] \in {"idle", "done"}
    PROVE  LiveInv'
<1>1. \A r \in Rooms : Registered(r) => Registered(r)'
  BY OneRegistration DEF Registered, RoomOps
<1>2. SentInv'
  <2>1. \A c \in Calls : Op(c) \in {"unregister", "final"} => On(c) \in Rooms /\ Op(c) \in RoomOps
    BY CallFacts DEF RoomOps
  <2> QED
    BY <1>1, <2>1 DEF LiveInv, SentInv
<1>3. FoundInv'
  BY <1>1 DEF LiveInv, FoundInv, RoomOps
<1>4. FinalizedInv'
  BY <1>1 DEF LiveInv, FinalizedInv
<1>5. NameInv'
  <2>1. \A c \in Calls : Op(c) \in {"register", "final"} => On(c) \in Rooms /\ Op(c) \in RoomOps
    BY CallFacts DEF RoomOps
  <2> QED
    BY <1>1, <2>1 DEF LiveInv, NameInv, FinalizerInv
<1>6. RegisteredIsLive'
  <2>1. \A c \in Calls :
          Op(c) = "register" /\ pc[c] \notin {"idle", "done"} => pc'[c] \notin {"idle", "done"}
    BY DEF RoomOps
  <2> QED
    BY <2>1 DEF LiveInv, RegisteredIsLive
<1>7. FinalizerInv'
  BY DEF LiveInv, FinalizerInv
<1> QED
  BY <1>2, <1>3, <1>4, <1>5, <1>6, <1>7 DEF LiveInv

\* Every step keeps it.
LEMMA LiveStep ==
    ASSUME RegistersOnce, TypeInv, LiveInv, [Next]_vars
    PROVE  LiveInv'
<1> USE DEF roomVars, envVars, tallies
<1>0. \A c \in Calls : Op(c) \in TrackOps => Op(c) \notin RoomOps
  BY DEF TrackOps, RoomOps
<1>1. ASSUME NEW t \in Tracks, EnvStep(t) PROVE LiveInv'
  BY <1>1, EnvMoves, LiveKept
<1>2. ASSUME NEW c \in Calls, Deliver(c) PROVE LiveInv'
  <2>1. UNCHANGED <<registry, current, room>> /\ pc[c] = "idle" /\ pc' = [pc EXCEPT ![c] = Entry(c)]
    BY <1>2 DEF Deliver, MaySend
  <2>2. pc'[c] = Entry(c) /\ \A d \in Calls : d # c => pc'[d] = pc[d]
    BY <2>1 DEF TypeInv, TypeOK
  <2>3. Op(c) # "unregister" => LiveInv'
    <3>1. /\ Op(c) # "final" /\ Entry(c) \notin {"final", "create", "overwrite", "delete"}
          /\ Op(c) = "register" => Entry(c) = "current"
      BY <1>2 DEF Deliver, Due, Entry
    <3> QED
      BY <2>1, <2>2, <3>1, LiveKept DEF RoomOps
  <2>4. CASE Op(c) = "unregister"
    <3>1. On(c) \in Rooms /\ Registered(On(c))
      <4>1. Handled("register", On(c))
        BY <1>2, <2>4 DEF Deliver, Due
      <4>2. PICK n \in 1..Copies["register"] : pc[<<"register", On(c), n>>] = "done"
        BY <4>1 DEF Handled
      <4>3. n = 1
        BY <4>2 DEF RegistersOnce
      <4> QED
        BY <2>4, <4>2, <4>3, CallFacts DEF Registered, Registration, RoomOps
    <3>2. \A r \in Rooms : Registered(r) => Registered(r)'
      BY <2>1, <2>2, OneRegistration DEF Registered
    <3>3. SentInv' /\ FoundInv'
      <4>1. \A d \in Calls : Op(d) \in {"unregister", "final"} => On(d) \in Rooms
        BY CallFacts DEF RoomOps
      <4> QED
        BY <2>1, <2>2, <2>4, <3>1, <3>2, <4>1 DEF LiveInv, SentInv, FoundInv
    <3>4. FinalizedInv' /\ NameInv'
      BY <2>1, <2>2, <2>4, <3>2 DEF LiveInv, FinalizedInv, NameInv, Entry
    <3>5. RegisteredIsLive' /\ FinalizerInv'
      BY <2>1, <2>2, <2>4 DEF LiveInv, RegisteredIsLive, FinalizerInv, Entry
    <3> QED
      BY <3>3, <3>4, <3>5 DEF LiveInv
  <2> QED
    BY <2>3, <2>4
<1>3. ASSUME NEW c \in Calls, EventStep(c) PROVE LiveInv'
  <2>1. UNCHANGED <<registry, room, current>> /\ Op(c) \notin RoomOps
    BY <1>0, <1>3, EventMoves
  <2>2. \A d \in Calls : d # c => pc'[d] = pc[d]
    BY <1>3, EventMoves
  <2>3. pc'[c] \notin {"final", "create", "overwrite", "delete"}
    BY <1>3, EventMoves
  <2> QED
    BY <2>1, <2>2, <2>3, LiveKept
<1>4. ASSUME NEW c \in Calls, GateStep(c) PROVE LiveInv'
  <2>1. UNCHANGED <<registry, current>> /\ pc[c] \in GatePcs
    BY <1>4, GateMoves DEF GateTail
  <2>2. \A d \in Calls : d # c => pc'[d] = pc[d]
    BY <1>4, GateMoves
  <2>3. /\ pc'[c] \notin {"idle", "current", "overwrite", "final", "delete"}
        /\ (pc'[c] = "done" => Op(c) # "register") /\ (pc'[c] = "create" => Op(c) = "register")
    BY <1>4, GateMoves DEF GateTail, GatePcs
  <2>4. \A r \in Rooms :
          /\ room[r] = "pending" => room'[r] = "pending"
          /\ room[r] # "none" => room'[r] # "none"
          /\ room'[r] \in {"final_room", "completed"} => room[r] \in {"final_room", "completed"}
    BY <1>4, GateMoves
  <2> QED
    BY <2>1, <2>2, <2>3, <2>4, LiveKept DEF GatePcs
<1>5. ASSUME NEW c \in Calls, FinalRoomStatus(c) PROVE LiveInv'
  <2>1. UNCHANGED <<registry, current>> /\ pc[c] = "final"
    BY <1>5 DEF FinalRoomStatus
  <2>2. \A d \in Calls : d # c => pc'[d] = pc[d]
    BY <1>5 DEF FinalRoomStatus, Then, TypeInv, TypeOK
  <2>3. pc'[c] \notin {"idle", "current", "overwrite", "delete"}
        /\ (pc'[c] = "done" => Op(c) # "register") /\ (pc'[c] = "create" => Op(c) = "register")
    BY <1>5 DEF FinalRoomStatus, Then, TypeInv, TypeOK, AfterComplete
  <2>4. CASE UNCHANGED room
    BY <2>1, <2>2, <2>3, <2>4, LiveKept
  <2>5. CASE /\ room[Room(c)] = "pending" /\ room' = [room EXCEPT ![Room(c)] = "final_room"]
             /\ Then(c, "notify")
    <3>1. Room(c) \in Rooms /\ Op(c) \in {"register", "final"}
      BY <2>1, GateRoom DEF GatePcs, TypeInv, LiveInv, FinalizerInv
    <3>2. \A r \in Rooms : Registered(r) => Registered(r)'
      BY <2>1, <2>2, OneRegistration DEF Registered
    <3>3. /\ Registered(Room(c))
          /\ registry = Room(c) => Op(c) = "register" /\ current[c] = Room(c)
      <4>1. CASE Op(c) = "register"
        BY <2>1, <3>1, <4>1 DEF LiveInv, FoundInv, Room
      <4>2. CASE Op(c) = "final"
        <5>1. Room(c) = On(c)
          BY <4>2 DEF Room
        <5>2. Registered(On(c))
          BY <2>1, <4>2 DEF LiveInv, SentInv
        <5>3. registry # On(c)
          BY <2>1, <4>2 DEF LiveInv, NameInv
        <5> QED
          BY <5>1, <5>2, <5>3
      <4> QED
        BY <3>1, <4>1, <4>2
    <3>4. room'[Room(c)] = "final_room" /\ \A r \in Rooms : r # Room(c) => room'[r] = room[r]
      BY <2>5, <3>1 DEF TypeInv, TypeOK
    <3>5. pc'[c] = "notify"
      BY <2>5 DEF Then, TypeInv, TypeOK
    <3>6. SentInv'
      <4>1. \A d \in Calls : Op(d) \in {"unregister", "final"} => On(d) \in Rooms
        BY CallFacts DEF RoomOps
      <4> QED
        BY <2>1, <2>2, <3>2, <4>1 DEF LiveInv, SentInv
    <3>7. FoundInv' /\ FinalizerInv'
      BY <2>1, <2>2, <3>2, <3>5 DEF LiveInv, FoundInv, FinalizerInv
    <3>8. FinalizedInv'
      BY <3>2, <3>3, <3>4 DEF LiveInv, FinalizedInv
    <3>9. NameInv'
      <4>1. \A d \in Calls : Op(d) = "register" => On(d) \in Rooms
        BY CallFacts DEF RoomOps
      <4> QED
        BY <2>1, <2>2, <3>2, <3>4, <3>5, <4>1 DEF LiveInv, NameInv, FinalizerInv
    <3>10. RegisteredIsLive'
      <4>1. ASSUME NEW r \in Rooms, registry = r, r # Room(c)
            PROVE  \/ room'[r] = "pending"
                   \/ \E d \in Calls : Op(d) = "register" /\ current[d] = r /\ pc'[d] \notin {"idle", "done"}
        BY <2>2, <3>4, <3>5, <4>1 DEF LiveInv, RegisteredIsLive
      <4>2. CASE registry = Room(c)
        BY <2>1, <3>3, <3>5, <4>2 DEF RegisteredIsLive
      <4> QED
        BY <2>1, <4>1, <4>2 DEF RegisteredIsLive
    <3> QED
      BY <3>6, <3>7, <3>8, <3>9, <3>10 DEF LiveInv
  <2> QED
    BY <1>5, <2>4, <2>5 DEF FinalRoomStatus
<1>6. ASSUME NEW c \in Calls, CreateRoom(c) PROVE LiveInv'
  <2>1. UNCHANGED <<registry, current>> /\ pc[c] = "create" /\ Op(c) = "register" /\ On(c) \in Rooms
    BY <1>6, CallFacts DEF CreateRoom, LiveInv, FinalizerInv, RoomOps
  <2>2. \A d \in Calls : d # c => pc'[d] = pc[d]
    BY <1>6 DEF CreateRoom, Then, TypeInv, TypeOK
  <2>3. pc'[c] = "error" \/ (pc'[c] = "overwrite" /\ room'[On(c)] # "none")
    BY <1>6, <2>1 DEF CreateRoom, Then, TypeInv, TypeOK
  <2>4. \A r \in Rooms :
          /\ room[r] = "pending" => room'[r] = "pending"
          /\ room[r] # "none" => room'[r] # "none"
          /\ room'[r] \in {"final_room", "completed"} => room[r] \in {"final_room", "completed"}
    BY <1>6 DEF CreateRoom, TypeInv, TypeOK
  <2> QED
    BY <2>1, <2>2, <2>3, <2>4, LiveKept
<1>7. ASSUME NEW c \in Calls, OverwriteRegistry(c) PROVE LiveInv'
  <2>1. UNCHANGED <<room, current>> /\ pc[c] = "overwrite" /\ registry' = On(c)
    BY <1>7 DEF OverwriteRegistry
  <2>2. pc'[c] = "done" /\ \A d \in Calls : d # c => pc'[d] = pc[d]
    BY <1>7 DEF OverwriteRegistry, Then, TypeInv, TypeOK
  <2>3. Op(c) = "register" /\ On(c) \in Rooms /\ c = Registration(On(c))
    BY <2>1, OneRegistration DEF LiveInv, FinalizerInv
  <2>4. ~Registered(On(c)) /\ Registered(On(c))' /\ \A r \in Rooms : Registered(r) => Registered(r)'
    <3>1. Registered(On(c))'
      <4>1. On(c)' = On(c)
        BY DEF On
      <4> QED
        BY <2>2, <2>3, <4>1 DEF Registered
    <3>2. ~Registered(On(c))
      BY <2>1, <2>3 DEF Registered
    <3>3. \A r \in Rooms : Registered(r) => Registered(r)'
      BY <2>1, <2>2, OneRegistration DEF Registered
    <3> QED
      BY <3>1, <3>2, <3>3
  <2>5. room[On(c)] = "pending"
    BY <2>1, <2>3, <2>4 DEF LiveInv, FinalizedInv, NameInv, TypeInv, TypeOK
  <2>6. SentInv'
    <3>1. \A d \in Calls : Op(d) \in {"unregister", "final"} => On(d) \in Rooms
      BY CallFacts DEF RoomOps
    <3> QED
      BY <2>1, <2>2, <2>3, <2>4, <3>1 DEF LiveInv, SentInv
  <2>7. FoundInv' /\ FinalizerInv' /\ FinalizedInv'
    BY <2>1, <2>2, <2>4 DEF LiveInv, FoundInv, FinalizerInv, FinalizedInv
  <2>8. NameInv'
    <3>1. \A r \in Rooms : registry' = r => Registered(r)' /\ room'[r] # "none"
      BY <2>1, <2>4, <2>5
    <3>2. ASSUME NEW d \in Calls, Op(d) = "final", pc'[d] # "idle" PROVE registry' # On(d)
      BY <2>1, <2>2, <2>3, <2>4, <3>2 DEF LiveInv, SentInv
    <3>3. \A d \in Calls : pc'[d] = "overwrite" => room'[On(d)] # "none"
      BY <2>1, <2>2 DEF LiveInv, NameInv
    <3> QED
      BY <3>1, <3>2, <3>3 DEF NameInv
  <2>9. RegisteredIsLive'
    BY <2>1, <2>5 DEF RegisteredIsLive
  <2> QED
    BY <2>6, <2>7, <2>8, <2>9 DEF LiveInv
<1>8. ASSUME NEW c \in Calls, RegisterLooksUp(c) PROVE LiveInv'
  <2>1. UNCHANGED <<registry, room>> /\ pc[c] = "current" /\ Op(c) = "register"
    BY <1>8 DEF RegisterLooksUp
  <2>2. pc'[c] \in {"final", "create"} /\ \A d \in Calls : d # c => pc'[d] = pc[d]
    BY <1>8 DEF RegisterLooksUp, Then, TypeInv, TypeOK
  <2>3. current'[c] = registry /\ \A d \in Calls : d # c => current'[d] = current[d]
    BY <1>8 DEF RegisterLooksUp, TypeInv, TypeOK
  <2>4. \A r \in Rooms : Registered(r) => Registered(r)'
    BY <2>1, <2>2, OneRegistration DEF Registered
  <2>5. SentInv'
    <3>1. \A d \in Calls : Op(d) \in {"unregister", "final"} => On(d) \in Rooms
      BY CallFacts DEF RoomOps
    <3> QED
      BY <2>1, <2>2, <2>4, <3>1 DEF LiveInv, SentInv
  <2>6. FoundInv'
    <3>1. ASSUME NEW d \in Calls, Op(d) = "register", d # c
          PROVE  /\ pc'[d] \in {"idle", "current"} => current'[d] = None
                 /\ current'[d] \in Rooms => Registered(current[d])'
      BY <2>2, <2>3, <2>4, <3>1 DEF LiveInv, FoundInv
    <3>2. current'[c] \in Rooms => Registered(registry)'
      BY <2>1, <2>3, <2>4 DEF LiveInv, NameInv
    <3> QED
      BY <2>1, <2>2, <2>3, <3>1, <3>2 DEF FoundInv, Registered
  <2>7. FinalizedInv' /\ NameInv'
    BY <2>1, <2>2, <2>4 DEF LiveInv, FinalizedInv, NameInv
  <2>8. FinalizerInv'
    BY <2>1, <2>2 DEF LiveInv, FinalizerInv
  <2>9. RegisteredIsLive'
    BY <2>1, <2>2, <2>3 DEF RegisteredIsLive
  <2> QED
    BY <2>5, <2>6, <2>7, <2>8, <2>9 DEF LiveInv
<1>9. ASSUME NEW c \in Calls, UnregisterLooksUp(c) \/ DeleteEntry(c) PROVE LiveInv'
  <2>0. PICK b : b = Background(c)
    OBVIOUS
  <2>1. /\ Op(c) = "unregister" /\ On(c) \in Rooms /\ pc[c] # "idle" /\ pc[c] # "done"
        /\ UNCHANGED room
    BY <1>9, CallFacts DEF UnregisterLooksUp, DeleteEntry, LiveInv, FinalizerInv, RoomOps
  <2>2. b \in Calls /\ Op(b) = "final" /\ On(b) = On(c) /\ b # c
    BY <2>0, <2>1, CallFacts DEF Background, Op, On
  <2>3. \A d \in Calls : Op(d) = "register" => current'[d] = current[d]
    BY <1>9, <2>1 DEF UnregisterLooksUp, DeleteEntry, TypeInv, TypeOK
  <2>4. registry' \in {registry, None}
    BY <1>9 DEF UnregisterLooksUp, DeleteEntry
  <2>5. /\ pc'[c] \in {"done", "delete", "error"}
        /\ pc'[b] = pc[b] \/ (pc'[b] = "final" /\ registry' # On(c))
        /\ \A d \in Calls : d # c /\ d # b => pc'[d] = pc[d]
    <3>1. On(c) # None
      BY <2>1, RoomsAssumption
    <3>2. CASE SpawnFinalRoom(c) /\ registry' # On(c)
      BY <2>0, <2>2, <3>2 DEF SpawnFinalRoom, TypeInv, TypeOK
    <3>3. CASE Then(c, "delete") \/ Then(c, "error")
      BY <2>2, <3>3 DEF Then, TypeInv, TypeOK
    <3> QED
      BY <1>9, <3>1, <3>2, <3>3 DEF UnregisterLooksUp, DeleteEntry, OwnsEntry
  <2>6. \A r \in Rooms : Registered(r) => Registered(r)'
    BY <2>1, <2>2, <2>5, OneRegistration DEF Registered
  <2>7. SentInv'
    <3>1. \A d \in Calls : Op(d) \in {"unregister", "final"} => On(d) \in Rooms
      BY CallFacts DEF RoomOps
    <3>2. Registered(On(c))
      BY <2>1 DEF LiveInv, SentInv
    <3> QED
      BY <2>1, <2>2, <2>5, <2>6, <3>1, <3>2 DEF LiveInv, SentInv
  <2>8. FoundInv'
    BY <2>1, <2>2, <2>3, <2>5, <2>6 DEF LiveInv, FoundInv
  <2>9. FinalizedInv' /\ FinalizerInv'
    BY <2>1, <2>2, <2>5, <2>6 DEF LiveInv, FinalizedInv, FinalizerInv
  <2>10. NameInv'
    <3>1. \A r \in Rooms : registry' = r => registry = r
      BY <2>4, RoomsAssumption
    <3>2. \A d \in Calls : Op(d) = "final" => On(d) \in Rooms
      BY CallFacts DEF RoomOps
    <3> QED
      BY <2>1, <2>2, <2>5, <2>6, <3>1, <3>2 DEF LiveInv, NameInv
  <2>11. RegisteredIsLive'
    <3>1. \A r \in Rooms : registry' = r => registry = r
      BY <2>4, RoomsAssumption
    <3> QED
      BY <2>1, <2>2, <2>3, <2>5, <3>1 DEF LiveInv, RegisteredIsLive
  <2> QED
    BY <2>7, <2>8, <2>9, <2>10, <2>11 DEF LiveInv
<1>10. ASSUME Crash PROVE LiveInv'
  <2>1. UNCHANGED <<registry, room, current>>
    BY <1>10 DEF Crash
  <2>2. /\ \A c \in Calls : /\ pc'[c] \in {pc[c], "error", "idle"}
                            /\ pc[c] \in {"idle", "done"} => pc'[c] = pc[c]
        /\ \A c \in Calls : Op(c) \in RoomOps /\ pc'[c] = "idle" => pc[c] = "idle"
    <3>1. \A c \in Calls : pc'[c] = IF pc[c] \in {"idle", "done", "error"} THEN pc[c]
                                    ELSE IF Redelivered(c) THEN "idle" ELSE "error"
      BY <1>10 DEF Crash
    <3>2. \A c \in Calls : Op(c) \in RoomOps => ~Redelivered(c)
      BY DEF Redelivered, TrackOps, RoomOps
    <3> QED
      BY <3>1, <3>2
  <2> QED
    BY <2>1, <2>2, LiveKept
<1>11. ASSUME UNCHANGED vars PROVE LiveInv'
  BY <1>11 DEF vars, LiveInv, SentInv, FoundInv, FinalizedInv, NameInv, FinalizerInv, Registered,
     RegisteredIsLive
<1> QED
  BY <1>1, <1>2, <1>3, <1>4, <1>5, <1>6, <1>7, <1>8, <1>9, <1>10, <1>11 DEF Next, RoomStep

\* Where a session registers once, the room that the name points to is live, or a registration
\* that found it there is taking its name: an unregistration gives the name up before its room
\* is finalized, and a registration only finalizes the room whose name it is about to take.
THEOREM RegisteredIsLiveAlways == ASSUME RegistersOnce PROVE Spec => []RegisteredIsLive
<1>1. Init => TypeInv /\ LiveInv
  <2>1. Init => LiveInv
    BY RoomsAssumption DEF Init, LiveInv, SentInv, FoundInv, FinalizedInv, NameInv, FinalizerInv,
       RegisteredIsLive
  <2> QED
    BY <2>1, TypeInit
<1>2. TypeInv /\ LiveInv /\ [Next]_vars => (TypeInv /\ LiveInv)'
  BY TypeStep, LiveStep
<1>3. LiveInv => RegisteredIsLive
  BY DEF LiveInv
<1> QED
  BY <1>1, <1>2, <1>3, PTL DEF Spec

--------------------------------------------------------------------------------
(* What a registration supersedes *)

\* Where a registration is once it has finalized the room it found.
Superseding == GateTail \cup {"create", "overwrite"}

\* The name points to a room that exists, so a registration has found one that does.
ExistInv ==
    /\ registry \in Rooms => room[registry] # "none"
    /\ \A c \in Calls :
          /\ Op(c) = "register" /\ current[c] \in Rooms => room[current[c]] # "none"
          /\ pc[c] \in {"create", "overwrite"} => Op(c) = "register"
          /\ pc[c] = "overwrite" => room[On(c)] # "none"
\* A registration has finalized the room it found before it goes on to its own.
PassedInv ==
    \A c \in Calls : Op(c) = "register" /\ pc[c] \in Superseding /\ current[c] \in Rooms \ {On(c)} =>
        room[current[c]] \in {"final_room", "completed"}

SupInv == ExistInv /\ PassedInv

\* A step that leaves the name and what registrations found, takes no room back and takes no
\* registration past the finalization.
LEMMA SupKept ==
    ASSUME TypeInv, SupInv, UNCHANGED registry,
           \A r \in Rooms :
              /\ room[r] # "none" => room'[r] # "none"
              /\ room[r] \in {"final_room", "completed"} => room'[r] \in {"final_room", "completed"},
           \A c \in Calls :
              /\ Op(c) = "register" => current'[c] = current[c]
              /\ Op(c) = "register" /\ pc'[c] \in Superseding => pc[c] \in Superseding
              /\ pc'[c] = "create" => pc[c] = "create" \/ Op(c) = "register"
              /\ pc'[c] = "overwrite" =>
                    pc[c] = "overwrite" \/ (Op(c) = "register" /\ room'[On(c)] # "none")
    PROVE  SupInv'
<1>1. ExistInv'
  <2>1. \A c \in Calls : Op(c) = "register" => On(c) \in Rooms
    BY CallFacts DEF RoomOps
  <2> QED
    BY <2>1 DEF SupInv, ExistInv
<1>2. PassedInv'
  BY DEF SupInv, PassedInv
<1> QED
  BY <1>1, <1>2 DEF SupInv

\* Every step keeps it, when no status update of a room fails.
LEMMA SupStep ==
    ASSUME "check" \notin Faults, TypeInv, SupInv, [Next]_vars
    PROVE  SupInv'
<1> USE DEF roomVars, envVars, tallies
<1>0. \A c \in Calls : Op(c) \in TrackOps => Op(c) # "register"
  BY DEF TrackOps
<1>1. ASSUME NEW t \in Tracks, EnvStep(t) PROVE SupInv'
  BY <1>1, EnvMoves, SupKept
<1>2. ASSUME NEW c \in Calls, Deliver(c) PROVE SupInv'
  <2>1. UNCHANGED <<registry, current, room>> /\ pc' = [pc EXCEPT ![c] = Entry(c)]
    BY <1>2 DEF Deliver
  <2>2. pc'[c] = Entry(c) /\ \A d \in Calls : d # c => pc'[d] = pc[d]
    BY <2>1 DEF TypeInv, TypeOK
  <2>3. Entry(c) \notin Superseding
    BY DEF Entry, Superseding, GateTail, GatePcs
  <2> QED
    BY <2>1, <2>2, <2>3, SupKept DEF Superseding
<1>3. ASSUME NEW c \in Calls, EventStep(c) PROVE SupInv'
  <2>1. UNCHANGED <<registry, room, current>> /\ Op(c) # "register"
    BY <1>0, <1>3, EventMoves
  <2>2. pc'[c] \notin {"create", "overwrite"} /\ \A d \in Calls : d # c => pc'[d] = pc[d]
    BY <1>3, EventMoves
  <2> QED
    BY <2>1, <2>2, SupKept
<1>4. ASSUME NEW c \in Calls, GateStep(c) PROVE SupInv'
  <2>1. UNCHANGED <<registry, current>> /\ pc[c] \in Superseding
    BY <1>4, GateMoves DEF Superseding
  <2>2. \A d \in Calls : d # c => pc'[d] = pc[d]
    BY <1>4, GateMoves
  <2>3. pc'[c] # "overwrite" /\ (pc'[c] = "create" => Op(c) = "register")
    BY <1>4, GateMoves DEF GateTail, GatePcs
  <2>4. \A r \in Rooms :
          /\ room[r] # "none" => room'[r] # "none"
          /\ room[r] \in {"final_room", "completed"} => room'[r] \in {"final_room", "completed"}
    BY <1>4, GateMoves
  <2> QED
    BY <2>1, <2>2, <2>3, <2>4, SupKept
<1>5. ASSUME NEW c \in Calls, FinalRoomStatus(c) PROVE SupInv'
  <2>1. UNCHANGED <<registry, current>> /\ pc[c] = "final"
    BY <1>5 DEF FinalRoomStatus
  <2>2. \A d \in Calls : d # c => pc'[d] = pc[d]
    BY <1>5 DEF FinalRoomStatus, Then, TypeInv, TypeOK
  <2>3. pc'[c] # "overwrite" /\ (pc'[c] = "create" => Op(c) = "register")
    BY <1>5 DEF FinalRoomStatus, Then, TypeInv, TypeOK, AfterComplete
  <2>4. Room(c) \in Rooms
    BY <2>1, GateRoom DEF GatePcs, TypeInv
  <2>5. /\ \A r \in Rooms :
              /\ room[r] # "none" => room'[r] # "none"
              /\ room[r] \in {"final_room", "completed"} => room'[r] \in {"final_room", "completed"}
        /\ room[Room(c)] # "none" => room'[Room(c)] \in {"final_room", "completed"}
    BY <1>5, <2>4 DEF FinalRoomStatus, TypeInv, TypeOK
  <2>6. ExistInv'
    <3>1. \A d \in Calls : Op(d) = "register" => On(d) \in Rooms
      BY CallFacts DEF RoomOps
    <3> QED
      BY <2>1, <2>2, <2>3, <2>5, <3>1 DEF SupInv, ExistInv
  <2>7. PassedInv'
    <3>1. ASSUME NEW d \in Calls, d # c, Op(d) = "register", pc'[d] \in Superseding,
                 current[d] \in Rooms \ {On(d)}
          PROVE  room'[current[d]] \in {"final_room", "completed"}
      BY <2>2, <2>5, <3>1 DEF SupInv, PassedInv
    <3>2. ASSUME Op(c) = "register" PROVE room'[current[c]] \in {"final_room", "completed"}
      <4>1. Room(c) = current[c]
        BY <3>2 DEF Room
      <4>2. room[current[c]] # "none"
        BY <2>4, <3>2, <4>1 DEF SupInv, ExistInv
      <4> QED
        BY <2>5, <4>1, <4>2
    <3> QED
      BY <2>1, <3>1, <3>2 DEF PassedInv
  <2> QED
    BY <2>6, <2>7 DEF SupInv
<1>6. ASSUME NEW c \in Calls, RegisterLooksUp(c) PROVE SupInv'
  <2>1. UNCHANGED <<registry, room>> /\ Op(c) = "register"
    BY <1>6 DEF RegisterLooksUp
  <2>2. /\ pc'[c] = IF Supersedes(c) THEN "final" ELSE "create"
        /\ \A d \in Calls : d # c => pc'[d] = pc[d]
    BY <1>6 DEF RegisterLooksUp, Then, TypeInv, TypeOK
  <2>3. current'[c] = registry /\ \A d \in Calls : d # c => current'[d] = current[d]
    BY <1>6 DEF RegisterLooksUp, TypeInv, TypeOK
  <2>4. ExistInv'
    BY <2>1, <2>2, <2>3 DEF SupInv, ExistInv
  <2>5. PassedInv'
    <3>1. ~(pc'[c] \in Superseding /\ current'[c] \in Rooms \ {On(c)})
      BY <2>2, <2>3, RoomsAssumption DEF Supersedes, Superseding, GateTail, GatePcs
    <3> QED
      BY <2>1, <2>2, <2>3, <3>1 DEF SupInv, PassedInv
  <2> QED
    BY <2>4, <2>5 DEF SupInv
<1>7. ASSUME NEW c \in Calls, CreateRoom(c) PROVE SupInv'
  <2>1. UNCHANGED <<registry, current>> /\ pc[c] = "create" /\ Op(c) = "register" /\ On(c) \in Rooms
    BY <1>7, CallFacts DEF CreateRoom, SupInv, ExistInv, RoomOps
  <2>2. \A d \in Calls : d # c => pc'[d] = pc[d]
    BY <1>7 DEF CreateRoom, Then, TypeInv, TypeOK
  <2>3. pc'[c] = "overwrite" /\ room'[On(c)] # "none"
    BY <1>7, <2>1 DEF CreateRoom, Then, TypeInv, TypeOK
  <2>4. \A r \in Rooms :
          /\ room[r] # "none" => room'[r] # "none"
          /\ room[r] \in {"final_room", "completed"} => room'[r] \in {"final_room", "completed"}
    BY <1>7 DEF CreateRoom, TypeInv, TypeOK
  <2> QED
    BY <2>1, <2>2, <2>3, <2>4, SupKept DEF Superseding
<1>8. ASSUME NEW c \in Calls, OverwriteRegistry(c) PROVE SupInv'
  <2>1. UNCHANGED <<room, current>> /\ pc[c] = "overwrite" /\ registry' = On(c)
    BY <1>8 DEF OverwriteRegistry
  <2>2. pc'[c] = "done" /\ \A d \in Calls : d # c => pc'[d] = pc[d]
    BY <1>8 DEF OverwriteRegistry, Then, TypeInv, TypeOK
  <2>3. ExistInv'
    BY <2>1, <2>2 DEF SupInv, ExistInv
  <2>4. PassedInv'
    BY <2>1, <2>2 DEF SupInv, PassedInv, Superseding, GateTail, GatePcs
  <2> QED
    BY <2>3, <2>4 DEF SupInv
<1>9. ASSUME NEW c \in Calls, UnregisterLooksUp(c) PROVE SupInv'
  <2>1. UNCHANGED <<registry, room>> /\ Op(c) = "unregister"
    BY <1>9 DEF UnregisterLooksUp
  <2>2. \A d \in Calls : Op(d) = "register" => current'[d] = current[d]
    BY <1>9, <2>1 DEF UnregisterLooksUp, TypeInv, TypeOK
  <2>3. \A d \in Calls : pc'[d] \in {"done", "delete"} \/ (Op(d) = "final" /\ pc'[d] = "final") \/ pc'[d] = pc[d]
    BY <1>9, CallFacts DEF UnregisterLooksUp, SpawnFinalRoom, Then, TypeInv, TypeOK
  <2> QED
    BY <2>1, <2>2, <2>3, SupKept DEF Superseding, GateTail, GatePcs
<1>10. ASSUME NEW c \in Calls, DeleteEntry(c) PROVE SupInv'
  <2>1. registry' = None /\ UNCHANGED <<room, current>>
    BY <1>10 DEF DeleteEntry
  <2>2. \A d \in Calls : pc'[d] \in {"done", "error"} \/ (Op(d) = "final" /\ pc'[d] = "final") \/ pc'[d] = pc[d]
    BY <1>10, CallFacts DEF DeleteEntry, SpawnFinalRoom, Then, TypeInv, TypeOK
  <2>3. ExistInv'
    BY <2>1, <2>2, RoomsAssumption DEF SupInv, ExistInv
  <2>4. PassedInv'
    BY <2>1, <2>2 DEF SupInv, PassedInv, Superseding, GateTail, GatePcs
  <2> QED
    BY <2>3, <2>4 DEF SupInv
<1>11. ASSUME Crash PROVE SupInv'
  <2>1. UNCHANGED <<registry, room, current>> /\ \A c \in Calls : pc'[c] \in {pc[c], "error", "idle"}
    BY <1>11 DEF Crash
  <2> QED
    BY <2>1, SupKept DEF Superseding, GateTail, GatePcs
<1>12. ASSUME UNCHANGED vars PROVE SupInv'
  BY <1>12, SupKept DEF vars
<1> QED
  BY <1>1, <1>2, <1>3, <1>4, <1>5, <1>6, <1>7, <1>8, <1>9, <1>10, <1>11, <1>12 DEF Next, RoomStep

\* Where the database answers, the session a registration found under the name has been finalized
\* when the registration takes the name from it, however often sessions register, whatever
\* crashes and whoever else finalizes.
THEOREM SupersededIsFinalAlways == ASSUME "check" \notin Faults PROVE Spec => SupersededIsFinal
<1>1. Init => SupInv
  BY RoomsAssumption DEF Init, SupInv, ExistInv, PassedInv, Superseding, GateTail, GatePcs
<1>2. TypeInv /\ SupInv /\ [Next]_vars => SupInv'
  BY SupStep
<1>3. ASSUME TypeInv, SupInv, NEW c \in Calls, OverwriteRegistry(c),
             registry \in {current[c]} \ {None, On(c)}
      PROVE  room[registry] # "pending"
  <2>1. pc[c] \in Superseding /\ Op(c) = "register"
    BY <1>3 DEF OverwriteRegistry, SupInv, ExistInv, Superseding
  <2>2. current[c] \in Rooms \ {On(c)} /\ registry = current[c]
    BY <1>3 DEF TypeInv, TypeOK
  <2> QED
    BY <1>3, <2>1, <2>2 DEF SupInv, PassedInv
<1>4. TypeInv /\ SupInv /\ [Next]_vars =>
        [\A c \in Calls : OverwriteRegistry(c) /\ registry \in {current[c]} \ {None, On(c)}
            => room[registry] # "pending"]_vars
  BY <1>3
<1> QED
  BY TypeInit, TypeStep, <1>1, <1>2, <1>4, PTL DEF Spec, SupersededIsFinal

--------------------------------------------------------------------------------
(* What is saved stays saved *)

\* record-service reports a completed recording once and gets its answer.
ReportedOnce == Copies["completed"] <= 1 /\ MaxCrashes = 0

\* A transcript comes from a task, a task from the report of the recording, which is then past
\* its write of the row; what a row says was transcribed was.
StaysInv ==
    /\ \A t \in Tracks : transcript[t] # "no" => <<"stt", t>> \in queued
    /\ \A t \in Tracks : track[t].stt = "completed" => transcript[t] # "no"
    /\ \A c \in Calls :
          /\ Op(c) = "completed" /\ <<"stt", On(c)>> \in queued => pc[c] \in {"derive", "done"}
          /\ pc[c] = "stt" => Op(c) = "completed"
          /\ pc[c] = "mark" => Op(c) \in {"saved", "tts"}
          /\ Op(c) \in {"saved", "tts"} /\ pc[c] # "idle" => transcript[On(c)] # "no"

\* A recording is reported by one call.
LEMMA OneReport ==
    ASSUME ReportedOnce, NEW c \in Calls, NEW d \in Calls,
           Op(c) = "completed", Op(d) = "completed", On(c) = On(d)
    PROVE  c = d
<1>1. ASSUME NEW e \in Calls, Op(e) = "completed" PROVE e = <<"completed", On(e), 1>>
  <2>1. e \in Deliveries(TrackOps, Tracks)
    BY <1>1 DEF Calls, Deliveries, RoomOps, Op
  <2>2. PICK op \in TrackOps, x \in Tracks, n \in Nat : e = <<op, x, n>> /\ n \in 1..Copies[op]
    BY <2>1 DEF Deliveries
  <2>3. op = "completed" /\ On(e) = x
    BY <1>1, <2>2 DEF Op, On
  <2>4. Copies["completed"] \in Nat /\ Copies["completed"] <= 1
    BY CopiesAssumption DEF ReportedOnce, TrackOps
  <2>5. n = 1
    BY <2>2, <2>3, <2>4
  <2> QED
    BY <2>2, <2>3, <2>5
<1> QED
  BY <1>1

\* A step that queues and transcribes nothing and only moves calls along.
LEMMA StaysKept ==
    ASSUME TypeInv, StaysInv, UNCHANGED <<transcript, queued>>,
           \A t \in Tracks : track'[t].stt = "completed" => transcript[t] # "no",
           \A c \in Calls :
              /\ pc'[c] = "stt" => pc[c] = "stt" \/ Op(c) = "completed"
              /\ pc'[c] = "mark" => pc[c] = "mark" \/ Op(c) \in {"saved", "tts"}
              /\ Op(c) = "completed" /\ pc[c] \in {"derive", "done"} => pc'[c] \in {"derive", "done"}
              /\ Op(c) \in {"saved", "tts"} /\ pc'[c] # "idle" => pc[c] # "idle" \/ transcript[On(c)] # "no"
    PROVE  StaysInv'
<1>1. \A t \in Tracks : transcript'[t] # "no" => <<"stt", t>> \in queued'
  BY DEF StaysInv
<1>2. \A c \in Calls : Op(c) = "completed" => On(c) \in Tracks
  BY CallFacts DEF TrackOps
<1>3. \A c \in Calls :
          /\ Op(c) = "completed" /\ <<"stt", On(c)>> \in queued' => pc'[c] \in {"derive", "done"}
          /\ pc'[c] = "stt" => Op(c) = "completed"
          /\ pc'[c] = "mark" => Op(c) \in {"saved", "tts"}
          /\ Op(c) \in {"saved", "tts"} /\ pc'[c] # "idle" => transcript'[On(c)] # "no"
  BY DEF StaysInv
<1> QED
  BY <1>1, <1>3 DEF StaysInv

\* Every step keeps it and takes no saved transcript back, where every transcript is a worker's
\* and every recording is reported once.
LEMMA StaysStep ==
    ASSUME TtsTracks = {}, ReportedOnce, TypeInv, StaysInv, [Next]_vars
    PROVE  /\ StaysInv'
           /\ \A t \in Tracks : track[t].stt = "completed" => track'[t].stt \notin Unfinished
<1> USE DEF roomVars, envVars, tallies
<1>0. \A t \in Tracks : track[t].stt = "completed" => transcript[t] # "no"
  BY DEF StaysInv
<1> DEFINE Kept == \A t \in Tracks : track[t].stt = "completed" => track'[t].stt \notin Unfinished
<1>1. UNCHANGED track => Kept
  BY DEF Unfinished
<1>2. ASSUME NEW t \in Tracks, EnvStep(t) PROVE StaysInv' /\ Kept
  <2>1. UNCHANGED <<track, pc, queued>>
    BY <1>2 DEF EnvStep, BeginTrack, EndTrack, Transcribe, EndSpeech, Transcode
  <2>2. \A u \in Tracks : /\ transcript[u] # "no" => transcript'[u] # "no"
                          /\ transcript'[u] # "no" => transcript[u] # "no" \/ <<"stt", u>> \in queued
    BY <1>2 DEF EnvStep, BeginTrack, EndTrack, Transcribe, EndSpeech, Transcode, TypeInv, TypeOK
  <2>3. \A c \in Calls : Op(c) \in {"saved", "tts"} => On(c) \in Tracks
    BY CallFacts DEF TrackOps
  <2>4. StaysInv'
    BY <2>1, <2>2, <2>3 DEF StaysInv
  <2> QED
    BY <1>1, <2>1, <2>4
<1>3. ASSUME NEW c \in Calls, Deliver(c) PROVE StaysInv' /\ Kept
  <2>1. UNCHANGED <<track, transcript, queued>> /\ pc[c] = "idle" /\ pc' = [pc EXCEPT ![c] = Entry(c)]
    BY <1>3 DEF Deliver, MaySend
  <2>2. pc'[c] = Entry(c) /\ \A d \in Calls : d # c => pc'[d] = pc[d]
    BY <2>1 DEF TypeInv, TypeOK
  <2>3. Entry(c) # "stt" /\ (Entry(c) = "mark" => Op(c) \in {"saved", "tts"})
    BY NextTail DEF Entry
  <2>4. Op(c) \in {"saved", "tts"} => transcript[On(c)] # "no"
    BY <1>3 DEF Deliver, Due
  <2>5. StaysInv'
    BY <1>0, <2>1, <2>2, <2>3, <2>4, StaysKept
  <2> QED
    BY <1>1, <2>1, <2>5
<1>4. ASSUME NEW c \in Calls,
             Resolve(c) \/ LoadTrack(c) \/ Acknowledge(c) \/ EnqueueDerivative(c)
      PROVE  StaysInv' /\ Kept
  <2>1. UNCHANGED <<track, transcript>> /\ pc[c] # "idle"
    BY <1>4 DEF Resolve, LoadTrack, Acknowledge, EnqueueDerivative, Enqueue
  <2>2. /\ \A d \in Calls : d # c => pc'[d] = pc[d]
        /\ pc'[c] \in {"done", "insert", "load", "write"} /\ (pc[c] \in {"derive", "done"} => pc'[c] = "done")
    BY <1>4 DEF Resolve, LoadTrack, Acknowledge, EnqueueDerivative, Enqueue, Then, TypeInv, TypeOK
  <2>3. \A t \in Tracks : <<"stt", t>> \in queued' <=> <<"stt", t>> \in queued
    BY <1>4 DEF Resolve, LoadTrack, Acknowledge, EnqueueDerivative, Enqueue
  <2>4. \A d \in Calls : Op(d) = "completed" => On(d) \in Tracks
    BY CallFacts DEF TrackOps
  <2>5. StaysInv'
    BY <2>1, <2>2, <2>3, <2>4 DEF StaysInv
  <2> QED
    BY <1>1, <2>1, <2>5
<1>5. ASSUME NEW c \in Calls, CreateTrackPlaceholder(c) PROVE StaysInv' /\ Kept
  <2>1. UNCHANGED <<transcript, queued>> /\ pc[c] = "insert"
    BY <1>5 DEF CreateTrackPlaceholder
  <2>2. pc'[c] = "done" /\ \A d \in Calls : d # c => pc'[d] = pc[d]
    BY <1>5 DEF CreateTrackPlaceholder, Then, TypeInv, TypeOK
  <2>3. \A t \in Tracks : track'[t].stt = track[t].stt \/ (track[t] = NoRow /\ track'[t].stt = "pending")
    BY <1>5, SttPlaced
  <2>4. StaysInv'
    BY <1>0, <2>1, <2>2, <2>3, StaysKept
  <2> QED
    BY <2>3, <2>4 DEF NoRow, Unfinished
<1>6. ASSUME NEW c \in Calls, WriteTrack(c) PROVE StaysInv' /\ Kept
  <2>1. UNCHANGED <<transcript, queued>> /\ pc[c] = "write"
    BY <1>6 DEF WriteTrack
  <2>2. pc'[c] = AfterWrite(c) /\ \A d \in Calls : d # c => pc'[d] = pc[d]
    BY <1>6 DEF WriteTrack, Then, TypeInv, TypeOK
  <2>3. AfterWrite(c) \notin {"idle", "mark"} /\ (AfterWrite(c) = "stt" => Op(c) = "completed")
    BY DEF AfterWrite
  <2>4. \A t \in Tracks : \/ track'[t].stt = track[t].stt
                          \/ t = On(c) /\ Op(c) = "completed" /\ track'[t].stt = "wait_process"
                          \/ t = On(c) /\ Op(c) = "failed" /\ track'[t].stt = "failed"
    BY <1>6, SttWritten
  <2>5. StaysInv'
    BY <1>0, <2>1, <2>2, <2>3, <2>4, StaysKept
  <2>6. ASSUME NEW t \in Tracks, track[t].stt = "completed" PROVE track'[t].stt \notin Unfinished
    <3>1. <<"stt", t>> \in queued
      BY <2>6 DEF StaysInv
    <3>2. ~(t = On(c) /\ Op(c) = "completed")
      BY <2>1, <3>1 DEF StaysInv
    <3> QED
      BY <2>4, <2>6, <3>2 DEF Unfinished
  <2> QED
    BY <2>5, <2>6
<1>7. ASSUME NEW c \in Calls, EnqueueTranscription(c) PROVE StaysInv' /\ Kept
  <2>1. UNCHANGED <<track, transcript>> /\ pc[c] = "stt" /\ queued' \subseteq queued \cup {<<"stt", On(c)>>}
        /\ queued \subseteq queued'
    BY <1>7 DEF EnqueueTranscription, Enqueue
  <2>2. pc'[c] = "derive" /\ \A d \in Calls : d # c => pc'[d] = pc[d]
    BY <1>7 DEF EnqueueTranscription, Enqueue, Then, TypeInv, TypeOK
  <2>3. ASSUME NEW d \in Calls, Op(d) = "completed", <<"stt", On(d)>> \in queued'
        PROVE  pc'[d] \in {"derive", "done"}
    <3>1. CASE <<"stt", On(d)>> \in queued
      BY <2>1, <2>2, <2>3, <3>1 DEF StaysInv
    <3>2. CASE On(d) = On(c)
      <4>1. Op(c) = "completed"
        BY <2>1 DEF StaysInv
      <4>2. d = c
        BY <2>3, <3>2, <4>1, OneReport
      <4> QED
        BY <2>2, <4>2
    <3> QED
      BY <2>1, <2>3, <3>1, <3>2
  <2>4. StaysInv'
    BY <2>1, <2>2, <2>3 DEF StaysInv
  <2> QED
    BY <1>1, <2>1, <2>4
<1>8. ASSUME NEW c \in Calls, MarkTrack(c) PROVE StaysInv' /\ Kept
  <2>1. UNCHANGED <<transcript, queued>> /\ pc[c] = "mark"
    BY <1>8 DEF MarkTrack
  <2>2. \A d \in Calls : d # c => pc'[d] = pc[d]
    BY <1>8 DEF MarkTrack, Then, TypeInv, TypeOK
  <2>3. pc'[c] \in {"count", "ack", "done", "idle"}
    BY <1>8, NextTail DEF MarkTrack, Then, TypeInv, TypeOK
  <2>4. \A t \in Tracks : track'[t].stt = track[t].stt \/ (t = On(c) /\ track'[t].stt = outcome[c])
    BY <1>8, SttMarked
  <2>5. transcript[On(c)] # "no" /\ outcome[c] \in {"completed", "failed"}
    BY <2>1 DEF StaysInv, TypeInv, TypeOK
  <2>6. StaysInv'
    BY <1>0, <2>1, <2>2, <2>3, <2>4, <2>5, StaysKept
  <2> QED
    BY <2>4, <2>5, <2>6 DEF Unfinished
<1>9. ASSUME NEW c \in Calls, GateStep(c) PROVE StaysInv' /\ Kept
  <2>1. UNCHANGED <<track, transcript, queued>>
    BY <1>9 DEF GateStep, CheckAndNotify, PushRoomRecordDone, CountUnfinished, CompleteRoom,
       GenerateSummary
  <2>2. \A d \in Calls : d # c => pc'[d] = pc[d]
    BY <1>9, GateMoves
  <2>3. pc[c] \notin {"idle", "derive", "done"} /\ pc'[c] \notin {"stt", "mark"}
    BY <1>9, GateMoves DEF GateTail, GatePcs
  <2>4. StaysInv'
    BY <1>0, <2>1, <2>2, <2>3, StaysKept
  <2> QED
    BY <1>1, <2>1, <2>4
<1>10. ASSUME NEW c \in Calls, RoomStep(c) PROVE StaysInv' /\ Kept
  <2>1. UNCHANGED <<track, transcript, queued>>
    BY <1>10 DEF RoomStep, FinalRoomStatus, RegisterLooksUp, CreateRoom, OverwriteRegistry,
       UnregisterLooksUp, DeleteEntry
  <2>2. pc[c] \in RoomPcs \cup {"final"} /\ \A d \in Calls :
           pc'[d] = pc[d] \/ d = c \/ (Op(d) = "final" /\ pc'[d] = "final")
    BY <1>10, CallFacts DEF RoomStep, FinalRoomStatus, RegisterLooksUp, CreateRoom, OverwriteRegistry,
       UnregisterLooksUp, DeleteEntry, SpawnFinalRoom, Then, TypeInv, TypeOK, RoomPcs
  <2>3. pc'[c] \notin {"stt", "mark"}
    BY <1>10, CallFacts DEF RoomStep, FinalRoomStatus, RegisterLooksUp, CreateRoom, OverwriteRegistry,
       UnregisterLooksUp, DeleteEntry, SpawnFinalRoom, Then, TypeInv, TypeOK, AfterComplete
  <2>4. StaysInv'
    BY <1>0, <2>1, <2>2, <2>3, StaysKept DEF RoomPcs
  <2> QED
    BY <1>1, <2>1, <2>4
<1>11. ~Crash
  BY DEF Crash, ReportedOnce, TypeInv, TypeOK
<1>12. ASSUME UNCHANGED vars PROVE StaysInv' /\ Kept
  <2>1. UNCHANGED <<track, transcript, queued, pc>>
    BY <1>12 DEF vars
  <2> QED
    BY <1>0, <1>1, <2>1, StaysKept
<1> QED
  BY <1>2, <1>3, <1>4, <1>5, <1>6, <1>7, <1>8, <1>9, <1>10, <1>11, <1>12 DEF Next, EventStep

\* A track whose transcript is saved never waits for it again, whatever is derived, retried or
\* marked late: where every recording is reported once, the one write that could take the
\* status back comes before the task the transcript is made from.
THEOREM DoneStaysDoneAlways == ASSUME TtsTracks = {}, ReportedOnce PROVE Spec => DoneStaysDone
<1>1. Init => StaysInv
  BY DEF Init, StaysInv, NoRow
<1>2. TypeInv /\ StaysInv /\ [Next]_vars => StaysInv'
  BY StaysStep
<1>3. TypeInv /\ StaysInv /\ [Next]_vars =>
        [\A t \in Tracks : track[t].stt = "completed" => track'[t].stt \notin Unfinished]_vars
  BY StaysStep
<1> QED
  BY TypeInit, TypeStep, <1>1, <1>2, <1>3, PTL DEF Spec, DoneStaysDone

================================================================================
