--------------------------- MODULE AgentSessionProofs ---------------------------
(* What TLAPS proves of the two models of an agent's session: of MediaSlots, for every *)
(* set of slots and peers and any number of signaling events, its type and its three  *)
(* invariants; of TtsPlayer (from `Voice` on), for every number of players, requests  *)
(* and frames, where speech lies in the recorded track and that it is reported.       *)
EXTENDS MediaSlots, VoiceState, TLAPS
--------------------------------------------------------------------------------
(* Types.                                                                          *)

MaybePeers == Peers \cup {NoOne}
Holders == [gen : Nat, peer : MaybePeers]
Tracks == [peer : MaybePeers, rev : Nat, active : BOOLEAN]
Enders == [slot : Slots, peer : Peers, rev : Nat, at : {"retire", "unbind"}]
Sessions == [at : {"absent", "reserved", "open", "closed"}, table : BOOLEAN, rev : Nat, bound : Tracks, stt : BOOLEAN]
Readers == [at : {"read", "reserve", "enter", "write", "over"}, info : Tracks, stt : BOOLEAN]

TypeOK ==
  /\ owner \in [Slots -> Holders] /\ gone \in SUBSET Peers /\ sent \in Nat
  /\ pool \in [Slots -> Holders] /\ midTable \in [Slots -> Tracks] /\ revisions \in Nat
  /\ ending \in SUBSET Enders /\ ended \in SUBSET Nat
  /\ sessions \in [Peers -> Sessions] /\ departed \in SUBSET Peers /\ retired \in [Slots -> Nat]
  /\ sttEnabled \in BOOLEAN /\ closed \in BOOLEAN /\ toClose \in SUBSET Peers
  /\ reader \in [Slots -> Readers] /\ toggle \in SUBSET Peers
--------------------------------------------------------------------------------
(* The invariants, strengthened.                                                   *)

\* A session in use is in the table or about to be closed, and only a peer that is
\* there has one in the table.
Live(p) == sessions[p].at \in {"reserved", "open"}
Kept(p) == /\ sessions[p].table => p \notin departed \cup toClose /\ ~closed /\ Live(p)
           /\ Live(p) => sessions[p].table \/ p \in toClose
           /\ p \in toClose => p \in departed \/ closed
           /\ sessions[p].stt => sessions[p].at = "open"
Booked == \A p \in Peers : Kept(p)

\* A read loop that has a packet in hand, and whose session: the lock of a session
\* keeps it from being closed under the packet.
Busy(s) == reader[s].at \in {"reserve", "enter", "write"}
Held(s) == /\ Busy(s) => reader[s].info.peer \in Peers
           /\ reader[s].at = "enter" => sessions[reader[s].info.peer].at # "absent"
           /\ reader[s].at = "write" => Live(reader[s].info.peer)
Handling == \A s \in Slots : Held(s)

\* A sink that transcription off should end is still to be visited or closed, and so
\* is the session a packet is about to open one for.
Visited(p) == p \in toggle \/ p \in toClose
Off == ~sttEnabled => /\ \A p \in Peers : sessions[p].stt => Visited(p)
                      /\ \A s \in Slots : reader[s].at = "write" /\ reader[s].stt => Visited(reader[s].info.peer)

\* The bindings somebody still knows of: a revision is of one slot and one peer.
Binding(s, x) == [slot |-> s, peer |-> x.peer, rev |-> x.rev]
Bound == {Binding(s, midTable[s]) : s \in {t \in Slots : midTable[t].peer # NoOne}}
Ending == {Binding(x.slot, x) : x \in ending}
Read == {Binding(s, reader[s].info) : s \in {t \in Slots : Busy(t)}}
Bindings == Bound \cup Ending \cup Read
Unique == /\ \A s \in Slots : midTable[s].peer = pool[s].peer
          /\ \A b \in Bindings : b.rev <= revisions
          /\ \A b, c \in Bindings : b.rev = c.rev => b = c

\* A binding that has ended is retired: no packet of it enters a session, and one that
\* is there already holds the end up.
Retired == /\ \A r \in ended : r <= revisions
           /\ \A b \in Bindings : b.rev \in ended => retired[b.slot] >= b.rev
           /\ \A x \in ending : x.at = "unbind" => retired[x.slot] >= x.rev
           /\ EndedIsSilent

Inv == TypeOK /\ Booked /\ Handling /\ Off /\ Unique /\ Retired

--------------------------------------------------------------------------------
(* Steps.                                                                          *)

LEMMA Larger == ASSUME NEW a \in Nat, NEW b \in Nat
                PROVE  Max({a, b}) \in Nat /\ Max({a, b}) >= a /\ Max({a, b}) >= b
<1>1. \E x \in {a, b} : \A y \in {a, b} : x >= y
  OBVIOUS
<1>2. Max({a, b}) \in {a, b} /\ \A y \in {a, b} : Max({a, b}) >= y
  BY <1>1 DEF Max
<1> QED
  BY <1>2

\* What the signaling loop does to the tables of the peer agent.
LEMMA ReleaseType ==
  ASSUME TypeOK, \A s \in Slots : midTable[s].peer = pool[s].peer,
         NEW slots \in SUBSET Slots, NEW gens \in [Slots -> Nat], Release(slots, gens)
  PROVE  pool' \in [Slots -> Holders] /\ midTable' \in [Slots -> Tracks] /\ ending' \in SUBSET Enders
<1>0. NoTrack \in Tracks
  BY DEF NoTrack, Tracks, MaybePeers
<1>1. ASSUME NEW s \in Slots, pool[s].peer # NoOne PROVE Ender(s) \in Enders
  BY <1>1 DEF TypeOK, Ender, Enders, Tracks, MaybePeers
<1>2. pool' \in [Slots -> Holders]
  BY DEF Release, TypeOK, Holders, MaybePeers
<1>3. midTable' \in [Slots -> Tracks]
  BY <1>0 DEF Release, TypeOK
<1>4. ending' \in SUBSET Enders
  BY <1>1 DEF Release, TypeOK
<1> QED
  BY <1>2, <1>3, <1>4

LEMMA SignalingType == ASSUME TypeOK, \A s \in Slots : midTable[s].peer = pool[s].peer, Signaling PROVE TypeOK'
<1>1. ASSUME NEW e \in Assignments, ApplySlotAssigned(e) PROVE TypeOK'
  <2> DEFINE s == e.slot
  <2>1. s \in Slots /\ e.peer \in Peers /\ e.gen \in Nat /\ e.active \in BOOLEAN
    BY DEF Assignments
  <2>2. owner' \in [Slots -> Holders] /\ sent' \in Nat
    BY <1>1, <2>1 DEF ApplySlotAssigned, Signaled, TypeOK, Holders, MaybePeers
  <2>3. ~Superseded(e) => pool' \in [Slots -> Holders]
    BY <1>1, <2>1 DEF ApplySlotAssigned, TypeOK, Holders, MaybePeers
  <2>4. ~Superseded(e) => revisions' \in Nat
    BY <1>1 DEF ApplySlotAssigned, TypeOK
  <2>5. midTable[s] \in Tracks
    BY <2>1 DEF TypeOK
  <2>6. ~Superseded(e) => midTable' \in [Slots -> Tracks]
    <3>1. ~Superseded(e) => \E n \in Nat : midTable' = [midTable EXCEPT ![s] = [peer |-> e.peer, active |-> e.active, rev |-> n]]
      BY <1>1, <2>1, <2>4, <2>5 DEF ApplySlotAssigned, Tracks, TypeOK
    <3>2. \A n \in Nat : [peer |-> e.peer, active |-> e.active, rev |-> n] \in Tracks
      BY <2>1 DEF Tracks, MaybePeers
    <3>3. \A t \in Tracks : [midTable EXCEPT ![s] = t] \in [Slots -> Tracks]
      BY DEF TypeOK
    <3> QED
      BY <3>1, <3>2, <3>3
  <2>7. pool[s].peer # NoOne => Ender(s) \in Enders
    BY <2>1, <2>5 DEF Ender, Enders, Tracks, MaybePeers
  <2>8. ~Superseded(e) => ending' \in SUBSET Enders
    BY <1>1, <2>7 DEF ApplySlotAssigned, TypeOK
  <2>9. Superseded(e) => UNCHANGED <<pool, midTable, revisions, ending>>
    BY <1>1 DEF ApplySlotAssigned, peerAgentVars
  <2>10. UNCHANGED <<gone, ended, bridgeVars, reader, toggle>>
    BY <1>1 DEF ApplySlotAssigned
  <2> QED
    BY <2>2, <2>3, <2>4, <2>6, <2>8, <2>9, <2>10 DEF TypeOK, bridgeVars
<1>2. ASSUME NEW s \in Slots, ApplySlotReleased(s) PROVE TypeOK'
  <2>1. {t \in {s} : pool[t].gen <= owner[t].gen} \in SUBSET Slots /\ [t \in Slots |-> owner[t].gen] \in [Slots -> Nat]
    BY DEF TypeOK, Holders
  <2>2. pool' \in [Slots -> Holders] /\ midTable' \in [Slots -> Tracks] /\ ending' \in SUBSET Enders
    BY <1>2, <2>1, ReleaseType DEF ApplySlotReleased
  <2>3. owner' \in [Slots -> Holders] /\ sent' \in Nat
    BY <1>2 DEF ApplySlotReleased, Signaled, TypeOK, Holders, MaybePeers
  <2> QED
    BY <1>2, <2>2, <2>3 DEF ApplySlotReleased, TypeOK, bridgeVars
<1>3. ASSUME NEW p \in Peers, OnPeerLeft(p) PROVE TypeOK'
  <2> DEFINE listed == {s \in Slots : owner[s].peer = p /\ pool[s].gen <= owner[s].gen}
             slots == listed \cup {s \in Slots : pool[s].peer = p}
             gens == [s \in Slots |-> IF s \in listed THEN owner[s].gen ELSE pool[s].gen]
  <2>1. slots \in SUBSET Slots /\ gens \in [Slots -> Nat]
    BY DEF TypeOK, Holders
  <2>2. Release(slots, gens)
    BY <1>3 DEF OnPeerLeft, HandlePeerEnded
  <2>3. pool' \in [Slots -> Holders] /\ midTable' \in [Slots -> Tracks] /\ ending' \in SUBSET Enders
    <3> HIDE DEF slots, gens
    <3> QED
      BY <2>1, <2>2, ReleaseType
  <2>4. owner' \in [Slots -> Holders] /\ sent' \in Nat /\ gone' \in SUBSET Peers
    BY SMTT(30), <1>3 DEF OnPeerLeft, HandlePeerEnded, Signaled, TypeOK, Holders, MaybePeers
  <2>5. departed' \in SUBSET Peers /\ toClose' \in SUBSET Peers /\ sessions' \in [Peers -> Sessions]
    BY <1>3 DEF OnPeerLeft, HandlePeerEnded, TypeOK, Sessions
  <2> QED
    BY <1>3, <2>3, <2>4, <2>5 DEF OnPeerLeft, HandlePeerEnded, TypeOK
<1> QED
  BY <1>1, <1>2, <1>3 DEF Signaling

LEMMA BridgeType ==
  ASSUME TypeOK, \A s \in Slots : midTable[s].peer = pool[s].peer, Handling, Next, ~Signaling
  PROVE  TypeOK'
<1>0. NoTrack \in Tracks /\ Waiting \in Readers
  BY DEF NoTrack, Tracks, MaybePeers, Waiting, Readers
<1>1. CASE CloseBridge
  BY <1>1 DEF CloseBridge, TypeOK, Sessions, sfuVars, peerAgentVars, endVars
<1>2. ASSUME NEW s \in Slots, ReadPacket(s) PROVE TypeOK'
  <2>1. [Waiting EXCEPT !.at = "reserve", !.info = [midTable[s] EXCEPT !.active = FALSE]] \in Readers
    <3>1. [midTable[s] EXCEPT !.active = FALSE] \in Tracks
      BY DEF TypeOK, Tracks
    <3> QED
      BY <1>0, <3>1 DEF Readers
  <2>2. reader' \in [Slots -> Readers]
    BY <1>2, <2>1 DEF ReadPacket, TypeOK
  <2> QED
    BY <1>2, <2>2 DEF ReadPacket, TypeOK, sfuVars, peerAgentVars, endVars, bridgeVars
<1>3. ASSUME NEW s \in Slots, Reserve(s) PROVE TypeOK'
  <2> DEFINE p == reader[s].info.peer  new == [Absent EXCEPT !.at = "reserved", !.table = TRUE]
  <2>1. p \in Peers
    BY <1>3 DEF Reserve, Handling, Held, Busy
  <2>2. new \in Sessions
    BY <1>0 DEF Absent, Sessions
  <2>3. sessions' = sessions \/ sessions' = [sessions EXCEPT ![p] = new]
    BY <1>3 DEF Reserve
  <2>4. reader' = [reader EXCEPT ![s] = [reader[s] EXCEPT !.at = "enter"]] \/ reader' = [reader EXCEPT ![s] = Waiting]
    BY <1>3 DEF Reserve, TypeOK
  <2>5. reader' \in [Slots -> Readers]
    <3>1. [reader[s] EXCEPT !.at = "enter"] \in Readers
      BY DEF TypeOK, Readers
    <3> QED
      BY <1>0, <2>4, <3>1 DEF TypeOK
  <2>6. sessions' \in [Peers -> Sessions]
    BY <2>1, <2>2, <2>3 DEF TypeOK
  <2> QED
    BY <1>3, <2>5, <2>6 DEF Reserve, TypeOK, sfuVars, peerAgentVars, endVars
<1>4. ASSUME NEW s \in Slots, Enter(s) PROVE TypeOK'
  <2>1. reader' = [reader EXCEPT ![s] = [reader[s] EXCEPT !.at = "write", !.stt = sttEnabled]]
        \/ reader' = [reader EXCEPT ![s] = Waiting]
    BY <1>4 DEF Enter, TypeOK
  <2>2. reader' \in [Slots -> Readers]
    <3>1. [reader[s] EXCEPT !.at = "write", !.stt = sttEnabled] \in Readers
      BY DEF TypeOK, Readers
    <3> QED
      BY <1>0, <2>1, <3>1 DEF TypeOK
  <2> QED
    BY <1>4, <2>2 DEF Enter, TypeOK, sfuVars, peerAgentVars, endVars, bridgeVars
<1>5. ASSUME NEW s \in Slots, Write(s) PROVE TypeOK'
  <2> DEFINE p == reader[s].info.peer
             bound == [sessions[p] EXCEPT !.rev = reader[s].info.rev, !.bound = reader[s].info]
  <2>1. p \in Peers /\ reader[s].info \in Tracks /\ reader[s].info.rev \in Nat /\ sessions[p] \in Sessions
    BY <1>5 DEF Write, Handling, Held, Busy, TypeOK, Readers, Tracks
  <2>2. bound \in Sessions
    BY <2>1 DEF Sessions
  <2>3. PICK decoded \in BOOLEAN, dials \in BOOLEAN :
          sessions' = [sessions EXCEPT ![p] = IF decoded /\ sessions[p].at = "reserved"
                                              THEN [bound EXCEPT !.at = "open", !.stt = reader[s].stt /\ dials] ELSE bound]
    BY <1>5 DEF Write
  <2>4. PICK b \in BOOLEAN : b = (reader[s].stt /\ dials)
    OBVIOUS
  <2>5. sessions' = [sessions EXCEPT ![p] = bound] \/ sessions' = [sessions EXCEPT ![p] = [bound EXCEPT !.at = "open", !.stt = b]]
    BY <2>3, <2>4, Zenon
  <2>6. [bound EXCEPT !.at = "open", !.stt = b] \in Sessions
    BY <2>2 DEF Sessions
  <2> HIDE DEF bound, p
  <2>7. sessions' \in [Peers -> Sessions]
    BY <2>1, <2>2, <2>5, <2>6 DEF TypeOK
  <2>8. reader' \in [Slots -> Readers]
    BY <1>0, <1>5 DEF Write, TypeOK
  <2> QED
    BY <1>5, <2>7, <2>8 DEF Write, TypeOK, sfuVars, peerAgentVars, endVars
<1>6. ASSUME NEW s \in Slots, TrackEnds(s) PROVE TypeOK'
  <2>1. midTable[s].peer # NoOne => Ender(s) \in Enders
    BY DEF Ender, Enders, Tracks, MaybePeers, TypeOK
  <2>2. reader' \in [Slots -> Readers]
    BY <1>6 DEF TrackEnds, TypeOK, Readers
  <2> QED
    BY <1>6, <2>1, <2>2 DEF TrackEnds, TypeOK, sfuVars, peerAgentVars, bridgeVars
<1>7. ASSUME NEW x \in ending, Retire(x) PROVE TypeOK'
  <2>1. x \in Enders /\ [x EXCEPT !.at = "unbind"] \in Enders
    BY DEF TypeOK, Enders
  <2>2. x.slot \in Slots /\ x.rev \in Nat
    BY <2>1 DEF Enders
  <2>3. retired' \in [Slots -> Nat]
    <3>1. retired' = [retired EXCEPT ![x.slot] = Max({retired[x.slot], x.rev})]
      BY <1>7 DEF Retire
    <3>2. retired[x.slot] \in Nat
      BY <2>2 DEF TypeOK
    <3> QED
      BY <3>1, <3>2, <2>2, Larger DEF TypeOK
  <2>4. ending' \in SUBSET Enders /\ ended' \in SUBSET Nat
    BY <1>7, <2>1, <2>2 DEF Retire, TypeOK
  <2> QED
    BY <1>7, <2>3, <2>4 DEF Retire, TypeOK, sfuVars, peerAgentVars
<1>8. ASSUME NEW x \in ending, Unbind(x) PROVE TypeOK'
  <2>1. x.peer \in Peers /\ x.rev \in Nat
    BY DEF TypeOK, Enders
  <2>2. sessions' = sessions \/ sessions' = [sessions EXCEPT ![x.peer].bound = NoTrack]
    BY <1>8 DEF Unbind
  <2>3. sessions' \in [Peers -> Sessions]
    BY <1>0, <2>2 DEF TypeOK, Sessions
  <2> QED
    BY <1>8, <2>1, <2>3 DEF Unbind, TypeOK, sfuVars, peerAgentVars
<1>9. ASSUME NEW p \in Peers, CloseSession(p) PROVE TypeOK'
  <2>1. sessions' = [sessions EXCEPT ![p] = [sessions[p] EXCEPT !.at = "closed", !.bound = NoTrack, !.stt = FALSE]]
    BY <1>9 DEF CloseSession, TypeOK
  <2>2. sessions' \in [Peers -> Sessions]
    BY ZenonT(30), <1>0, <2>1 DEF TypeOK, Sessions
  <2> QED
    BY <1>9, <2>2 DEF CloseSession, TypeOK, sfuVars, peerAgentVars, endVars
<1>10. ASSUME NEW p \in Peers, ToggleSession(p) PROVE TypeOK'
  <2>1. PICK b \in BOOLEAN : sessions' = sessions \/ sessions' = [sessions EXCEPT ![p].stt = b]
    <3>1. PICK dials \in BOOLEAN :
            sessions' = IF sessions[p].at = "open" THEN [sessions EXCEPT ![p].stt = (sttEnabled /\ ~closed /\ p \notin departed) /\ (@ \/ dials)] ELSE sessions
      BY <1>10 DEF ToggleSession
    <3>2. PICK b \in BOOLEAN : b = ((sttEnabled /\ ~closed /\ p \notin departed) /\ (sessions[p].stt \/ dials))
      OBVIOUS
    <3> QED
      BY <3>1, <3>2, Zenon
  <2>2. sessions' \in [Peers -> Sessions]
    BY <2>1 DEF TypeOK, Sessions
  <2> QED
    BY <1>10, <2>2 DEF ToggleSession, TypeOK, sfuVars, peerAgentVars, endVars
<1>11. ASSUME NEW on \in BOOLEAN, SetSTTEnabled(on) PROVE TypeOK'
  BY <1>11 DEF SetSTTEnabled, ToVisit, TypeOK, sfuVars, peerAgentVars, endVars
<1> QED
  BY <1>1, <1>2, <1>3, <1>4, <1>5, <1>6, <1>7, <1>8, <1>9, <1>10, <1>11 DEF Next, Track

--------------------------------------------------------------------------------
(* Sessions.                                                                       *)

\* What a step leaves of the sessions, and of what they are judged by.
Judged == <<departed, closed, toClose>>

LEMMA BookedFrame == ASSUME Booked, UNCHANGED <<sessions, Judged>> PROVE Booked'
  BY DEF Booked, Kept, Live, Judged

\* One session changes, in the table or not, as it may.
LEMMA OneSession ==
  ASSUME TypeOK, Booked, NEW p \in Peers, NEW x \in Sessions, sessions' = [sessions EXCEPT ![p] = x], UNCHANGED Judged,
         x.table => p \notin departed \cup toClose /\ ~closed /\ x.at \in {"reserved", "open"},
         x.at \in {"reserved", "open"} => x.table \/ p \in toClose,
         x.stt => x.at = "open"
  PROVE  Booked'
<1>1. sessions'[p] = x /\ \A q \in Peers \ {p} : sessions'[q] = sessions[q]
  BY DEF TypeOK
<1>2. ASSUME NEW q \in Peers PROVE Kept(q)'
  BY <1>1 DEF Booked, Kept, Live, Judged
<1> QED
  BY <1>2 DEF Booked

LEMMA WriteSets ==
  ASSUME TypeOK, Handling, NEW s \in Slots, Write(s)
  PROVE  LET p == reader[s].info.peer  x == sessions[p] IN
           \E y \in Sessions :
             /\ sessions' = [sessions EXCEPT ![p] = y] /\ y.table = x.table /\ y.rev = reader[s].info.rev
             /\ \/ y.at = x.at /\ y.stt = x.stt
                \/ x.at = "reserved" /\ y.at = "open" /\ (y.stt => reader[s].stt)
<1> DEFINE p == reader[s].info.peer  x == sessions[p]
           bound == [x EXCEPT !.rev = reader[s].info.rev, !.bound = reader[s].info]
<1>1. p \in Peers /\ reader[s].info \in Tracks /\ reader[s].info.rev \in Nat /\ x \in Sessions
  BY DEF Write, Handling, Held, Busy, TypeOK, Readers, Tracks
<1>2. PICK decoded \in BOOLEAN, dials \in BOOLEAN :
        sessions' = [sessions EXCEPT ![p] = IF decoded /\ x.at = "reserved"
                                            THEN [bound EXCEPT !.at = "open", !.stt = reader[s].stt /\ dials] ELSE bound]
  BY DEF Write
<1>3. PICK b \in BOOLEAN : b = (reader[s].stt /\ dials)
  OBVIOUS
<1>4. \/ sessions' = [sessions EXCEPT ![p] = bound]
      \/ x.at = "reserved" /\ sessions' = [sessions EXCEPT ![p] = [bound EXCEPT !.at = "open", !.stt = b]]
  BY <1>2, <1>3, Zenon
<1>5. bound \in Sessions /\ bound.table = x.table /\ bound.rev = reader[s].info.rev /\ bound.at = x.at /\ bound.stt = x.stt
  BY <1>1 DEF Sessions
<1> DEFINE open == [bound EXCEPT !.at = "open", !.stt = b]
<1>6. open \in Sessions /\ open.table = x.table /\ open.rev = reader[s].info.rev /\ open.at = "open" /\ open.stt = b
  BY <1>5 DEF Sessions
<1>7. b => reader[s].stt
  BY <1>3
<1> HIDE DEF bound, open
<1>8. CASE sessions' = [sessions EXCEPT ![p] = bound]
  BY <1>5, <1>8
<1>9. CASE x.at = "reserved" /\ sessions' = [sessions EXCEPT ![p] = open]
  BY <1>6, <1>7, <1>9
<1> QED
  BY <1>4, <1>8, <1>9 DEF open

LEMMA ToggleSets ==
  ASSUME TypeOK, NEW p \in Peers, ToggleSession(p)
  PROVE  \/ sessions' = sessions /\ sessions[p].at # "open"
         \/ \E y \in Sessions : /\ sessions' = [sessions EXCEPT ![p] = y] /\ y.table = sessions[p].table
                                /\ y.at = "open" /\ sessions[p].at = "open" /\ (y.stt => sttEnabled)
                                /\ y.rev = sessions[p].rev
<1>1. PICK dials \in BOOLEAN :
        sessions' = IF sessions[p].at = "open" THEN [sessions EXCEPT ![p].stt = (sttEnabled /\ ~closed /\ p \notin departed) /\ (@ \/ dials)] ELSE sessions
  BY DEF ToggleSession
<1>2. PICK b \in BOOLEAN : b = ((sttEnabled /\ ~closed /\ p \notin departed) /\ (sessions[p].stt \/ dials))
  OBVIOUS
<1>3. sessions[p].at = "open" => sessions' = [sessions EXCEPT ![p].stt = b]
  BY <1>1, <1>2, Zenon
<1> DEFINE y == [sessions[p] EXCEPT !.stt = b]
<1>4. y \in Sessions /\ y.table = sessions[p].table /\ y.at = sessions[p].at /\ y.stt = b /\ y.rev = sessions[p].rev
  BY DEF TypeOK, Sessions
<1>5. sessions[p].at = "open" => sessions' = [sessions EXCEPT ![p] = y]
  BY <1>3 DEF TypeOK
<1>6. b => sttEnabled
  BY <1>2
<1> HIDE DEF y
<1> QED
  BY <1>1, <1>4, <1>5, <1>6

LEMMA BookedStep == ASSUME TypeOK, Booked, Handling, Next PROVE Booked'
<1>1. ASSUME NEW e \in Assignments, ApplySlotAssigned(e) PROVE Booked'
  BY <1>1, BookedFrame DEF ApplySlotAssigned, bridgeVars, Judged
<1>2. ASSUME NEW s \in Slots, ApplySlotReleased(s) PROVE Booked'
  BY <1>2, BookedFrame DEF ApplySlotReleased, bridgeVars, Judged
<1>3. ASSUME NEW p \in Peers, OnPeerLeft(p) PROVE Booked'
  <2>1. ~closed /\ toClose = {} /\ closed' = closed /\ departed' = departed \cup {p}
    BY <1>3 DEF OnPeerLeft, HandlePeerEnded, Signaled
  <2>2. toClose' = {q \in {p} : sessions[q].table}
    BY <1>3 DEF OnPeerLeft, HandlePeerEnded
  <2>3. /\ sessions'[p].table = FALSE /\ sessions'[p].at = sessions[p].at /\ sessions'[p].stt = sessions[p].stt
        /\ \A q \in Peers \ {p} : sessions'[q] = sessions[q]
    BY <1>3 DEF OnPeerLeft, HandlePeerEnded, TypeOK, Sessions
  <2>4. ASSUME NEW q \in Peers PROVE Kept(q)'
    BY <2>1, <2>2, <2>3 DEF Booked, Kept, Live
  <2> QED
    BY <2>4 DEF Booked
<1>4. CASE CloseBridge
  <2>1. ~closed /\ toClose = {} /\ closed' /\ departed' = departed /\ toClose' = {p \in Peers : sessions[p].table}
    BY <1>4 DEF CloseBridge
  <2>2. ASSUME NEW q \in Peers
        PROVE  sessions'[q].table = FALSE /\ sessions'[q].at = sessions[q].at /\ sessions'[q].stt = sessions[q].stt
    BY <1>4 DEF CloseBridge, TypeOK, Sessions
  <2>3. ASSUME NEW q \in Peers PROVE Kept(q)'
    BY <2>1, <2>2 DEF Booked, Kept, Live
  <2> QED
    BY <2>3 DEF Booked
<1>5. ASSUME NEW s \in Slots, ReadPacket(s) PROVE Booked'
  BY <1>5, BookedFrame DEF ReadPacket, bridgeVars, Judged
<1>6. ASSUME NEW s \in Slots, Reserve(s) PROVE Booked'
  <2> DEFINE p == reader[s].info.peer  new == [Absent EXCEPT !.at = "reserved", !.table = TRUE]
  <2>1. p \in Peers
    BY <1>6 DEF Reserve, Handling, Held, Busy
  <2>2. new \in Sessions /\ new.table /\ new.at = "reserved" /\ ~new.stt
    BY DEF Absent, Sessions, NoTrack, Tracks, MaybePeers
  <2>3. sessions' = sessions \/ (~closed /\ p \notin departed /\ sessions' = [sessions EXCEPT ![p] = new])
    BY <1>6 DEF Reserve, Accepts
  <2>5. Kept(p)
    BY <2>1 DEF Booked
  <2>4. UNCHANGED Judged
    BY <1>6 DEF Reserve, Judged
  <2> HIDE DEF new
  <2> QED
    BY <2>1, <2>2, <2>3, <2>4, <2>5, BookedFrame, OneSession DEF Kept
<1>7. ASSUME NEW s \in Slots, Enter(s) PROVE Booked'
  BY <1>7, BookedFrame DEF Enter, bridgeVars, Judged
<1>8. ASSUME NEW s \in Slots, Write(s) PROVE Booked'
  <2> DEFINE p == reader[s].info.peer
  <2>1. p \in Peers
    BY <1>8 DEF Write, Handling, Held, Busy
  <2>2. PICK y \in Sessions :
             /\ sessions' = [sessions EXCEPT ![p] = y] /\ y.table = sessions[p].table
             /\ \/ y.at = sessions[p].at /\ y.stt = sessions[p].stt
                \/ sessions[p].at = "reserved" /\ y.at = "open" /\ (y.stt => reader[s].stt)
    BY <1>8, WriteSets
  <2>3. UNCHANGED Judged
    BY <1>8 DEF Write, Judged
  <2>4. Kept(p)
    BY <2>1 DEF Booked
  <2> QED
    BY <2>1, <2>2, <2>3, <2>4, OneSession DEF Kept, Live
<1>9. ASSUME NEW s \in Slots, TrackEnds(s) PROVE Booked'
  BY <1>9, BookedFrame DEF TrackEnds, bridgeVars, Judged
<1>10. ASSUME NEW x \in ending, Retire(x) PROVE Booked'
  BY <1>10, BookedFrame DEF Retire, Judged
<1>11. ASSUME NEW x \in ending, Unbind(x) PROVE Booked'
  <2>1. x.peer \in Peers
    BY DEF TypeOK, Enders
  <2> DEFINE y == [sessions[x.peer] EXCEPT !.bound = NoTrack]
  <2>6. NoTrack \in Tracks /\ sessions[x.peer] \in Sessions
    BY <2>1 DEF TypeOK, NoTrack, Tracks, MaybePeers
  <2>2. /\ y \in Sessions /\ y.table = sessions[x.peer].table /\ y.at = sessions[x.peer].at
        /\ y.stt = sessions[x.peer].stt
    BY <2>6 DEF Sessions
  <2>3. sessions' = sessions \/ sessions' = [sessions EXCEPT ![x.peer] = y]
    BY <1>11, <2>1 DEF Unbind, TypeOK
  <2>4. UNCHANGED Judged
    BY <1>11 DEF Unbind, Judged
  <2>5. Kept(x.peer)
    BY <2>1 DEF Booked
  <2> HIDE DEF y
  <2> QED
    BY <2>1, <2>2, <2>3, <2>4, <2>5, BookedFrame, OneSession DEF Kept, Live
<1>12. ASSUME NEW p \in Peers, CloseSession(p) PROVE Booked'
  <2>1. /\ sessions'[p].table = sessions[p].table /\ sessions'[p].at = "closed" /\ ~sessions'[p].stt
        /\ \A q \in Peers \ {p} : sessions'[q] = sessions[q]
    BY <1>12 DEF CloseSession, TypeOK, Sessions
  <2>2. p \in toClose /\ toClose' = toClose \ {p} /\ UNCHANGED <<departed, closed>>
    BY <1>12 DEF CloseSession
  <2>3. ~sessions[p].table
    BY <2>2 DEF Booked, Kept
  <2>4. ASSUME NEW q \in Peers PROVE Kept(q)'
    BY <2>1, <2>2, <2>3 DEF Booked, Kept, Live
  <2> QED
    BY <2>4 DEF Booked
<1>13. ASSUME NEW p \in Peers, ToggleSession(p) PROVE Booked'
  <2>1. UNCHANGED Judged
    BY <1>13 DEF ToggleSession, Judged
  <2>2. Kept(p)
    BY DEF Booked
  <2> QED
    BY <1>13, <2>1, <2>2, ToggleSets, BookedFrame, OneSession DEF Kept, Live
<1>14. ASSUME NEW on \in BOOLEAN, SetSTTEnabled(on) PROVE Booked'
  BY <1>14, BookedFrame DEF SetSTTEnabled, Judged
<1> QED
  BY <1>1, <1>2, <1>3, <1>4, <1>5, <1>6, <1>7, <1>8, <1>9, <1>10, <1>11, <1>12, <1>13, <1>14 DEF Next, Signaling, Track

--------------------------------------------------------------------------------
(* Packets in hand.                                                                *)

\* A session changes its place only to be reserved or opened, or to be closed while
\* no packet is being written.
Settles == \A p \in Peers : \/ sessions'[p].at = sessions[p].at \/ sessions'[p].at \in {"reserved", "open"}
                            \/ sessions'[p].at = "closed" /\ ~Locked(p)

LEMMA HeldFrame == ASSUME TypeOK, Handling, Settles, NEW t \in Slots, reader'[t] = reader[t] PROVE Held(t)'
<1>1. Held(t)
  BY DEF Handling
<1> QED
  BY <1>1 DEF Held, Busy, Settles, Live, Locked

LEMMA Settling == ASSUME TypeOK, Booked, Handling, Next PROVE Settles
<1>0. sessions' = sessions => Settles
  BY DEF Settles
<1>1. ASSUME NEW e \in Assignments, ApplySlotAssigned(e) PROVE Settles
  BY <1>1, <1>0 DEF ApplySlotAssigned, bridgeVars
<1>2. ASSUME NEW s \in Slots, ApplySlotReleased(s) PROVE Settles
  BY <1>2, <1>0 DEF ApplySlotReleased, bridgeVars
<1>3. \/ \E p \in Peers : OnPeerLeft(p)
      \/ CloseBridge
      => Settles
  <2>1. ASSUME NEW p \in Peers, OnPeerLeft(p) PROVE Settles
    <3>1. sessions' = [sessions EXCEPT ![p].table = FALSE]
      BY <2>1 DEF OnPeerLeft, HandlePeerEnded
    <3> QED
      BY <3>1 DEF Settles, TypeOK, Sessions
  <2>2. ASSUME CloseBridge PROVE Settles
    <3>1. sessions' = [p \in Peers |-> [sessions[p] EXCEPT !.table = FALSE]]
      BY <2>2 DEF CloseBridge
    <3> QED
      BY <3>1 DEF Settles, TypeOK, Sessions
  <2> QED
    BY <2>1, <2>2
<1>4. ASSUME NEW s \in Slots, ReadPacket(s) \/ Enter(s) \/ TrackEnds(s) PROVE Settles
  BY <1>4, <1>0 DEF ReadPacket, Enter, TrackEnds, bridgeVars
<1>5. ASSUME NEW s \in Slots, Reserve(s) PROVE Settles
  <2>1. sessions' = sessions \/ sessions' = [sessions EXCEPT ![reader[s].info.peer] = [Absent EXCEPT !.at = "reserved", !.table = TRUE]]
    BY <1>5 DEF Reserve
  <2> QED
    BY <2>1 DEF Settles, TypeOK, Absent
<1>6. ASSUME NEW s \in Slots, Write(s) PROVE Settles
  <2>1. PICK y \in Sessions : /\ sessions' = [sessions EXCEPT ![reader[s].info.peer] = y]
                              /\ y.at = sessions[reader[s].info.peer].at \/ y.at = "open"
    BY <1>6, WriteSets
  <2> QED
    BY <2>1 DEF Settles, TypeOK
<1>7. ASSUME NEW x \in ending, Retire(x) PROVE Settles
  BY <1>7, <1>0 DEF Retire
<1>8. ASSUME NEW x \in ending, Unbind(x) PROVE Settles
  <2>1. sessions' = sessions \/ sessions' = [sessions EXCEPT ![x.peer].bound = NoTrack]
    BY <1>8 DEF Unbind
  <2> QED
    BY <2>1 DEF Settles, TypeOK, Sessions
<1>9. ASSUME NEW p \in Peers, CloseSession(p) PROVE Settles
  BY <1>9 DEF CloseSession, Settles, TypeOK, Sessions
<1>10. ASSUME NEW p \in Peers, ToggleSession(p) PROVE Settles
  BY <1>10, ToggleSets DEF Settles, TypeOK
<1>11. ASSUME NEW on \in BOOLEAN, SetSTTEnabled(on) PROVE Settles
  BY <1>11, <1>0 DEF SetSTTEnabled
<1> QED
  BY <1>1, <1>2, <1>3, <1>4, <1>5, <1>6, <1>7, <1>8, <1>9, <1>10, <1>11 DEF Next, Signaling, Track

\* The read loops move one at a time, and only in their own steps.
LEMMA Reading ==
  ASSUME TypeOK, Next, NEW t \in Slots, reader'[t] # reader[t]
  PROVE  Track(t) /\ \A s \in Slots \ {t} : reader'[s] = reader[s]
<1>1. reader' # reader
  OBVIOUS
<1>2. ~Signaling
  BY <1>1 DEF Signaling, ApplySlotAssigned, ApplySlotReleased, OnPeerLeft, HandlePeerEnded
<1>3. ~CloseBridge /\ (\A x \in ending : ~Retire(x) /\ ~Unbind(x)) /\ (\A p \in Peers : ~CloseSession(p) /\ ~ToggleSession(p))
      /\ \A on \in BOOLEAN : ~SetSTTEnabled(on)
  BY <1>1 DEF CloseBridge, Retire, Unbind, CloseSession, ToggleSession, SetSTTEnabled
<1>4. PICK s \in Slots : Track(s)
  BY <1>2, <1>3 DEF Next
<1>5. \E r : reader' = [reader EXCEPT ![s] = r]
  <2>1. CASE ReadPacket(s) \/ Write(s)
    BY <2>1 DEF ReadPacket, Write
  <2>2. CASE Reserve(s)
    BY <2>2 DEF Reserve, TypeOK
  <2>3. CASE Enter(s)
    BY <2>3 DEF Enter
  <2>4. CASE TrackEnds(s)
    BY <2>4 DEF TrackEnds, TypeOK
  <2> QED
    BY <1>4, <2>1, <2>2, <2>3, <2>4 DEF Track
<1>6. \A q \in Slots \ {s} : reader'[q] = reader[q]
  BY <1>5 DEF TypeOK
<1>7. s = t
  BY <1>6
<1> QED
  BY <1>4, <1>6, <1>7

LEMMA HandlingStep == ASSUME TypeOK, Booked, Handling, Next PROVE Handling'
<1>0. Settles
  BY Settling
<1>1. ASSUME NEW t \in Slots, reader'[t] # reader[t] PROVE Held(t)'
  <2>1. Track(t)
    BY <1>1, Reading
  <2>2. Held(t)
    BY DEF Handling
  <2>3. CASE ReadPacket(t)
    <3>1. reader'[t] = [Waiting EXCEPT !.at = "reserve", !.info = [midTable[t] EXCEPT !.active = FALSE]]
      BY <2>3 DEF ReadPacket, TypeOK
    <3>2. midTable[t].peer \in Peers
      BY <2>3 DEF ReadPacket, TypeOK, Tracks, MaybePeers
    <3>3. reader'[t].at = "reserve" /\ reader'[t].info.peer = midTable[t].peer
      BY <3>1 DEF Waiting, TypeOK, Tracks
    <3> QED
      BY <3>2, <3>3 DEF Held, Busy
  <2>4. CASE Reserve(t)
    <3> DEFINE p == reader[t].info.peer
    <3>1. p \in Peers
      BY <2>2, <2>4 DEF Held, Busy, Reserve
    <3>2. reader'[t].at = "read" \/ (reader'[t].at = "enter" /\ reader'[t].info = reader[t].info /\ Accepts(t, reader[t].info))
      BY <2>4 DEF Reserve, TypeOK, Readers, Waiting
    <3>3. Accepts(t, reader[t].info) => sessions'[p].at # "absent"
      <4>1. Accepts(t, reader[t].info) => \/ sessions[p].table /\ sessions' = sessions
                                          \/ sessions' = [sessions EXCEPT ![p] = [Absent EXCEPT !.at = "reserved", !.table = TRUE]]
        BY <2>4 DEF Reserve
      <4>2. Kept(p)
        BY <3>1 DEF Booked
      <4>3. sessions[p].table => sessions[p].at # "absent"
        BY <4>2 DEF Kept, Live
      <4>4. [sessions EXCEPT ![p] = [Absent EXCEPT !.at = "reserved", !.table = TRUE]][p].at = "reserved"
        BY <3>1 DEF TypeOK, Absent
      <4> QED
        BY <4>1, <4>3, <4>4
    <3> QED
      BY <3>1, <3>2, <3>3 DEF Held, Busy
  <2>5. CASE Enter(t)
    <3>1. reader'[t].at = "read" \/ (reader'[t].at = "write" /\ reader'[t].info = reader[t].info /\ StillValid(t, reader[t].info))
      BY <2>5 DEF Enter, TypeOK, Readers, Waiting
    <3>2. sessions' = sessions /\ reader[t].at = "enter"
      BY <2>5 DEF Enter, bridgeVars
    <3>3. reader[t].info.peer \in Peers /\ sessions[reader[t].info.peer].at # "absent"
      BY <2>2, <3>2 DEF Held, Busy
    <3>4. sessions[reader[t].info.peer].at \in {"absent", "reserved", "open", "closed"}
      BY <3>3 DEF TypeOK, Sessions
    <3> QED
      BY <3>1, <3>2, <3>3, <3>4 DEF Held, Busy, StillValid, Live
  <2>6. CASE Write(t)
    BY <2>6 DEF Write, TypeOK, Waiting, Held, Busy
  <2>7. CASE TrackEnds(t)
    BY <2>7 DEF TrackEnds, TypeOK, Readers, Held, Busy
  <2> QED
    BY <2>1, <2>3, <2>4, <2>5, <2>6, <2>7 DEF Track
<1> QED
  BY <1>0, <1>1, HeldFrame DEF Handling
--------------------------------------------------------------------------------
(* Transcription off.                                                              *)

\* A step that turns nothing on and forgets no session.
LEMMA OffFrame ==
  ASSUME TypeOK, Off, sttEnabled' = sttEnabled, toggle \subseteq toggle', toClose \subseteq toClose',
         \A p \in Peers : sessions'[p].stt => sessions[p].stt,
         \A s \in Slots : reader'[s].at = "write" /\ reader'[s].stt =>
           sttEnabled \/ (reader[s].at = "write" /\ reader[s].stt /\ reader'[s].info = reader[s].info)
  PROVE  Off'
  BY DEF Off, Visited

LEMMA OffStep == ASSUME TypeOK, Booked, Handling, Off, Next PROVE Off'
<1>1. CASE Signaling \/ CloseBridge
  <2>1. UNCHANGED <<sttEnabled, toggle, reader>> /\ toClose \subseteq toClose'
    BY <1>1 DEF Signaling, ApplySlotAssigned, ApplySlotReleased, OnPeerLeft, HandlePeerEnded, CloseBridge, Signaled, bridgeVars
  <2>3. \/ sessions' = sessions
        \/ \E p \in Peers : sessions' = [sessions EXCEPT ![p].table = FALSE]
        \/ sessions' = [p \in Peers |-> [sessions[p] EXCEPT !.table = FALSE]]
    BY <1>1 DEF Signaling, ApplySlotAssigned, ApplySlotReleased, OnPeerLeft, HandlePeerEnded, CloseBridge, bridgeVars
  <2>2. \A p \in Peers : sessions'[p].stt = sessions[p].stt
    BY <2>3 DEF TypeOK, Sessions
  <2> QED
    BY <2>1, <2>2, OffFrame
<1>2. ASSUME NEW s \in Slots, ReadPacket(s) \/ Enter(s) \/ TrackEnds(s) PROVE Off'
  <2>1. UNCHANGED <<sttEnabled, toggle, sessions, toClose>>
    BY <1>2 DEF ReadPacket, Enter, TrackEnds, bridgeVars
  <2>2. ASSUME NEW t \in Slots, reader'[t].at = "write" /\ reader'[t].stt
        PROVE  sttEnabled \/ reader'[t] = reader[t]
    <3>1. CASE ReadPacket(s)
      BY <2>2, <3>1 DEF ReadPacket, TypeOK, Waiting
    <3>2. CASE TrackEnds(s)
      BY <2>2, <3>2 DEF TrackEnds, TypeOK, Readers
    <3>3. CASE Enter(s)
      <4>1. \/ reader' = [reader EXCEPT ![s] = [reader[s] EXCEPT !.at = "write", !.stt = sttEnabled]]
            \/ reader' = [reader EXCEPT ![s] = Waiting]
        BY <3>3 DEF Enter, TypeOK
      <4>2. [reader[s] EXCEPT !.at = "write", !.stt = sttEnabled].stt = sttEnabled /\ Waiting.at = "read"
        BY DEF TypeOK, Readers, Waiting
      <4> QED
        BY <2>2, <4>1, <4>2 DEF TypeOK
    <3> QED
      BY <1>2, <3>1, <3>2, <3>3
  <2> QED
    BY <2>1, <2>2, OffFrame
<1>3. ASSUME NEW s \in Slots, Reserve(s) PROVE Off'
  <2>1. UNCHANGED <<sttEnabled, toggle, toClose>>
    BY <1>3 DEF Reserve
  <2>2. \A t \in Slots : reader'[t].at = "write" => reader'[t] = reader[t]
    BY <1>3 DEF Reserve, TypeOK, Readers, Waiting
  <2>3. sessions' = sessions \/ sessions' = [sessions EXCEPT ![reader[s].info.peer] = [Absent EXCEPT !.at = "reserved", !.table = TRUE]]
    BY <1>3 DEF Reserve
  <2>4. \A p \in Peers : sessions'[p].stt => sessions[p].stt
    BY <2>3 DEF TypeOK, Absent
  <2> QED
    BY <2>1, <2>2, <2>4, OffFrame
<1>4. ASSUME NEW s \in Slots, Write(s) PROVE Off'
  <2> DEFINE p == reader[s].info.peer
  <2>1. UNCHANGED <<sttEnabled, toggle, toClose>> /\ reader[s].at = "write"
    BY <1>4 DEF Write
  <2>2. \A t \in Slots : reader'[t].at = "write" => reader'[t] = reader[t]
    BY <1>4 DEF Write, TypeOK, Readers, Waiting
  <2>3. PICK y \in Sessions : /\ sessions' = [sessions EXCEPT ![p] = y] /\ (y.stt => sessions[p].stt \/ reader[s].stt)
    BY <1>4, WriteSets
  <2>4. \A q \in Peers : sessions'[q].stt => sessions[q].stt \/ (q = p /\ reader[s].stt)
    BY <2>3 DEF TypeOK
  <2> QED
    BY <2>1, <2>2, <2>4 DEF Off, Visited
<1>5. ASSUME NEW x \in ending, Retire(x) \/ Unbind(x) PROVE Off'
  <2>1. UNCHANGED <<sttEnabled, toggle, toClose, reader>>
    BY <1>5 DEF Retire, Unbind
  <2>2. sessions' = sessions \/ sessions' = [sessions EXCEPT ![x.peer].bound = NoTrack]
    BY <1>5 DEF Retire, Unbind
  <2>3. \A p \in Peers : sessions'[p].stt = sessions[p].stt
    BY <2>2 DEF TypeOK, Sessions
  <2> QED
    BY <2>1, <2>3, OffFrame
<1>6. ASSUME NEW p \in Peers, CloseSession(p) PROVE Off'
  <2>1. UNCHANGED <<sttEnabled, toggle, reader>> /\ toClose' = toClose \ {p} /\ ~Locked(p)
    BY <1>6 DEF CloseSession
  <2>2. ~sessions'[p].stt /\ \A q \in Peers \ {p} : sessions'[q] = sessions[q]
    BY <1>6 DEF CloseSession, TypeOK, Sessions
  <2> QED
    BY <2>1, <2>2 DEF Off, Visited, Locked
<1>7. ASSUME NEW p \in Peers, ToggleSession(p) PROVE Off'
  <2>1. UNCHANGED <<sttEnabled, toClose, reader>> /\ toggle' = toggle \ {p} /\ ~Locked(p)
    BY <1>7 DEF ToggleSession
  <2>2. Kept(p)
    BY DEF Booked
  <2>3. (sessions'[p].stt => sttEnabled) /\ \A q \in Peers \ {p} : sessions'[q] = sessions[q]
    BY <1>7, <2>2, ToggleSets DEF TypeOK, Kept
  <2> QED
    BY <2>1, <2>3 DEF Off, Visited, Locked
<1>8. ASSUME NEW on \in BOOLEAN, SetSTTEnabled(on) PROVE Off'
  <2>1. UNCHANGED <<sessions, toClose, reader>> /\ toggle' = {p \in Peers : sessions[p].table}
    BY <1>8 DEF SetSTTEnabled, ToVisit
  <2>2. \A p \in Peers : sessions[p].stt \/ Live(p) => sessions[p].table \/ p \in toClose
    BY DEF Booked, Kept, Live
  <2>3. \A s \in Slots : reader[s].at = "write" => reader[s].info.peer \in Peers /\ Live(reader[s].info.peer)
    BY DEF Handling, Held, Busy
  <2> QED
    BY <2>1, <2>2, <2>3 DEF Off, Visited
<1> QED
  BY <1>1, <1>2, <1>3, <1>4, <1>5, <1>6, <1>7, <1>8 DEF Next, Track

--------------------------------------------------------------------------------
(* Bindings.                                                                       *)

LEMMA UniqueFrame ==
  ASSUME TypeOK, Unique, revisions' = revisions, Bindings' \subseteq Bindings, \A s \in Slots : midTable'[s].peer = pool'[s].peer
  PROVE  Unique'
  BY DEF Unique

\* A slot that is taken over gets a revision nobody has used.
LEMMA Assigned ==
  ASSUME TypeOK, Unique, NEW e \in Assignments, ApplySlotAssigned(e)
  PROVE  LET new == [slot |-> e.slot, peer |-> e.peer, rev |-> revisions + 1] IN
           /\ \A s \in Slots : midTable'[s].peer = pool'[s].peer
           /\ \/ Bindings' \subseteq Bindings /\ revisions' = revisions
              \/ Bindings' \subseteq Bindings \cup {new} /\ revisions' = revisions + 1
<1> DEFINE s == e.slot  new == [slot |-> e.slot, peer |-> e.peer, rev |-> revisions + 1]
<1>1. s \in Slots /\ e.peer \in Peers
  BY DEF Assignments
<1>2. reader' = reader
  BY DEF ApplySlotAssigned
<1>3. Read' = Read
  BY <1>2 DEF Read, Busy, Binding
<1>4. CASE Superseded(e)
  <2>1. UNCHANGED <<pool, midTable, revisions, ending>>
    BY <1>4 DEF ApplySlotAssigned, peerAgentVars
  <2> QED
    BY <1>3, <2>1 DEF Unique, Bindings, Bound, Ending, Binding
<1>5. CASE ~Superseded(e)
  <2>1. pool' = [pool EXCEPT ![s] = [gen |-> e.gen, peer |-> e.peer]]
    BY <1>5 DEF ApplySlotAssigned
  <2>2. PICK n \in Nat :
          /\ midTable' = [midTable EXCEPT ![s] = [peer |-> e.peer, active |-> e.active, rev |-> n]]
          /\ \/ revisions' = revisions /\ n = midTable[s].rev /\ pool[s].peer = e.peer
             \/ revisions' = revisions + 1 /\ n = revisions + 1
    <3> DEFINE same == pool[s].peer = e.peer /\ pool[s].gen = e.gen
    <3>1. /\ revisions' = IF same THEN revisions ELSE revisions + 1
          /\ midTable' = [midTable EXCEPT ![s] = [peer |-> e.peer, active |-> e.active,
                                                 rev |-> IF same THEN midTable[s].rev ELSE revisions']]
      BY <1>1, <1>5 DEF ApplySlotAssigned, TypeOK
    <3>2. midTable[s].rev \in Nat /\ revisions + 1 \in Nat
      BY <1>1 DEF TypeOK, Tracks
    <3> QED
      BY <3>1, <3>2
  <2>3. ending' = ending \/ (ending' = ending \cup {Ender(s)} /\ pool[s].peer # NoOne)
    BY <1>5 DEF ApplySlotAssigned
  <2>4. \A t \in Slots : midTable'[t].peer = pool'[t].peer
    BY <1>1, <2>1, <2>2 DEF Unique, TypeOK
  <2>5. midTable[s].peer = pool[s].peer
    BY <1>1 DEF Unique
  <2>6. Ending' \subseteq Ending \cup Bound
    <3>1. ASSUME pool[s].peer # NoOne PROVE Binding(Ender(s).slot, Ender(s)) \in Bound
      BY <1>1, <2>5, <3>1 DEF Binding, Ender, Bound
    <3> QED
      BY <2>3, <3>1 DEF Ending
  <2>7. Bound' \subseteq Bound \cup {[slot |-> s, peer |-> e.peer, rev |-> n]}
    BY <1>1, <2>2 DEF Bound, Binding, TypeOK
  <2>8. CASE revisions' = revisions /\ n = midTable[s].rev /\ pool[s].peer = e.peer
    <3>1. [slot |-> s, peer |-> e.peer, rev |-> n] \in Bound
      BY <1>1, <2>5, <2>8, NoOneAssumption DEF Bound, Binding
    <3> QED
      BY <1>3, <2>4, <2>6, <2>7, <2>8, <3>1 DEF Bindings
  <2>9. CASE revisions' = revisions + 1 /\ n = revisions + 1
    BY <1>3, <2>4, <2>6, <2>7, <2>9 DEF Bindings
  <2> QED
    BY <2>2, <2>8, <2>9
<1> QED
  BY <1>4, <1>5

LEMMA Released ==
  ASSUME TypeOK, Unique, NEW slots \in SUBSET Slots, NEW gens, Release(slots, gens), reader' = reader
  PROVE  Bindings' \subseteq Bindings /\ \A s \in Slots : midTable'[s].peer = pool'[s].peer
<1> DEFINE owned == {s \in slots : pool[s].peer # NoOne}
<1>1. /\ pool' = [s \in Slots |-> IF s \in slots THEN [gen |-> gens[s], peer |-> NoOne] ELSE pool[s]]
      /\ midTable' = [s \in Slots |-> IF s \in owned THEN NoTrack ELSE midTable[s]]
      /\ ending' = ending \cup {Ender(s) : s \in owned}
  BY DEF Release
<1>2. \A s \in Slots : midTable[s].peer = pool[s].peer
  BY DEF Unique
<1>3. \A s \in Slots : midTable'[s].peer = pool'[s].peer
  BY <1>1, <1>2 DEF NoTrack
<1>4. Bound' \subseteq Bound
  BY <1>1 DEF Bound, Binding, NoTrack
<1>5. ASSUME NEW s \in owned PROVE Binding(Ender(s).slot, Ender(s)) \in Bound
  BY <1>2 DEF Binding, Ender, Bound
<1>6. Ending' \subseteq Ending \cup Bound
  BY <1>1, <1>5 DEF Ending
<1>7. Read' = Read
  BY DEF Read, Busy, Binding
<1> QED
  BY <1>3, <1>4, <1>6, <1>7 DEF Bindings

\* Nobody else makes a binding: they are read, ended and forgotten.
LEMMA Shrinks ==
  ASSUME TypeOK, Handling, Unique, Next, \A e \in Assignments : ~ApplySlotAssigned(e)
  PROVE  /\ Bindings' \subseteq Bindings /\ revisions' = revisions
         /\ \A s \in Slots : midTable'[s].peer = pool'[s].peer
<1>0. ASSUME UNCHANGED <<midTable, ending, reader>> PROVE Bindings' = Bindings
  BY <1>0 DEF Bindings, Bound, Ending, Read, Binding, Busy
<1>1. ASSUME NEW s \in Slots, ApplySlotReleased(s) PROVE Bindings' \subseteq Bindings /\ revisions' = revisions /\ \A q \in Slots : midTable'[q].peer = pool'[q].peer
  BY <1>1, Released DEF ApplySlotReleased
<1>2. ASSUME NEW p \in Peers, OnPeerLeft(p) PROVE Bindings' \subseteq Bindings /\ revisions' = revisions /\ \A q \in Slots : midTable'[q].peer = pool'[q].peer
  <2> DEFINE listed == {s \in Slots : owner[s].peer = p /\ pool[s].gen <= owner[s].gen}
             slots == listed \cup {s \in Slots : pool[s].peer = p}
             gens == [s \in Slots |-> IF s \in listed THEN owner[s].gen ELSE pool[s].gen]
  <2>1. Release(slots, gens) /\ reader' = reader /\ revisions' = revisions
    BY <1>2 DEF OnPeerLeft, HandlePeerEnded
  <2>2. slots \in SUBSET Slots
    OBVIOUS
  <2> HIDE DEF slots, gens
  <2> QED
    BY <2>1, <2>2, Released
<1>3. ASSUME UNCHANGED peerAgentVars, ~Signaling PROVE Bindings' \subseteq Bindings
  <2>1. UNCHANGED midTable
    BY <1>3 DEF peerAgentVars
  <2>2. Bound' = Bound
    BY <2>1 DEF Bound, Binding
  <2>3. Ending' \subseteq Ending \cup Bound
    <3>1. CASE ending' \subseteq ending
      BY <3>1 DEF Ending, Binding
    <3>2. ASSUME NEW s \in Slots, TrackEnds(s) PROVE Ending' \subseteq Ending \cup Bound
      <4>1. midTable[s].peer # NoOne => Binding(Ender(s).slot, Ender(s)) \in Bound
        BY DEF Binding, Ender, Bound
      <4> QED
        BY <3>2, <4>1 DEF TrackEnds, Ending
    <3>3. ASSUME NEW x \in ending, Retire(x) PROVE Ending' \subseteq Ending
      <4>1. x \in Enders
        BY DEF TypeOK
      <4>2. Binding([x EXCEPT !.at = "unbind"].slot, [x EXCEPT !.at = "unbind"]) = Binding(x.slot, x)
        BY <4>1 DEF Binding, Enders
      <4>3. ending' \subseteq ending \cup {[x EXCEPT !.at = "unbind"]}
        BY <3>3 DEF Retire
      <4> QED
        BY <4>2, <4>3 DEF Ending
    <3> QED
      BY <1>3, <3>1, <3>2, <3>3
      DEF Next, Track, CloseBridge, ReadPacket, Reserve, Enter, Write, Unbind, CloseSession, ToggleSession, SetSTTEnabled, endVars
  <2>4. Read' \subseteq Read \cup Bound
    <3>1. ASSUME NEW t \in Slots, reader'[t].at \in {"reserve", "enter", "write"}, reader'[t] # reader[t]
          PROVE  Binding(t, reader[t].info)' \in Read \cup Bound
      <4>1. Track(t)
        BY <3>1, Reading
      <4>2. CASE ReadPacket(t)
        <5>1. reader'[t].info = [midTable[t] EXCEPT !.active = FALSE] /\ midTable[t].peer # NoOne /\ midTable[t] \in Tracks
          BY <4>2 DEF ReadPacket, TypeOK, Waiting
        <5>2. reader'[t].info.peer = midTable[t].peer /\ reader'[t].info.rev = midTable[t].rev
          BY <5>1 DEF Tracks
        <5>3. Binding(t, reader[t].info)' = Binding(t, midTable[t])
          BY <5>2 DEF Binding
        <5>4. Binding(t, midTable[t]) \in Bound
          BY <5>1 DEF Bound
        <5> QED
          BY <5>3, <5>4
      <4>3. CASE Reserve(t) \/ Enter(t)
        <5>1. Busy(t)
          BY <4>3 DEF Reserve, Enter, Busy
        <5>2. reader'[t].info = reader[t].info \/ reader'[t] = Waiting
          <6>1. \/ reader' = [reader EXCEPT ![t] = [reader[t] EXCEPT !.at = "enter"]]
                \/ reader' = [reader EXCEPT ![t] = [reader[t] EXCEPT !.at = "write", !.stt = sttEnabled]]
                \/ reader' = [reader EXCEPT ![t] = Waiting]
            BY <4>3 DEF Reserve, Enter, TypeOK
          <6>2. reader[t] \in Readers
            BY DEF TypeOK
          <6>3. /\ [reader[t] EXCEPT !.at = "enter"].info = reader[t].info
                /\ [reader[t] EXCEPT !.at = "write", !.stt = sttEnabled].info = reader[t].info
            BY <6>2 DEF Readers
          <6> QED
            BY <6>1, <6>3 DEF TypeOK
        <5>6. Waiting.at = "read"
          BY DEF Waiting
        <5>3. reader'[t].info = reader[t].info
          BY <3>1, <5>2, <5>6
        <5>4. Binding(t, reader[t].info) \in Read
          BY <5>1 DEF Read
        <5>5. Binding(t, reader[t].info)' = Binding(t, reader[t].info)
          BY <5>3 DEF Binding
        <5> QED
          BY <5>4, <5>5
      <4>4. CASE Write(t) \/ TrackEnds(t)
        <5>1. Waiting.at = "read"
          BY DEF Waiting
        <5>2. reader'[t] = Waiting \/ reader'[t].at = "over"
          BY <4>4 DEF Write, TrackEnds, TypeOK, Readers
        <5> QED
          BY <3>1, <5>1, <5>2
      <4> QED
        BY <4>1, <4>2, <4>3, <4>4 DEF Track
    <3>2. ASSUME NEW t \in Slots, Busy(t)', reader'[t] = reader[t] PROVE Binding(t, reader[t].info)' \in Read
      BY <3>2 DEF Busy, Read, Binding
    <3> QED
      BY <3>1, <3>2 DEF Read, Busy
  <2> QED
    BY <2>2, <2>3, <2>4 DEF Bindings
<1>4. ~Signaling => UNCHANGED peerAgentVars
  BY DEF Next, Track, CloseBridge, ReadPacket, Reserve, Enter, Write, TrackEnds, Retire, Unbind, CloseSession, ToggleSession, SetSTTEnabled
<1>5. ~Signaling => revisions' = revisions /\ \A q \in Slots : midTable'[q].peer = pool'[q].peer
  BY <1>4 DEF peerAgentVars, Unique
<1> QED
  BY <1>1, <1>2, <1>3, <1>4, <1>5 DEF Signaling

LEMMA UniqueStep == ASSUME TypeOK, Handling, Unique, Next PROVE Unique'
<1>1. ASSUME NEW e \in Assignments, ApplySlotAssigned(e) PROVE Unique'
  <2> DEFINE new == [slot |-> e.slot, peer |-> e.peer, rev |-> revisions + 1]
  <2>1. CASE Bindings' \subseteq Bindings /\ revisions' = revisions
    BY <1>1, <2>1, Assigned, UniqueFrame
  <2>2. CASE Bindings' \subseteq Bindings \cup {new} /\ revisions' = revisions + 1
    <3>1. revisions \in Nat /\ \A b \in Bindings : b.rev \in Nat
      BY DEF TypeOK, Bindings, Bound, Ending, Read, Binding, Tracks, Enders, Readers
    <3>2. \A s \in Slots : midTable'[s].peer = pool'[s].peer
      BY <1>1, Assigned
    <3>3. new.rev = revisions + 1
      OBVIOUS
    <3> HIDE DEF new
    <3>4. \A b \in Bindings' : b.rev <= revisions'
      BY <2>2, <3>1, <3>3 DEF Unique
    <3>5. \A b \in Bindings : b.rev # new.rev
      BY <3>1, <3>3 DEF Unique
    <3>6. \A b, c \in Bindings' : b.rev = c.rev => b = c
      BY <2>2, <3>5 DEF Unique
    <3> QED
      BY <3>2, <3>4, <3>6 DEF Unique
  <2> QED
    BY <1>1, <2>1, <2>2, Assigned
<1> QED
  BY <1>1, Shrinks, UniqueFrame

--------------------------------------------------------------------------------
(* Bindings that have ended.                                                       *)

\* The packets being written, of which no revision may be among the ended ones.
Silent(s) == reader[s].at = "write" /\ reader[s].info.peer \notin toClose => reader[s].info.rev \notin ended

LEMMA SilentFrame ==
  ASSUME TypeOK, Retired, ended' = ended, toClose \subseteq toClose', NEW s \in Slots,
         reader'[s].at = "write" => reader[s].at = "write" /\ reader'[s].info = reader[s].info
  PROVE  Silent(s)'
<1>1. Silent(s)
  BY DEF Retired, EndedIsSilent, Silent
<1> QED
  BY <1>1 DEF Silent

\* While nothing is retired and nothing ends, the rest follows from the bindings.
LEMMA RetiredFrame ==
  ASSUME TypeOK, Retired, UNCHANGED <<retired, ended>>, revisions <= revisions', revisions' \in Nat,
         \A b \in Bindings' : b \in Bindings \/ b.rev > revisions,
         \A x \in ending' : x.at = "unbind" => x \in ending,
         \A s \in Slots : Silent(s)'
  PROVE  Retired'
<1>1. \A r \in ended : r \in Nat /\ r <= revisions
  BY DEF Retired, TypeOK
<1>2. \A r \in ended' : r <= revisions'
  BY <1>1 DEF TypeOK
<1>3. ASSUME NEW b \in Bindings', b.rev \in ended' PROVE retired'[b.slot] >= b.rev
  <2>1. b.rev \in Nat /\ b.rev <= revisions /\ revisions \in Nat
    BY <1>1, <1>3 DEF TypeOK
  <2> QED
    BY <1>3, <2>1 DEF Retired
<1>4. \A x \in ending' : x.at = "unbind" => retired'[x.slot] >= x.rev
  BY DEF Retired
<1> QED
  BY <1>2, <1>3, <1>4 DEF Retired, EndedIsSilent, Silent

\* A binding that is being ended.
LEMMA EndedBinding ==
  ASSUME TypeOK, Unique, NEW x \in ending
  PROVE  /\ Binding(x.slot, x) \in Bindings /\ x.slot \in Slots /\ x.peer \in Peers /\ x.rev \in Nat /\ x.rev <= revisions
         /\ \A b \in Bindings : b.rev = x.rev => b.slot = x.slot /\ b.peer = x.peer
<1>1. x \in Enders
  BY DEF TypeOK
<1>2. Binding(x.slot, x) \in Bindings
  BY DEF Bindings, Ending
<1>3. Binding(x.slot, x).rev = x.rev /\ Binding(x.slot, x).slot = x.slot /\ Binding(x.slot, x).peer = x.peer
  BY DEF Binding
<1> QED
  BY <1>1, <1>2, <1>3 DEF Unique, Enders

LEMMA BusyBinding ==
  ASSUME TypeOK, Handling, NEW s \in Slots, Busy(s)
  PROVE  /\ Binding(s, reader[s].info) \in Bindings /\ reader[s].info.rev \in Nat
         /\ Binding(s, reader[s].info).slot = s /\ Binding(s, reader[s].info).peer = reader[s].info.peer
         /\ Binding(s, reader[s].info).rev = reader[s].info.rev
  BY DEF Bindings, Read, Binding, TypeOK, Readers, Tracks

LEMMA RetireStep ==
  ASSUME TypeOK, Booked, Handling, Unique, Retired, Bindings' \subseteq Bindings, NEW x \in ending, Retire(x)
  PROVE  Retired'
<1>1. /\ x.slot \in Slots /\ x.peer \in Peers /\ x.rev \in Nat /\ x.rev <= revisions
      /\ \A b \in Bindings : b.rev = x.rev => b.slot = x.slot /\ b.peer = x.peer
  BY EndedBinding
<1>2. retired' = [retired EXCEPT ![x.slot] = Max({retired[x.slot], x.rev})] /\ UNCHANGED <<revisions, toClose, reader, sessions>>
  BY DEF Retire, peerAgentVars
<1>3. retired[x.slot] \in Nat /\ retired \in [Slots -> Nat]
  BY <1>1 DEF TypeOK
<1>4. PICK m \in Nat : m = Max({retired[x.slot], x.rev}) /\ m >= retired[x.slot] /\ m >= x.rev
  BY <1>1, <1>3, Larger
<1>5. retired' = [retired EXCEPT ![x.slot] = m]
  BY <1>2, <1>4
<1>6. retired'[x.slot] >= x.rev /\ \A t \in Slots : retired'[t] \in Nat /\ retired[t] \in Nat /\ retired'[t] >= retired[t]
  <2>1. retired'[x.slot] = m /\ \A t \in Slots \ {x.slot} : retired'[t] = retired[t]
    BY <1>1, <1>3, <1>5
  <2>2. \A t \in Slots : retired[t] \in Nat
    BY <1>3
  <2> QED
    BY <1>1, <1>4, <2>1, <2>2
<1>7. \/ sessions[x.peer].table /\ ended' = ended
      \/ ~sessions[x.peer].table /\ ended' = ended \cup {x.rev}
  BY DEF Retire
<1>8. \A b \in Bindings : b.slot \in Slots /\ b.rev \in Nat
  BY DEF TypeOK, Bindings, Bound, Ending, Read, Binding, Tracks, Enders, Readers
<1>9. \A r \in ended' : r <= revisions'
  BY <1>1, <1>2, <1>7 DEF Retired
<1>10. ASSUME NEW b \in Bindings', b.rev \in ended' PROVE retired'[b.slot] >= b.rev
  <2>1. b \in Bindings /\ b.slot \in Slots /\ b.rev \in Nat
    BY <1>8
  <2>2. CASE b.rev \in ended
    <3>1. retired[b.slot] >= b.rev
      BY <2>1, <2>2 DEF Retired
    <3> QED
      BY <1>6, <2>1, <3>1
  <2>3. CASE b.rev = x.rev
    BY <1>1, <1>6, <2>1, <2>3
  <2> QED
    BY <1>7, <1>10, <2>2, <2>3
<1>11. ASSUME NEW y \in ending', y.at = "unbind" PROVE retired'[y.slot] >= y.rev
  <2>1. y \in ending \/ y = [x EXCEPT !.at = "unbind"]
    BY DEF Retire
  <2>2. CASE y \in ending
    <3>1. y.slot \in Slots /\ y.rev \in Nat /\ retired[y.slot] >= y.rev
      BY <1>11, <2>2 DEF Retired, TypeOK, Enders
    <3> QED
      BY <1>6, <3>1
  <2>3. CASE y = [x EXCEPT !.at = "unbind"]
    <3>1. y.slot = x.slot /\ y.rev = x.rev
      BY <2>3 DEF TypeOK, Enders
    <3> QED
      BY <1>6, <3>1
  <2> QED
    BY <2>1, <2>2, <2>3
<1>12. ASSUME NEW s \in Slots, reader[s].at = "write", reader[s].info.peer \notin toClose PROVE reader[s].info.rev \notin ended'
  <2>1. reader[s].info.rev \notin ended
    BY <1>12 DEF Retired, EndedIsSilent
  <2>2. Busy(s) /\ Live(reader[s].info.peer) /\ reader[s].info.peer \in Peers
    BY <1>12 DEF Handling, Held, Busy
  <2>3. sessions[reader[s].info.peer].table
    BY <1>12, <2>2 DEF Booked, Kept
  <2>4. reader[s].info.rev = x.rev => reader[s].info.peer = x.peer
    BY <1>1, <2>2, BusyBinding
  <2> QED
    BY <1>7, <2>1, <2>3, <2>4
<1>13. EndedIsSilent'
  BY <1>2, <1>12 DEF EndedIsSilent
<1> QED
  BY <1>9, <1>10, <1>11, <1>13 DEF Retired

LEMMA UnbindStep ==
  ASSUME TypeOK, Handling, Unique, Retired, Bindings' \subseteq Bindings, NEW x \in ending, Unbind(x)
  PROVE  Retired'
<1>1. /\ x.slot \in Slots /\ x.rev \in Nat /\ x.rev <= revisions
      /\ \A b \in Bindings : b.rev = x.rev => b.slot = x.slot /\ b.peer = x.peer
  BY EndedBinding
<1>2. /\ UNCHANGED <<retired, revisions, toClose, reader>> /\ ending' = ending \ {x} /\ ended' = ended \cup {x.rev}
      /\ x.at = "unbind" /\ ~Locked(x.peer)
  BY DEF Unbind, peerAgentVars
<1>3. retired[x.slot] >= x.rev
  BY <1>2 DEF Retired
<1>4. \A r \in ended' : r <= revisions'
  BY <1>1, <1>2 DEF Retired
<1>5. ASSUME NEW b \in Bindings', b.rev \in ended' PROVE retired'[b.slot] >= b.rev
  <2>1. b.rev = x.rev => b.slot = x.slot
    BY <1>1
  <2> QED
    BY <1>2, <1>3, <1>5, <2>1 DEF Retired
<1>6. \A y \in ending' : y.at = "unbind" => retired'[y.slot] >= y.rev
  BY <1>2 DEF Retired
<1>7. ASSUME NEW s \in Slots, reader[s].at = "write", reader[s].info.peer \notin toClose PROVE reader[s].info.rev \notin ended'
  <2>1. reader[s].info.rev \notin ended
    BY <1>7 DEF Retired, EndedIsSilent
  <2>2. reader[s].info.rev = x.rev => reader[s].info.peer = x.peer
    BY <1>1, <1>7, BusyBinding DEF Busy
  <2>3. reader[s].info.peer # x.peer
    BY <1>2, <1>7 DEF Locked
  <2> QED
    BY <1>2, <2>1, <2>2, <2>3
<1>8. EndedIsSilent'
  BY <1>2, <1>7 DEF EndedIsSilent
<1> QED
  BY <1>4, <1>5, <1>6, <1>8 DEF Retired

LEMMA RetiredStep == ASSUME TypeOK, Booked, Handling, Unique, Retired, Next, TypeOK' PROVE Retired'
<1>1. ASSUME NEW e \in Assignments, ApplySlotAssigned(e) PROVE Retired'
  <2>1. UNCHANGED <<retired, ended, toClose, reader>>
    BY <1>1 DEF ApplySlotAssigned, bridgeVars
  <2>2. revisions \in Nat /\ revisions' \in Nat
    BY DEF TypeOK
  <2> DEFINE new == [slot |-> e.slot, peer |-> e.peer, rev |-> revisions + 1]
  <2>3. new.rev > revisions
    BY <2>2
  <2>4. /\ Bindings' \subseteq Bindings \cup {new}
        /\ revisions' = revisions \/ revisions' = revisions + 1
    BY <1>1, Assigned
  <2> HIDE DEF new
  <2>5. revisions <= revisions' /\ \A b \in Bindings' : b \in Bindings \/ b.rev > revisions
    BY <2>2, <2>3, <2>4
  <2>6. \A x \in ending' : x.at = "unbind" => x \in ending
    BY <1>1 DEF ApplySlotAssigned, peerAgentVars, Ender
  <2>7. \A s \in Slots : Silent(s)'
    BY <2>1, SilentFrame
  <2> QED
    BY <2>1, <2>2, <2>5, <2>6, <2>7, RetiredFrame
<1>2. ASSUME \A e \in Assignments : ~ApplySlotAssigned(e), \A x \in ending : ~Retire(x) /\ ~Unbind(x) PROVE Retired'
  <2>1. Bindings' \subseteq Bindings /\ revisions' = revisions /\ revisions \in Nat
    BY <1>2, Shrinks DEF TypeOK
  <2>2. UNCHANGED <<retired, ended>>
    BY <1>2 DEF Next, Signaling, Track, ApplySlotReleased, OnPeerLeft, HandlePeerEnded, CloseBridge, ReadPacket, Reserve, Enter, Write, TrackEnds,
                CloseSession, ToggleSession, SetSTTEnabled, endVars, bridgeVars
  <2>3. ASSUME NEW x \in ending', x.at = "unbind" PROVE x \in ending
    <3>1. CASE (\E s \in Slots : ApplySlotReleased(s)) \/ \E p \in Peers : OnPeerLeft(p)
      BY <2>3, <3>1 DEF ApplySlotReleased, OnPeerLeft, HandlePeerEnded, Release, Ender
    <3>2. CASE \E s \in Slots : TrackEnds(s)
      BY <2>3, <3>2 DEF TrackEnds, Ender
    <3>3. CASE UNCHANGED ending
      BY <2>3, <3>3
    <3> QED
      BY <1>2, <3>1, <3>2, <3>3 DEF Next, Signaling, Track, CloseBridge, ReadPacket, Reserve, Enter, Write,
                CloseSession, ToggleSession, SetSTTEnabled, endVars
  <2>4. ASSUME NEW p \in Peers, CloseSession(p) PROVE \A s \in Slots : Silent(s)'
    <3>1. /\ toClose' = toClose \ {p} /\ UNCHANGED <<ended, reader>>
          /\ \A s \in Slots : reader[s].at = "write" => reader[s].info.peer # p
      BY <2>4 DEF CloseSession, Locked, endVars
    <3> QED
      BY <3>1 DEF Retired, EndedIsSilent, Silent
  <2>5. ASSUME \A p \in Peers : ~CloseSession(p) PROVE toClose \subseteq toClose'
    BY <1>2, <2>5 DEF Next, Signaling, Signaled, Track, ApplySlotReleased, OnPeerLeft, HandlePeerEnded, CloseBridge, ReadPacket, Reserve, Enter, Write, TrackEnds,
                ToggleSession, SetSTTEnabled, bridgeVars
  <2>6. ASSUME \A p \in Peers : ~CloseSession(p), NEW s \in Slots PROVE Silent(s)'
    <3>1. CASE reader'[s] = reader[s]
      BY <2>2, <2>5, <2>6, <3>1, SilentFrame
    <3>2. CASE reader'[s] # reader[s]
      <4>1. Track(s)
        BY <3>2, Reading
      <4>2. CASE Enter(s)
        <5>1. reader[s].at = "enter" /\ UNCHANGED <<toClose, retired>>
          BY <4>2 DEF Enter, bridgeVars
        <5>2. \/ reader' = [reader EXCEPT ![s] = Waiting]
              \/ reader[s].info.rev > retired[s] /\ reader' = [reader EXCEPT ![s] = [reader[s] EXCEPT !.at = "write", !.stt = sttEnabled]]
          BY <4>2 DEF Enter, StillValid, Accepts
        <5>3. reader'[s].at = "write" => reader[s].info.rev > retired[s] /\ reader'[s].info = reader[s].info
          <6>1. [reader[s] EXCEPT !.at = "write", !.stt = sttEnabled].info = reader[s].info /\ Waiting.at = "read"
            BY DEF TypeOK, Readers, Waiting
          <6> QED
            BY <5>2, <6>1 DEF TypeOK
        <5>4. Binding(s, reader[s].info) \in Bindings /\ reader[s].info.rev \in Nat /\ retired[s] \in Nat
              /\ Binding(s, reader[s].info).slot = s /\ Binding(s, reader[s].info).rev = reader[s].info.rev
          BY <5>1, BusyBinding DEF Busy, TypeOK
        <5>5. reader[s].info.rev \in ended => retired[s] >= reader[s].info.rev
          BY <5>4 DEF Retired
        <5> QED
          BY <2>2, <5>3, <5>4, <5>5 DEF Silent
      <4>3. CASE ReadPacket(s)
        BY <4>3 DEF ReadPacket, TypeOK, Waiting, Silent
      <4>4. CASE Reserve(s)
        BY <4>4 DEF Reserve, TypeOK, Readers, Waiting, Silent
      <4>5. CASE Write(s)
        BY <4>5 DEF Write, TypeOK, Waiting, Silent
      <4>6. CASE TrackEnds(s)
        BY <4>6 DEF TrackEnds, TypeOK, Readers, Silent
      <4> QED
        BY <4>1, <4>2, <4>3, <4>4, <4>5, <4>6 DEF Track
    <3> QED
      BY <3>1, <3>2
  <2> QED
    BY <2>1, <2>2, <2>3, <2>4, <2>6, RetiredFrame
<1>3. (\A e \in Assignments : ~ApplySlotAssigned(e)) => Bindings' \subseteq Bindings
  BY Shrinks
<1>4. ASSUME NEW x \in ending, Retire(x) \/ Unbind(x) PROVE \A e \in Assignments : ~ApplySlotAssigned(e) \/ Bindings' \subseteq Bindings
  <2>1. ASSUME NEW e \in Assignments, ApplySlotAssigned(e) PROVE Bindings' \subseteq Bindings
    <3>1. revisions' = revisions /\ revisions \in Nat
      BY <1>4 DEF Retire, Unbind, peerAgentVars, TypeOK
    <3>2. revisions' # revisions + 1
      BY <3>1
    <3> QED
      BY <2>1, <3>2, Assigned
  <2> QED
    BY <2>1
<1>5. ASSUME NEW x \in ending, Retire(x) \/ Unbind(x) PROVE Retired'
  <2>1. Bindings' \subseteq Bindings
    BY <1>3, <1>4, <1>5
  <2> QED
    BY <1>5, <2>1, RetireStep, UnbindStep
<1> QED
  BY <1>1, <1>2, <1>5
--------------------------------------------------------------------------------
(* Theorems.                                                                       *)

LEMMA InvInit == Init => Inv
<1> SUFFICES ASSUME Init PROVE Inv
  OBVIOUS
<1>1. NoTrack \in Tracks /\ Free \in Holders /\ Absent \in Sessions /\ Waiting \in Readers
  BY DEF NoTrack, Tracks, Free, Holders, Absent, Sessions, Waiting, Readers, MaybePeers
<1>2. TypeOK
  BY <1>1 DEF Init, TypeOK
<1>3. Booked /\ Handling /\ Off
  BY DEF Init, Booked, Kept, Live, Absent, Handling, Held, Busy, Waiting, Off, Visited
<1>4. Bindings = {}
  BY DEF Init, Bindings, Bound, Ending, Read, Busy, NoTrack, Waiting
<1>5. Unique /\ Retired
  BY <1>4 DEF Init, Unique, Retired, EndedIsSilent, NoTrack, Free, Waiting
<1> QED
  BY <1>2, <1>3, <1>5 DEF Inv

LEMMA InvStep == Inv /\ [Next]_vars => Inv'
<1> SUFFICES ASSUME Inv, [Next]_vars PROVE Inv'
  OBVIOUS
<1> USE DEF Inv
<1>1. CASE Next
  <2>1. TypeOK'
    BY <1>1, SignalingType, BridgeType DEF Unique
  <2>2. Booked' /\ Handling'
    BY <1>1, BookedStep, HandlingStep
  <2>3. Off'
    BY <1>1, OffStep
  <2>4. Unique'
    BY <1>1, UniqueStep
  <2>5. Retired'
    BY <1>1, <2>1, RetiredStep
  <2> QED
    BY <2>1, <2>2, <2>3, <2>4, <2>5
<1>2. CASE UNCHANGED vars
  <2>1. TypeOK'
    BY <1>2 DEF vars, sfuVars, peerAgentVars, endVars, bridgeVars, TypeOK
  <2>2. Booked' /\ Handling' /\ Off'
    BY <1>2 DEF vars, bridgeVars, Booked, Kept, Live, Handling, Held, Busy, Off, Visited
  <2>3. Bindings' = Bindings
    BY <1>2 DEF vars, peerAgentVars, endVars, Bindings, Bound, Ending, Read, Busy, Binding
  <2>4. Unique' /\ Retired'
    BY <1>2, <2>3 DEF vars, sfuVars, peerAgentVars, endVars, bridgeVars, Unique, Retired, EndedIsSilent
  <2> QED
    BY <2>1, <2>2, <2>4
<1> QED
  BY <1>1, <1>2

LEMMA InvAlways == Spec => []Inv
<1> QED
  BY InvInit, InvStep, PTL DEF Spec

\* Every variable keeps its type, whichever events, packets and toggles come.
THEOREM TypeCorrect == Spec => []TypeOK
<1>1. Inv => TypeOK
  BY DEF Inv
<1> QED
  BY <1>1, InvAlways, PTL

\* participantBridge: a departed peer's sinks stay closed, whatever late packet, toggle
\* or end of a binding comes after, for every pool and any number of peers.
THEOREM DepartedIsClosedAlways == Spec => []DepartedIsClosed
<1>1. Inv => DepartedIsClosed
  BY DEF Inv, Booked, Kept, Live, DepartedIsClosed
<1> QED
  BY <1>1, InvAlways, PTL

\* PeerAgent and participantBridge: once OnTrackEnded of a binding has returned, no
\* packet read under it is written, though it was accepted before.
THEOREM EndedIsSilentAlways == Spec => []EndedIsSilent
<1>1. Inv => EndedIsSilent
  BY DEF Inv, Retired
<1> QED
  BY <1>1, InvAlways, PTL

\* SetSTTEnabled: when it has returned from turning transcription off, no session
\* holds a transcription sink, whichever packet was opening one meanwhile.
THEOREM SttFollowsAlways == Spec => []SttFollows
<1>1. Inv => SttFollows
  BY DEF Inv, Off, Visited, SttFollows
<1> QED
  BY <1>1, InvAlways, PTL
--------------------------------------------------------------------------------
(* TtsPlayer, whose state and promises are those of VoiceState.                     *)

Voice == INSTANCE TtsPlayer
--------------------------------------------------------------------------------
(* TtsPlayer: types.                                                               *)

Forwarders == [queue : Seq(Nat), dropped : Nat, rejected : BOOLEAN, told : Nat, handed : Nat, offered : Nat,
               writer : {"none", "running", "closing", "done", "broken"}]
Utterances == [at : Int, pos : Nat]
WorkerStages == {"none", "idle", "opening", "dialing", "synthesizing", "ready", "playing", "played", "reporting", "exited"}
Voices == [requests : Nat, stopped : BOOLEAN, worker : WorkerStages, frame : Nat, due : Nat, start : Nat,
           recorder : BOOLEAN, has : BOOLEAN, fwd : Forwarders, speaking : BOOLEAN, last : Nat,
           ticker : {"none", "running", "done"}, said : Seq(Utterances), owed : BOOLEAN, completed : BOOLEAN]
MaybePlayers == Players \cup {NoPlayer}
Closing == {"stop", "wait", "ticker", "flush", "shut", "completed", "closed"}
VoiceTypeOK ==
  /\ player \in [Players -> Voices] /\ refs \in MaybePlayers /\ handler \in MaybePlayers
  /\ main \in [at : {"out", "joining", "in"} \cup Closing, p : MaybePlayers, rejoin : BOOLEAN]
  /\ now \in Nat /\ asked \in Nat /\ panicked \in BOOLEAN
--------------------------------------------------------------------------------
(* TtsPlayer: the invariant of a player.                                           *)

\* The worker of a stopped player has nothing left that ends in playback; one that is
\* dialing still has its dial to finish.
Settled(r) == r.stopped /\ r.worker \in {"idle", "synthesizing", "reporting", "exited"}
Unwinding(r) == Settled(r) \/ (r.stopped /\ r.worker = "dialing")

\* A player dials once: before its first utterance.
DialsOnce(r) ==
  /\ r.worker = "none" => r = Voice!Unmade
  /\ r.worker = "dialing" => r.recorder /\ ~r.has
  /\ r.recorder /\ ~r.has /\ ~Settled(r) => r.said = <<>> /\ r.worker \in {"none", "idle", "opening", "dialing"}

\* The frame that is played next is due now, or was played and the next is due after it.
OnTheClock(r) == r.worker = "playing" => r.speaking /\ r.said # <<>> /\ r.due \in {now, now + 1}

\* How far the recording is ahead of the clock: at most a frame per utterance. While one
\* is played, its position and the frames played since are where the recording is.
Ahead(r) == r.fwd.handed - (r.last - r.start)
Playing(r) == LET s == r.said[Len(r.said)] IN r.fwd.handed = s.pos + r.frame /\ s.at + r.start + r.frame = r.due
Timeline(r) ==
  r.has => /\ r.start <= r.last /\ r.last <= now
           /\ \A i \in DOMAIN r.said : r.said[i].pos - r.said[i].at \in 0..(i - 1)
           /\ IF r.worker = "playing" THEN Playing(r) ELSE Ahead(r) \in 0..Len(r.said)

\* What is owed a report is owed it by a worker that is about to make it.
Reports(r) == (r.owed => r.worker = "played" /\ r.has) /\ (r.completed => Settled(r))

Sound(r) == DialsOnce(r) /\ OnTheClock(r) /\ Timeline(r) /\ Reports(r)

\* Who is referred to was made, and the session closes a player step by step.
Made(p) == p \in Players /\ player[p].worker # "none"
Referred == \A p \in {refs, handler, main.p} : p # NoPlayer => Made(p)
Closes ==
  /\ main.at \in Closing => main.p # NoPlayer
  /\ main.at \in Closing \ {"stop"} => player[main.p].stopped
  /\ main.at = "ticker" => Unwinding(player[main.p])
  /\ main.at \in {"flush", "shut", "completed", "closed"} => Settled(player[main.p])

VoiceInv == VoiceTypeOK /\ (\A p \in Players : Sound(player[p])) /\ Referred /\ Closes
--------------------------------------------------------------------------------
(* TtsPlayer: the forwarder and the recorded timeline.                             *)

LEMMA FieldsTyped ==
  ASSUME NEW f \in Forwarders, NEW q \in Seq(Nat), NEW d \in Nat
  PROVE  /\ [f EXCEPT !.queue = q, !.dropped = d] \in Forwarders
         /\ [f EXCEPT !.queue = q, !.dropped = d].handed = f.handed
         /\ [f EXCEPT !.queue = q] \in Forwarders /\ [f EXCEPT !.queue = q].handed = f.handed
         /\ [f EXCEPT !.dropped = d] \in Forwarders /\ [f EXCEPT !.dropped = d].handed = f.handed
<1> QED
  BY DEF Forwarders

LEMMA TellTyped ==
  ASSUME NEW f \in Forwarders
  PROVE  Voice!Tell(f) \in Forwarders /\ Voice!Tell(f).handed = f.handed
<1> DEFINE q == Append(f.queue, f.dropped)
<1>1. f.dropped \in Nat /\ f.queue \in Seq(Nat)
  BY DEF Forwarders
<1>2. q \in Seq(Nat) /\ 0 \in Nat
  BY <1>1
<1>3. Voice!Tell(f) \in {f, [f EXCEPT !.queue = q, !.dropped = 0]}
  BY DEF Voice!Tell
<1> HIDE DEF q
<1>4. [f EXCEPT !.queue = q, !.dropped = 0] \in Forwarders /\ [f EXCEPT !.queue = q, !.dropped = 0].handed = f.handed
  BY <1>2, FieldsTyped
<1> QED
  BY <1>3, <1>4

LEMMA OfferTyped ==
  ASSUME NEW f \in Forwarders
  PROVE  Voice!Offer(f) \in Forwarders /\ Voice!Offer(f).handed = f.handed
<1>1. f.dropped + 1 \in Nat /\ Append(f.queue, 1) \in Seq(Nat)
  BY DEF Forwarders
<1>2. \/ Voice!Offer(f) = [f EXCEPT !.queue = Append(f.queue, 1)]
      \/ Voice!Offer(f) = [f EXCEPT !.dropped = f.dropped + 1]
  BY DEF Voice!Offer
<1> DEFINE q == Append(f.queue, 1)  d == f.dropped + 1
<1>3. q \in Seq(Nat) /\ d \in Nat /\ (Voice!Offer(f) = [f EXCEPT !.queue = q] \/ Voice!Offer(f) = [f EXCEPT !.dropped = d])
  BY <1>1, <1>2
<1> HIDE DEF q, d
<1>4. /\ [f EXCEPT !.queue = q] \in Forwarders /\ [f EXCEPT !.queue = q].handed = f.handed
      /\ [f EXCEPT !.dropped = d] \in Forwarders /\ [f EXCEPT !.dropped = d].handed = f.handed
  <2>1. f.queue \in Seq(Nat) /\ f.dropped \in Nat
    BY DEF Forwarders
  <2> QED
    BY <1>3, <2>1, FieldsTyped
<1> QED
  BY <1>3, <1>4

\* SendPCM: what the forwarder was handed is counted whatever becomes of it.
LEMMA SendTyped ==
  ASSUME NEW f \in Forwarders, NEW n \in Nat
  PROVE  Voice!SendPCM(f, n) \in Forwarders /\ Voice!SendPCM(f, n).handed = f.handed + n
<1> DEFINE g == [f EXCEPT !.handed = @ + n]
           t == Voice!Offer(Voice!Tell(g))
           s == [t EXCEPT !.offered = @ + 1]
<1>1. g \in Forwarders /\ g.handed = f.handed + n
  <2>1. f.handed + n \in Nat
    BY DEF Forwarders
  <2> QED
    BY <2>1 DEF Forwarders
<1>2. t \in Forwarders /\ t.handed = g.handed
  <2> HIDE DEF g
  <2>1. Voice!Tell(g) \in Forwarders /\ Voice!Tell(g).handed = g.handed
    BY <1>1, TellTyped
  <2> QED
    BY <2>1, OfferTyped
<1>3. s \in Forwarders /\ s.handed = t.handed
  <2> HIDE DEF t
  <2>1. t.offered + 1 \in Nat
    BY <1>2 DEF Forwarders
  <2> QED
    BY <1>2, <2>1 DEF Forwarders
<1>4. Voice!SendPCM(f, n) = IF f.rejected THEN g ELSE s
  BY DEF Voice!SendPCM
<1> HIDE DEF g, t, s
<1> QED
  BY <1>1, <1>2, <1>3, <1>4

LEMMA CloseTyped ==
  ASSUME NEW f \in Forwarders
  PROVE  Voice!CloseForwarder(f) \in Forwarders /\ Voice!CloseForwarder(f).handed = f.handed
<1> DEFINE t == Voice!Tell(f)
           w == IF t.writer = "running" THEN "closing" ELSE t.writer
<1>1. t \in Forwarders /\ t.handed = f.handed
  BY TellTyped
<1>2. Voice!CloseForwarder(f) = [t EXCEPT !.dropped = 0, !.writer = w]
  BY DEF Voice!CloseForwarder
<1>3. w \in {"none", "running", "closing", "done", "broken"}
  <2> HIDE DEF t
  <2> QED
    BY <1>1 DEF Forwarders
<1> HIDE DEF t, w
<1>4. [t EXCEPT !.dropped = 0, !.writer = w] \in Forwarders /\ [t EXCEPT !.dropped = 0, !.writer = w].handed = t.handed
  BY <1>1, <1>3 DEF Forwarders
<1> QED
  BY <1>1, <1>2, <1>4

\* sendRecordSilenceGapLocked: nothing but the position and the forwarder change, and the
\* recording is as far ahead of the clock as before.
LEMMA GapTyped ==
  ASSUME NEW r \in Voices, now \in Nat, r.has => r.last <= now
  PROVE  /\ Voice!Gap(r) \in Voices
         /\ Voice!Gap(r) = [r EXCEPT !.last = Voice!Gap(r).last, !.fwd = Voice!Gap(r).fwd]
         /\ Voice!Gap(r).fwd \in Forwarders
         /\ r.has => Voice!Gap(r).last = now /\ Ahead(Voice!Gap(r)) = Ahead(r)
<1>0. r.fwd \in Forwarders /\ r.last \in Nat /\ r.start \in Nat
  BY DEF Voices
<1>1. CASE r.has /\ now > r.last
  <2> DEFINE f == Voice!SendPCM(r.fwd, now - r.last)
  <2>1. now - r.last \in Nat
    BY <1>0, <1>1
  <2>2. f \in Forwarders /\ f.handed = r.fwd.handed + (now - r.last)
    BY <1>0, <2>1, SendTyped
  <2>3. Voice!Gap(r) = [r EXCEPT !.last = now, !.fwd = f]
    BY <1>1 DEF Voice!Gap
  <2> HIDE DEF f
  <2>4. r.fwd.handed \in Nat
    BY <1>0 DEF Forwarders
  <2>5. Voice!Gap(r) \in Voices /\ Voice!Gap(r).last = now /\ Voice!Gap(r).fwd = f /\ Voice!Gap(r).start = r.start
    BY <2>2, <2>3 DEF Voices
  <2>6. Ahead(Voice!Gap(r)) = Ahead(r)
    BY <1>0, <2>2, <2>4, <2>5 DEF Ahead
  <2> QED
    BY <2>2, <2>3, <2>5, <2>6
<1>2. CASE ~(r.has /\ now > r.last)
  <2>1. Voice!Gap(r) = r
    BY <1>2 DEF Voice!Gap
  <2>2. r = [r EXCEPT !.last = r.last, !.fwd = r.fwd]
    BY DEF Voices
  <2> QED
    BY <1>0, <1>2, <2>1, <2>2
<1> QED
  BY <1>1, <1>2
--------------------------------------------------------------------------------
(* TtsPlayer: the steps of a player.  Each turns a sound player into a sound one, and *)
(* does not undo what the session has done to close it.                            *)

Evolves(r, s) == /\ s \in Voices /\ Sound(s) /\ s.worker # "none"
                 /\ r.stopped => s.stopped
                 /\ (Settled(r) => Settled(s)) /\ (Unwinding(r) => Unwinding(s))
Evolved(p) == \E s \in Voices : player' = [player EXCEPT ![p] = s] /\ Evolves(player[p], s)

LEMMA UnmadeTyped ==
  /\ Voice!Unmade \in Voices /\ Voice!Unmade.worker = "none" /\ ~Voice!Unmade.has /\ Voice!Unmade.said = <<>>
  /\ ~Voice!Unmade.owed /\ ~Voice!Unmade.completed /\ ~Voice!Unmade.stopped
<1>1. Voice!NoForwarder \in Forwarders
  BY DEF Voice!NoForwarder, Forwarders
<1>2. <<>> \in Seq(Utterances)
  OBVIOUS
<1> QED
  BY <1>1, <1>2 DEF Voice!Unmade, Voices, WorkerStages

LEMMA AtHand ==
  ASSUME VoiceInv, NEW p \in Players
  PROVE  /\ player[p] \in Voices /\ Sound(player[p]) /\ now \in Nat
         /\ DialsOnce(player[p]) /\ OnTheClock(player[p]) /\ Timeline(player[p]) /\ Reports(player[p])
<1> QED
  BY DEF VoiceInv, VoiceTypeOK, Sound

\* What leaves the timeline and its clock alone.
LEMMA SameTimeline ==
  ASSUME NEW r \in Voices, NEW s \in Voices, Sound(r), DialsOnce(s), Reports(s),
         s.has = r.has, s.said = r.said, s.start = r.start, s.last = r.last, s.fwd.handed = r.fwd.handed,
         s.worker = "playing" <=> r.worker = "playing",
         s.frame = r.frame, s.due = r.due, s.speaking = r.speaking
  PROVE  Sound(s)
<1>1. OnTheClock(s)
  BY DEF Sound, OnTheClock
<1>2. Ahead(s) = Ahead(r) /\ (Playing(r) => Playing(s))
  BY DEF Ahead, Playing
<1>3. Timeline(s)
  BY <1>2 DEF Sound, Timeline
<1> QED
  BY <1>1, <1>3 DEF Sound

\* The worker goes on to its next stage, where it neither dials nor plays, and what it
\* has left to report is unchanged.
LEMMA MoveEvolves ==
  ASSUME VoiceInv, NEW p \in Players, NEW w \in WorkerStages \ {"none", "playing", "dialing"},
         player[p].worker \notin {"none", "playing", "played"},
         (player[p].recorder /\ ~player[p].has) => w \in {"idle", "opening"} \/ (player[p].stopped /\ w = "exited"),
         player[p].stopped => \/ w \in {"idle", "exited"}
                              \/ player[p].worker \in {"opening", "ready"},
         Voice!Move(p, player[p].worker, w)
  PROVE  Evolved(p)
<1> DEFINE r == player[p]
           s == [r EXCEPT !.worker = w]
<1>1. r \in Voices /\ Sound(r) /\ DialsOnce(r) /\ Reports(r)
  BY AtHand
<1>2. player' = [player EXCEPT ![p] = s]
  BY DEF Voice!Move, Voice!Set
<1>3. s \in Voices /\ s.worker = w /\ s.stopped = r.stopped /\ s.recorder = r.recorder /\ s.has = r.has /\ s.said = r.said
      /\ s.owed = r.owed /\ s.completed = r.completed /\ s.start = r.start /\ s.last = r.last /\ s.fwd = r.fwd
      /\ s.frame = r.frame /\ s.due = r.due /\ s.speaking = r.speaking
  BY <1>1 DEF Voices
<1> HIDE DEF s
<1>4. DialsOnce(s)
  BY <1>1, <1>3 DEF DialsOnce, Settled
<1>5. Settled(r) => Settled(s)
  BY <1>1, <1>3 DEF Settled
<1>6. Unwinding(r) => Unwinding(s)
  BY <1>1, <1>3, <1>5 DEF Unwinding, Settled
<1>7. Reports(s)
  BY <1>1, <1>3, <1>5 DEF Reports
<1>8. Sound(s)
  BY <1>1, <1>3, <1>4, <1>7, SameTimeline
<1> QED
  BY <1>2, <1>3, <1>5, <1>6, <1>8 DEF Evolved, Evolves
\* The worker stays where it is: requests, the ticker, the forwarder, a stop.
LEMMA AsideEvolves ==
  ASSUME VoiceInv, NEW p \in Players, NEW s \in Voices,
         player[p].worker # "none", player' = [player EXCEPT ![p] = s],
         s.worker = player[p].worker, player[p].stopped => s.stopped,
         s.recorder = player[p].recorder, s.has = player[p].has, s.said = player[p].said,
         s.owed = player[p].owed, s.completed = player[p].completed,
         s.start = player[p].start, s.last = player[p].last, s.fwd.handed = player[p].fwd.handed,
         s.frame = player[p].frame, s.due = player[p].due, s.speaking = player[p].speaking
  PROVE  Evolved(p)
<1> DEFINE r == player[p]
<1>1. r \in Voices /\ Sound(r) /\ DialsOnce(r) /\ Reports(r)
  BY AtHand
<1>2. (Settled(r) => Settled(s)) /\ (Unwinding(r) => Unwinding(s))
  BY DEF Settled, Unwinding
<1>3. DialsOnce(s)
  BY <1>1, <1>2 DEF DialsOnce
<1>4. Reports(s)
  BY <1>1, <1>2 DEF Reports
<1>5. Sound(s)
  BY <1>1, <1>3, <1>4, SameTimeline
<1> QED
  BY <1>2, <1>5 DEF Evolved, Evolves

LEMMA TakeStep ==
  ASSUME VoiceInv, NEW p \in Players, Voice!Take(p)
  PROVE  Evolved(p)
<1> DEFINE r == player[p]
           w == IF r.stopped THEN "idle" ELSE "opening"
           s == [r EXCEPT !.requests = @ - 1, !.worker = w]
<1>1. r \in Voices /\ Sound(r) /\ DialsOnce(r) /\ Reports(r)
  BY AtHand
<1>2. player' = [player EXCEPT ![p] = s] /\ r.worker = "idle" /\ r.requests > 0
  BY DEF Voice!Take, Voice!Set
<1>3. r.requests - 1 \in Nat /\ w \in WorkerStages
  BY <1>1, <1>2 DEF Voices, WorkerStages
<1> HIDE DEF w
<1>4. s \in Voices /\ s.worker = w /\ s.stopped = r.stopped /\ s.recorder = r.recorder /\ s.has = r.has /\ s.said = r.said
      /\ s.owed = r.owed /\ s.completed = r.completed /\ s.start = r.start /\ s.last = r.last /\ s.fwd = r.fwd
      /\ s.frame = r.frame /\ s.due = r.due /\ s.speaking = r.speaking
  BY <1>1, <1>3 DEF Voices
<1> HIDE DEF s
<1>5. w = IF r.stopped THEN "idle" ELSE "opening"
  BY DEF w
<1>6. (Settled(r) => Settled(s)) /\ (Unwinding(r) => Unwinding(s))
  BY <1>2, <1>4, <1>5 DEF Settled, Unwinding
<1>7. DialsOnce(s)
  BY <1>1, <1>2, <1>4, <1>5 DEF DialsOnce, Settled
<1>8. Reports(s)
  BY <1>1, <1>2, <1>4, <1>6 DEF Reports
<1>9. Sound(s)
  BY <1>1, <1>2, <1>4, <1>5, <1>7, <1>8, SameTimeline
<1> QED
  BY <1>2, <1>4, <1>5, <1>6, <1>9 DEF Evolved, Evolves

LEMMA ExitStep ==
  ASSUME VoiceInv, NEW p \in Players, Voice!Exit(p)
  PROVE  Evolved(p)
<1>1. player[p].stopped /\ player[p].worker = "idle" /\ Voice!Move(p, player[p].worker, "exited")
  BY DEF Voice!Exit, Voice!Move
<1> QED
  BY <1>1, MoveEvolves DEF WorkerStages

\* startRecordForwarding: the first time the player is asked to speak, or past it.
LEMMA StartRecordingStep ==
  ASSUME VoiceInv, NEW p \in Players, Voice!StartRecording(p)
  PROVE  Evolved(p)
<1> DEFINE r == player[p]
           s == [r EXCEPT !.worker = "dialing"]
<1>1. r \in Voices /\ Sound(r) /\ DialsOnce(r) /\ Reports(r)
  BY AtHand
<1>2. CASE r.recorder /\ ~r.has
  <2>1. player' = [player EXCEPT ![p] = s] /\ r.worker = "opening"
    BY <1>2 DEF Voice!StartRecording, Voice!Move, Voice!Set
  <2>2. s \in Voices /\ s.worker = "dialing" /\ s.stopped = r.stopped /\ s.recorder = r.recorder /\ s.has = r.has
        /\ s.said = r.said /\ s.owed = r.owed /\ s.completed = r.completed /\ s.start = r.start /\ s.last = r.last
        /\ s.fwd = r.fwd /\ s.frame = r.frame /\ s.due = r.due /\ s.speaking = r.speaking
    BY <1>1 DEF Voices, WorkerStages
  <2> HIDE DEF s
  <2>3. ~Settled(r) /\ ~Unwinding(r)
    BY <2>1 DEF Settled, Unwinding
  <2>4. DialsOnce(s)
    BY <1>1, <1>2, <2>1, <2>2, <2>3 DEF DialsOnce
  <2>5. Reports(s)
    BY <1>1, <2>1, <2>2, <2>3 DEF Reports
  <2>6. Sound(s)
    BY <1>1, <2>1, <2>2, <2>4, <2>5, SameTimeline
  <2> QED
    BY <2>1, <2>2, <2>3, <2>6 DEF Evolved, Evolves
<1>3. CASE ~(r.recorder /\ ~r.has)
  <2>1. r.worker = "opening" /\ Voice!Move(p, r.worker, "synthesizing")
    BY <1>3 DEF Voice!StartRecording, Voice!Move
  <2> QED
    BY <1>3, <2>1, MoveEvolves DEF WorkerStages
<1> QED
  BY <1>2, <1>3

LEMMA SynthesizedStep ==
  ASSUME VoiceInv, NEW p \in Players, Voice!Synthesized(p)
  PROVE  Evolved(p)
<1> DEFINE r == player[p]
<1>1. r.worker = "synthesizing" /\ DialsOnce(r)
  BY AtHand DEF Voice!Synthesized, Voice!Move
<1>2. CASE Voice!Move(p, "synthesizing", "idle")
  BY <1>1, <1>2, MoveEvolves DEF WorkerStages
<1>3. CASE ~r.stopped /\ Voice!Move(p, "synthesizing", "ready")
  <2>1. ~(r.recorder /\ ~r.has)
    BY <1>1, <1>3 DEF DialsOnce, Settled
  <2> QED
    BY <1>1, <1>3, <2>1, MoveEvolves DEF WorkerStages
<1> QED
  BY <1>2, <1>3 DEF Voice!Synthesized

LEMMA ReportEndsStep ==
  ASSUME VoiceInv, NEW p \in Players, Voice!ReportEnds(p)
  PROVE  Evolved(p)
<1>1. player[p].worker = "reporting" /\ Voice!Move(p, player[p].worker, "idle")
  BY DEF Voice!ReportEnds, Voice!Move
<1> QED
  BY <1>1, MoveEvolves DEF WorkerStages

\* startRecordForwarding: the recording begins at the clock, with nothing said before.
LEMMA DialedStep ==
  ASSUME VoiceInv, NEW p \in Players, Voice!Dialed(p)
  PROVE  Evolved(p)
<1> DEFINE r == player[p]
           s == [r EXCEPT !.worker = "synthesizing", !.has = TRUE, !.fwd = Voice!NewForwarder,
                          !.start = now, !.last = now, !.ticker = "running"]
           t == [r EXCEPT !.worker = "synthesizing", !.recorder = FALSE]
<1>1. r \in Voices /\ Sound(r) /\ DialsOnce(r) /\ Reports(r) /\ now \in Nat
  BY AtHand
<1>2. r.worker = "dialing" /\ (player' = [player EXCEPT ![p] = s] \/ player' = [player EXCEPT ![p] = t])
  BY DEF Voice!Dialed, Voice!Set
<1>3. r.recorder /\ ~r.has /\ r.said = <<>> /\ ~r.owed /\ ~r.completed
  BY <1>1, <1>2 DEF DialsOnce, Settled, Reports
<1>4. Unwinding(r) => r.stopped
  BY DEF Unwinding, Settled
<1>5. ~Settled(r)
  BY <1>2 DEF Settled
<1>6. ASSUME player' = [player EXCEPT ![p] = s] PROVE Evolved(p)
  <2>1. Voice!NewForwarder \in Forwarders /\ Voice!NewForwarder.handed = 0
    <3> DEFINE q == <<Voice!StartItem>>
    <3>1. Voice!NoForwarder \in Forwarders /\ Voice!NoForwarder.handed = 0
      BY DEF Voice!NoForwarder, Forwarders
    <3>2. q \in Seq(Nat)
      BY DEF Voice!StartItem
    <3>3. Voice!NewForwarder = [Voice!NoForwarder EXCEPT !.queue = q, !.writer = "running"]
      BY DEF Voice!NewForwarder
    <3> HIDE DEF q
    <3> QED
      BY <3>1, <3>2, <3>3 DEF Forwarders
  <2>2. s \in Voices /\ s.worker = "synthesizing" /\ s.has = TRUE /\ s.said = <<>> /\ s.stopped = r.stopped
        /\ s.start = now /\ s.last = now /\ s.fwd.handed = 0 /\ s.owed = r.owed /\ s.completed = r.completed
    BY <1>1, <1>3, <2>1 DEF Voices, WorkerStages
  <2> HIDE DEF s
  <2>3. Timeline(s)
    BY <1>1, <2>2 DEF Timeline, Ahead
  <2>4. DialsOnce(s) /\ OnTheClock(s) /\ Reports(s)
    BY <1>3, <2>2 DEF DialsOnce, OnTheClock, Reports
  <2>5. Unwinding(r) => Unwinding(s)
    BY <1>4, <2>2 DEF Unwinding, Settled
  <2> QED
    BY <1>5, <1>6, <2>2, <2>3, <2>4, <2>5 DEF Evolved, Evolves, Sound
<1>7. ASSUME player' = [player EXCEPT ![p] = t] PROVE Evolved(p)
  <2>1. t \in Voices /\ t.worker = "synthesizing" /\ ~t.recorder /\ ~t.has /\ t.stopped = r.stopped
        /\ t.owed = r.owed /\ t.completed = r.completed
    BY <1>1, <1>3 DEF Voices, WorkerStages
  <2> HIDE DEF t
  <2>2. DialsOnce(t) /\ OnTheClock(t) /\ Reports(t) /\ Timeline(t)
    BY <1>3, <2>1 DEF DialsOnce, OnTheClock, Reports, Timeline
  <2>3. Unwinding(r) => Unwinding(t)
    BY <1>4, <2>1 DEF Unwinding, Settled
  <2> QED
    BY <1>5, <1>7, <2>1, <2>2, <2>3 DEF Evolved, Evolves, Sound
<1> QED
  BY <1>2, <1>6, <1>7
LEMMA Appended ==
  ASSUME NEW S, NEW q \in Seq(S), NEW u \in S
  PROVE  /\ Append(q, u) \in Seq(S) /\ Append(q, u) # <<>> /\ Len(Append(q, u)) = Len(q) + 1 /\ Len(q) \in Nat
         /\ Append(q, u)[Len(Append(q, u))] = u /\ DOMAIN Append(q, u) = 1..(Len(q) + 1) /\ DOMAIN q = 1..Len(q)
         /\ \A i \in 1..Len(q) : Append(q, u)[i] = q[i]
<1> QED
  OBVIOUS

\* beginRecordedUtterance: what was silent so far is in the recording, so the utterance
\* begins where the clock is, or as many frames later as there were utterances.
LEMMA BeginStep ==
  ASSUME VoiceInv, NEW p \in Players, Voice!Begin(p)
  PROVE  Evolved(p)
<1> DEFINE r == player[p]
           g == Voice!Gap(r)
           u == [at |-> now - r.start, pos |-> g.fwd.handed]
           s == [g EXCEPT !.speaking = TRUE, !.worker = "playing", !.frame = 0, !.due = now, !.said = Append(g.said, u)]
<1>1. r \in Voices /\ Sound(r) /\ DialsOnce(r) /\ Timeline(r) /\ Reports(r) /\ now \in Nat
  BY AtHand
<1>2. player' = [player EXCEPT ![p] = s] /\ r.worker = "ready"
  BY DEF Voice!Begin, Voice!Set, Voice!BeginUtterance
<1>3. ~(r.recorder /\ ~r.has) /\ ~r.owed /\ ~r.completed /\ ~Settled(r) /\ ~Unwinding(r)
  BY <1>1, <1>2 DEF DialsOnce, Settled, Unwinding, Reports
<1>4. r.has => r.start <= r.last /\ r.last <= now
  BY <1>1 DEF Timeline
<1>5. g \in Voices /\ g = [r EXCEPT !.last = g.last, !.fwd = g.fwd] /\ g.fwd \in Forwarders
      /\ (r.has => g.last = now /\ Ahead(g) = Ahead(r))
  BY <1>1, <1>4, GapTyped
<1> HIDE DEF g
<1>6. g.has = r.has /\ g.recorder = r.recorder /\ g.said = r.said /\ g.start = r.start /\ g.owed = r.owed
      /\ g.completed = r.completed /\ g.stopped = r.stopped
  BY <1>1, <1>5 DEF Voices
<1>7. r.said \in Seq(Utterances) /\ r.start \in Nat /\ r.last \in Nat /\ g.last \in Nat /\ g.fwd.handed \in Nat /\ r.fwd.handed \in Nat
  BY <1>1, <1>5 DEF Voices, Forwarders
<1>8. u.at = now - r.start /\ u.pos = g.fwd.handed /\ u \in Utterances
  BY <1>1, <1>7 DEF Utterances
<1> HIDE DEF u
<1> DEFINE said == Append(r.said, u)
<1>9. said \in Seq(Utterances) /\ Len(said) = Len(r.said) + 1 /\ said[Len(said)] = u /\ said # <<>>
      /\ Len(r.said) \in Nat /\ DOMAIN said = 1..(Len(r.said) + 1) /\ DOMAIN r.said = 1..Len(r.said)
      /\ \A i \in 1..Len(r.said) : said[i] = r.said[i]
  BY <1>7, <1>8, Appended
<1>10. s = [g EXCEPT !.speaking = TRUE, !.worker = "playing", !.frame = 0, !.due = now, !.said = said]
  BY <1>6
<1> HIDE DEF said, s
<1>11. s \in Voices /\ s.worker = "playing" /\ s.speaking /\ s.frame = 0 /\ s.due = now /\ s.said = said /\ s.has = r.has
       /\ s.recorder = r.recorder /\ s.start = r.start /\ s.last = g.last /\ s.fwd = g.fwd
       /\ s.owed = r.owed /\ s.completed = r.completed /\ s.stopped = r.stopped
  BY <1>1, <1>5, <1>6, <1>9, <1>10 DEF Voices, WorkerStages
<1>12. ASSUME r.has PROVE Timeline(s)
  <2>1. Ahead(r) \in 0..Len(r.said) /\ \A i \in DOMAIN r.said : r.said[i].pos - r.said[i].at \in 0..(i - 1)
    BY <1>1, <1>2, <1>12 DEF Timeline
  <2>2. u.pos - u.at = Ahead(r)
    BY <1>1, <1>5, <1>6, <1>7, <1>8, <1>12 DEF Ahead
  <2>3. \A i \in DOMAIN said : said[i].pos - said[i].at \in 0..(i - 1)
    <3> SUFFICES ASSUME NEW i \in DOMAIN said PROVE said[i].pos - said[i].at \in 0..(i - 1)
      OBVIOUS
    <3>1. CASE i \in 1..Len(r.said)
      BY <1>9, <2>1, <3>1
    <3>2. CASE i = Len(r.said) + 1
      BY <1>9, <2>1, <2>2, <3>2
    <3> QED
      BY <1>9, <3>1, <3>2
  <2>4. Playing(s)
    <3>1. s.said[Len(s.said)] = u
      BY <1>9, <1>11
    <3>2. s.fwd.handed = u.pos + s.frame
      BY <1>1, <1>7, <1>8, <1>11
    <3>3. u.at + s.start + s.frame = s.due
      BY <1>1, <1>7, <1>8, <1>11
    <3> QED
      BY <3>1, <3>2, <3>3 DEF Playing
  <2> QED
    <3>1. s.start <= s.last /\ s.last <= now
      BY <1>1, <1>4, <1>5, <1>7, <1>11, <1>12
    <3> QED
      BY <1>11, <2>3, <2>4, <3>1 DEF Timeline
<1>13. Timeline(s)
  BY <1>11, <1>12 DEF Timeline
<1>14. DialsOnce(s) /\ Reports(s) /\ OnTheClock(s)
  BY <1>3, <1>9, <1>11 DEF DialsOnce, Reports, OnTheClock
<1> QED
  BY <1>2, <1>3, <1>11, <1>13, <1>14 DEF Evolved, Evolves, Sound

\* speakNow: a frame that is due moves the position and the clock of the playback by one.
LEMMA PlayFrameStep ==
  ASSUME VoiceInv, NEW p \in Players, Voice!PlayFrame(p)
  PROVE  Evolved(p)
<1> DEFINE r == player[p]
           f == IF r.has THEN Voice!SendPCM(r.fwd, 1) ELSE r.fwd
           s == [r EXCEPT !.frame = @ + 1, !.due = now + 1, !.fwd = f]
<1>1. r \in Voices /\ Sound(r) /\ DialsOnce(r) /\ OnTheClock(r) /\ Timeline(r) /\ Reports(r) /\ now \in Nat
  BY AtHand
<1>2. player' = [player EXCEPT ![p] = s] /\ r.worker = "playing" /\ now >= r.due
  BY DEF Voice!PlayFrame, Voice!Set, Voice!More
<1>3. r.due = now /\ r.speaking /\ r.said # <<>>
  BY <1>1, <1>2 DEF OnTheClock, Voices
<1>4. r.fwd \in Forwarders /\ r.fwd.handed \in Nat /\ r.frame + 1 \in Nat /\ now + 1 \in Nat /\ r.frame \in Nat /\ r.start \in Nat
  BY <1>1 DEF Voices, Forwarders
<1>5. f \in Forwarders /\ (r.has => f.handed = r.fwd.handed + 1)
  BY <1>4, SendTyped
<1> HIDE DEF f
<1>6. s \in Voices /\ s.worker = "playing" /\ s.frame = r.frame + 1 /\ s.due = now + 1 /\ s.fwd = f /\ s.speaking = r.speaking
      /\ s.said = r.said /\ s.has = r.has /\ s.recorder = r.recorder /\ s.start = r.start /\ s.last = r.last
      /\ s.owed = r.owed /\ s.completed = r.completed /\ s.stopped = r.stopped
  BY <1>1, <1>2, <1>4, <1>5 DEF Voices
<1> HIDE DEF s
<1>7. ~Settled(r) /\ ~Unwinding(r)
  BY <1>2 DEF Settled, Unwinding
<1>8. DialsOnce(s) /\ Reports(s) /\ OnTheClock(s)
  BY <1>1, <1>2, <1>3, <1>6, <1>7 DEF DialsOnce, Reports, OnTheClock
<1>9. ASSUME r.has PROVE Playing(s)
  <2> DEFINE u == r.said[Len(r.said)]
  <2>1. r.fwd.handed = u.pos + r.frame /\ u.at + r.start + r.frame = r.due
    BY <1>1, <1>2, <1>9 DEF Timeline, Playing
  <2>2. u.at \in Int /\ u.pos \in Nat
    <3>1. r.said \in Seq(Utterances)
      BY <1>1 DEF Voices
    <3>2. u \in Utterances
      BY <1>3, <3>1
    <3> QED
      BY <3>2 DEF Utterances
  <2> HIDE DEF u
  <2>3. f.handed = u.pos + (r.frame + 1) /\ u.at + r.start + (r.frame + 1) = now + 1
    <3>1. f.handed = r.fwd.handed + 1 /\ u.at + r.start + r.frame = now
      BY <1>3, <1>5, <1>9, <2>1
    <3> QED
      BY <1>4, <2>1, <2>2, <3>1
  <2> QED
    BY <1>6, <2>3 DEF Playing, u
<1>10. Timeline(s)
  BY <1>1, <1>2, <1>6, <1>9 DEF Timeline
<1> QED
  BY <1>2, <1>6, <1>7, <1>8, <1>10 DEF Evolved, Evolves, Sound
\* endRecordedUtterance: what was played and what passed on the clock differ by at most
\* the frame that is still due, whether the utterance ended, was stopped or failed.
LEMMA PlayedStep ==
  ASSUME VoiceInv, NEW p \in Players, Voice!Played(p)
  PROVE  Evolved(p)
<1> DEFINE r == player[p]
           e == Voice!EndUtterance(r)
           u == r.said[Len(r.said)]
<1>1. r \in Voices /\ Sound(r) /\ DialsOnce(r) /\ OnTheClock(r) /\ Timeline(r) /\ Reports(r) /\ now \in Nat
  BY AtHand
<1>2. r.worker = "playing"
  BY DEF Voice!Played
<1>3. PICK w \in {"played", "idle"} : \E o \in BOOLEAN :
        /\ player' = [player EXCEPT ![p] = [e EXCEPT !.worker = w, !.owed = o]]
        /\ (o => w = "played" /\ r.has)
  <2>1. r.owed = FALSE /\ r.has \in BOOLEAN
    BY <1>1, <1>2 DEF Reports, Voices
  <2>2. e \in Voices /\ e.owed = r.owed
    <3>1. now \in Nat /\ r.last \in Nat
      BY <1>1 DEF Voices
    <3> QED
      BY <1>1, <3>1 DEF Voice!EndUtterance, Voices
  <2> HIDE DEF e
  <2>3. [e EXCEPT !.worker = "idle"] = [e EXCEPT !.worker = "idle", !.owed = FALSE]
    BY <2>1, <2>2 DEF Voices
  <2> QED
    BY <2>1, <2>3 DEF Voice!Played, Voice!Set, e
<1>4. PICK o \in BOOLEAN : player' = [player EXCEPT ![p] = [e EXCEPT !.worker = w, !.owed = o]] /\ (o => w = "played" /\ r.has)
  BY <1>3
<1> DEFINE s == [e EXCEPT !.worker = w, !.owed = o]
<1>5. r.speaking /\ r.said # <<>> /\ r.due \in {now, now + 1} /\ ~r.completed /\ ~Settled(r) /\ ~Unwinding(r) /\ ~(r.recorder /\ ~r.has)
  BY <1>1, <1>2 DEF OnTheClock, Reports, Settled, Unwinding, DialsOnce
<1>6. r.last \in Nat /\ r.start \in Nat /\ r.frame \in Nat /\ r.fwd.handed \in Nat /\ r.said \in Seq(Utterances)
  BY <1>1 DEF Voices, Forwarders
<1>7. u \in Utterances /\ Len(r.said) \in Nat \ {0} /\ DOMAIN r.said = 1..Len(r.said)
  BY <1>5, <1>6
<1>8. u.at \in Int /\ u.pos \in Nat
  BY <1>7 DEF Utterances
<1>9. s \in Voices /\ s.worker = w /\ s.owed = o /\ s.has = r.has /\ s.recorder = r.recorder /\ s.start = r.start /\ s.fwd = r.fwd
      /\ s.said = r.said /\ s.completed = r.completed /\ s.stopped = r.stopped /\ (r.has => s.last = now)
  <2> DEFINE l == IF r.has THEN now ELSE r.last
  <2>1. l \in Nat /\ w \in WorkerStages
    BY <1>1, <1>6 DEF WorkerStages
  <2>2. s = [r EXCEPT !.speaking = FALSE, !.frame = 0, !.due = 0, !.last = l, !.worker = w, !.owed = o]
    BY DEF Voice!EndUtterance
  <2>3. r.has => l = now
    OBVIOUS
  <2> HIDE DEF l, s
  <2> QED
    BY <1>1, <2>1, <2>2, <2>3 DEF Voices
<1> HIDE DEF s, e
<1>10. ASSUME r.has PROVE Timeline(s)
  <2>1. /\ r.start <= r.last /\ r.last <= now /\ r.fwd.handed = u.pos + r.frame /\ u.at + r.start + r.frame = r.due
        /\ \A i \in DOMAIN r.said : r.said[i].pos - r.said[i].at \in 0..(i - 1)
    BY <1>1, <1>2, <1>10 DEF Timeline, Playing
  <2>2. u.pos - u.at \in 0..(Len(r.said) - 1)
    BY <1>7, <2>1
  <2> HIDE DEF u
  <2>3. r.fwd.handed - (now - r.start) \in 0..Len(r.said)
    <3>1. r.fwd.handed - (now - r.start) = (u.pos - u.at) + (r.due - now)
      <4> DEFINE h == r.fwd.handed  a == u.at  b == u.pos  f == r.frame  t == r.start  d == r.due
      <4>1. h \in Int /\ a \in Int /\ b \in Int /\ f \in Int /\ t \in Int /\ d \in Int /\ now \in Int
        BY <1>1, <1>5, <1>6, <1>8
      <4>2. h = b + f /\ a + t + f = d
        BY <2>1
      <4> HIDE DEF h, a, b, f, t, d
      <4>3. h - (now - t) = (b - a) + (d - now)
        BY <4>1, <4>2
      <4> QED
        BY <4>3 DEF h, a, b, t, d
    <3>2. r.due - now \in {0, 1}
      BY <1>1, <1>5
    <3> QED
      BY <1>7, <1>8, <2>2, <3>1, <3>2
  <2>4. Ahead(s) \in 0..Len(s.said)
    BY <1>9, <1>10, <2>3 DEF Ahead
  <2>5. s.start <= s.last /\ s.last <= now /\ s.worker # "playing"
    BY <1>1, <1>6, <1>9, <1>10, <2>1
  <2> QED
    BY <1>9, <2>1, <2>4, <2>5 DEF Timeline
<1>11. Timeline(s)
  BY <1>9, <1>10 DEF Timeline
<1>12. DialsOnce(s) /\ OnTheClock(s) /\ Reports(s)
  BY <1>4, <1>5, <1>9 DEF DialsOnce, OnTheClock, Reports
<1> QED
  BY <1>4, <1>5, <1>9, <1>11, <1>12 DEF Evolved, Evolves, Sound, s

\* reportTTSTranscript: what was owed is being reported.
LEMMA ReportStep ==
  ASSUME VoiceInv, NEW p \in Players, Voice!Report(p)
  PROVE  Evolved(p)
<1> DEFINE r == player[p]
<1>1. r \in Voices /\ Sound(r) /\ DialsOnce(r) /\ Reports(r)
  BY AtHand
<1>2. PICK w \in {"reporting", "idle"} : player' = [player EXCEPT ![p] = [r EXCEPT !.worker = w, !.owed = FALSE]]
  <2>1. CASE r.has
    BY <2>1 DEF Voice!Report, Voice!Set
  <2>2. CASE ~r.has
    <3>1. r.owed = FALSE
      BY <1>1, <2>2 DEF Reports, Voices
    <3>2. [r EXCEPT !.worker = "idle"] = [r EXCEPT !.worker = "idle", !.owed = FALSE]
      BY <1>1, <3>1 DEF Voices
    <3> QED
      BY <2>2, <3>2 DEF Voice!Report, Voice!Set
  <2> QED
    BY <2>1, <2>2
<1> DEFINE s == [r EXCEPT !.worker = w, !.owed = FALSE]
<1>3. r.worker = "played"
  BY DEF Voice!Report
<1>4. ~Settled(r) /\ ~Unwinding(r) /\ ~r.completed /\ ~(r.recorder /\ ~r.has)
  BY <1>1, <1>3 DEF Settled, Unwinding, Reports, DialsOnce
<1>5. s \in Voices /\ s.worker = w /\ ~s.owed /\ s.has = r.has /\ s.recorder = r.recorder /\ s.start = r.start /\ s.last = r.last
      /\ s.fwd = r.fwd /\ s.said = r.said /\ s.completed = r.completed /\ s.stopped = r.stopped
      /\ s.frame = r.frame /\ s.due = r.due /\ s.speaking = r.speaking
  BY <1>1 DEF Voices, WorkerStages
<1> HIDE DEF s
<1>6. DialsOnce(s) /\ Reports(s)
  BY <1>4, <1>5 DEF DialsOnce, Reports
<1>7. Sound(s)
  BY <1>1, <1>3, <1>5, <1>6, SameTimeline
<1> QED
  BY <1>2, <1>4, <1>5, <1>7 DEF Evolved, Evolves, s

LEMMA WorkerStep ==
  ASSUME VoiceInv, NEW p \in Players, Voice!Worker(p)
  PROVE  Evolved(p)
<1> QED
  BY TakeStep, ExitStep, StartRecordingStep, DialedStep, SynthesizedStep, BeginStep, PlayFrameStep, PlayedStep, ReportStep,
     ReportEndsStep DEF Voice!Worker
--------------------------------------------------------------------------------
(* TtsPlayer: the forwarder's and the ticker's goroutines, and the session's steps.  *)

LEMMA HeadAndTail ==
  ASSUME NEW S, NEW q \in Seq(S), q # <<>>
  PROVE  Head(q) \in S /\ Tail(q) \in Seq(S)
<1> QED
  OBVIOUS

LEMMA WriteItemStep ==
  ASSUME VoiceInv, NEW p \in Players, Voice!Write(p)
  PROVE  Evolved(p)
<1> DEFINE r == player[p]
           f == r.fwd
<1>1. r \in Voices /\ DialsOnce(r)
  BY AtHand
<1>2. r.worker # "none"
  BY <1>1 DEF DialsOnce, Voice!Unmade, Voice!NoForwarder, Voice!Write
<1>3. f \in Forwarders /\ f.queue \in Seq(Nat) /\ f.told \in Nat
  BY <1>1 DEF Voices, Forwarders
<1>4. ASSUME NEW g \in Forwarders, g.handed = f.handed, player' = [player EXCEPT ![p] = [r EXCEPT !.fwd = g]]
      PROVE  Evolved(p)
  <2> DEFINE s == [r EXCEPT !.fwd = g]
  <2>1. s \in Voices /\ s.worker = r.worker /\ s.stopped = r.stopped /\ s.recorder = r.recorder /\ s.has = r.has
        /\ s.said = r.said /\ s.owed = r.owed /\ s.completed = r.completed /\ s.start = r.start /\ s.last = r.last
        /\ s.fwd = g /\ s.frame = r.frame /\ s.due = r.due /\ s.speaking = r.speaking
    BY <1>1 DEF Voices
  <2> HIDE DEF s
  <2> QED
    BY <1>2, <1>4, <2>1, AsideEvolves DEF s
<1>5. CASE f.queue # <<>> /\ Voice!Set(p, [r EXCEPT !.fwd.queue = Tail(@), !.fwd.told = @ + Head(f.queue)])
  <2> DEFINE q == Tail(f.queue)  n == f.told + Head(f.queue)  g == [f EXCEPT !.queue = q, !.told = n]
  <2>1. q \in Seq(Nat) /\ n \in Nat
    <3>1. q \in Seq(Nat) /\ Head(f.queue) \in Nat
      BY <1>3, <1>5, HeadAndTail
    <3>2. \A x, y \in Nat : x + y \in Nat
      OBVIOUS
    <3> QED
      BY <1>3, <3>1, <3>2, Zenon
  <2>2. [r EXCEPT !.fwd.queue = Tail(@), !.fwd.told = @ + Head(f.queue)] = [r EXCEPT !.fwd = g]
    BY <1>1 DEF Voices, Forwarders
  <2>3. player' = [player EXCEPT ![p] = [r EXCEPT !.fwd = g]]
    BY <1>5, <2>2 DEF Voice!Set
  <2> HIDE DEF q, n
  <2>4. g \in Forwarders /\ g.handed = f.handed
    BY <1>3, <2>1 DEF Forwarders
  <2> HIDE DEF g
  <2> QED
    BY <1>4, <2>3, <2>4
<1>6. ASSUME NEW w \in {"done", "broken"}, Voice!Set(p, [r EXCEPT !.fwd.writer = w]) PROVE Evolved(p)
  <2> DEFINE g == [f EXCEPT !.writer = w]
  <2>1. [r EXCEPT !.fwd.writer = w] = [r EXCEPT !.fwd = g]
    BY <1>1 DEF Voices, Forwarders
  <2>2. player' = [player EXCEPT ![p] = [r EXCEPT !.fwd = g]]
    BY <1>6, <2>1 DEF Voice!Set
  <2>3. g \in Forwarders /\ g.handed = f.handed
    BY <1>3 DEF Forwarders
  <2> HIDE DEF g
  <2> QED
    BY <1>4, <2>2, <2>3
<1> QED
  BY <1>5, <1>6 DEF Voice!Write

LEMMA RejectedStep ==
  ASSUME VoiceInv, NEW p \in Players, Voice!Rejected(p)
  PROVE  Evolved(p)
<1> DEFINE r == player[p]
           g == [r.fwd EXCEPT !.rejected = TRUE]
           s == [r EXCEPT !.fwd = g]
<1>1. r \in Voices /\ DialsOnce(r)
  BY AtHand
<1>2. r.worker # "none"
  BY <1>1 DEF DialsOnce, Voice!Unmade, Voice!NoForwarder, Voice!Rejected
<1>3. [r EXCEPT !.fwd.rejected = TRUE] = s
  BY <1>1 DEF Voices, Forwarders
<1>4. player' = [player EXCEPT ![p] = s]
  BY <1>3 DEF Voice!Rejected, Voice!Set
<1>5. g \in Forwarders /\ g.handed = r.fwd.handed
  <2>1. r.fwd \in Forwarders
    BY <1>1 DEF Voices
  <2> QED
    BY <2>1 DEF Forwarders
<1> HIDE DEF g
<1>6. s \in Voices /\ s.worker = r.worker /\ s.stopped = r.stopped /\ s.recorder = r.recorder /\ s.has = r.has
      /\ s.said = r.said /\ s.owed = r.owed /\ s.completed = r.completed /\ s.start = r.start /\ s.last = r.last
      /\ s.fwd = g /\ s.frame = r.frame /\ s.due = r.due /\ s.speaking = r.speaking
  BY <1>1, <1>5 DEF Voices
<1> HIDE DEF s
<1> QED
  BY <1>2, <1>4, <1>5, <1>6, AsideEvolves

\* runRecordSilenceTicker: silence fills the recording up to the clock, once.
LEMMA SilenceTickStep ==
  ASSUME VoiceInv, NEW p \in Players, Voice!SilenceTick(p)
  PROVE  Evolved(p)
<1> DEFINE r == player[p]
           g == Voice!Gap(r)
<1>1. r \in Voices /\ Sound(r) /\ DialsOnce(r) /\ OnTheClock(r) /\ Timeline(r) /\ Reports(r) /\ now \in Nat
  BY AtHand
<1>2. player' = [player EXCEPT ![p] = g] /\ ~r.speaking /\ r.ticker = "running"
  BY DEF Voice!SilenceTick, Voice!Set
<1>3. r.worker # "none" /\ r.worker # "playing"
  BY <1>1, <1>2 DEF DialsOnce, OnTheClock, Voice!Unmade
<1>4. r.has => r.start <= r.last /\ r.last <= now
  BY <1>1 DEF Timeline
<1>5. g \in Voices /\ g = [r EXCEPT !.last = g.last, !.fwd = g.fwd]
      /\ (r.has => g.last = now /\ Ahead(g) = Ahead(r))
  BY <1>1, <1>4, GapTyped
<1> HIDE DEF g
<1>6. g.has = r.has /\ g.recorder = r.recorder /\ g.said = r.said /\ g.start = r.start /\ g.owed = r.owed
      /\ g.completed = r.completed /\ g.stopped = r.stopped /\ g.worker = r.worker /\ r.start \in Nat /\ r.last \in Nat
  BY <1>1, <1>5 DEF Voices
<1>7. Timeline(g)
  <2>1. r.has => g.start <= g.last /\ g.last <= now
    BY <1>1, <1>4, <1>5, <1>6
  <2> QED
    BY <1>1, <1>3, <1>5, <1>6, <2>1 DEF Timeline
<1>8. (Settled(r) <=> Settled(g)) /\ (Unwinding(r) <=> Unwinding(g))
  BY <1>6 DEF Settled, Unwinding
<1>9. DialsOnce(g) /\ OnTheClock(g) /\ Reports(g)
  BY <1>1, <1>3, <1>6, <1>8 DEF DialsOnce, OnTheClock, Reports
<1> QED
  BY <1>2, <1>3, <1>5, <1>6, <1>7, <1>8, <1>9 DEF Evolved, Evolves, Sound

LEMMA TickerStopsStep ==
  ASSUME VoiceInv, NEW p \in Players, Voice!TickerStops(p)
  PROVE  Evolved(p)
<1> DEFINE r == player[p]
           s == [r EXCEPT !.ticker = "done"]
<1>1. r \in Voices /\ DialsOnce(r)
  BY AtHand
<1>2. player' = [player EXCEPT ![p] = s] /\ r.worker # "none"
  BY <1>1 DEF DialsOnce, Voice!Unmade, Voice!TickerStops, Voice!Set
<1>3. s \in Voices /\ s.worker = r.worker /\ s.stopped = r.stopped /\ s.recorder = r.recorder /\ s.has = r.has
      /\ s.said = r.said /\ s.owed = r.owed /\ s.completed = r.completed /\ s.start = r.start /\ s.last = r.last
      /\ s.fwd = r.fwd /\ s.frame = r.frame /\ s.due = r.due /\ s.speaking = r.speaking
  BY <1>1 DEF Voices
<1> HIDE DEF s
<1> QED
  BY <1>2, <1>3, AsideEvolves

LEMMA StopEvolves ==
  ASSUME VoiceInv, NEW p \in Players, Made(p), Voice!Set(p, [player[p] EXCEPT !.stopped = TRUE])
  PROVE  Evolved(p) /\ player'[p].stopped
<1> DEFINE r == player[p]
           s == [r EXCEPT !.stopped = TRUE]
<1>1. r \in Voices /\ player \in [Players -> Voices] /\ r.worker # "none"
  BY AtHand DEF VoiceInv, VoiceTypeOK, Made
<1>2. player' = [player EXCEPT ![p] = s]
  BY DEF Voice!Set
<1>3. s \in Voices /\ s.worker = r.worker /\ s.stopped = TRUE /\ s.recorder = r.recorder /\ s.has = r.has
      /\ s.said = r.said /\ s.owed = r.owed /\ s.completed = r.completed /\ s.start = r.start /\ s.last = r.last
      /\ s.fwd = r.fwd /\ s.frame = r.frame /\ s.due = r.due /\ s.speaking = r.speaking
  BY <1>1 DEF Voices
<1> HIDE DEF s
<1> QED
  BY <1>1, <1>2, <1>3, AsideEvolves

LEMMA ShutEvolves ==
  ASSUME VoiceInv, NEW p \in Players, Made(p),
         Voice!Set(p, [player[p] EXCEPT !.fwd = Voice!CloseForwarder(player[p].fwd)])
  PROVE  Evolved(p)
<1> DEFINE r == player[p]
           f == Voice!CloseForwarder(r.fwd)
           s == [r EXCEPT !.fwd = f]
<1>1. r \in Voices /\ r.fwd \in Forwarders /\ r.worker # "none"
  BY AtHand DEF Voices, Made
<1>2. player' = [player EXCEPT ![p] = s]
  BY DEF Voice!Set
<1>3. f \in Forwarders /\ f.handed = r.fwd.handed
  BY <1>1, CloseTyped
<1> HIDE DEF f
<1>4. s \in Voices /\ s.worker = r.worker /\ s.stopped = r.stopped /\ s.recorder = r.recorder /\ s.has = r.has
      /\ s.said = r.said /\ s.owed = r.owed /\ s.completed = r.completed /\ s.start = r.start /\ s.last = r.last
      /\ s.fwd = f /\ s.frame = r.frame /\ s.due = r.due /\ s.speaking = r.speaking
  BY <1>1, <1>3 DEF Voices
<1> HIDE DEF s
<1> QED
  BY <1>1, <1>2, <1>3, <1>4, AsideEvolves

\* ReportTTSCompleted comes when the worker can owe no report any more.
LEMMA CompleteEvolves ==
  ASSUME VoiceInv, NEW p \in Players, Settled(player[p]), Voice!Set(p, [player[p] EXCEPT !.completed = TRUE])
  PROVE  Evolved(p)
<1> DEFINE r == player[p]
           s == [r EXCEPT !.completed = TRUE]
<1>1. r \in Voices /\ Sound(r) /\ DialsOnce(r) /\ Reports(r)
  BY AtHand
<1>2. player' = [player EXCEPT ![p] = s]
  BY DEF Voice!Set
<1>3. s \in Voices /\ s.completed /\ s.worker = r.worker /\ s.stopped = r.stopped /\ s.recorder = r.recorder /\ s.has = r.has
      /\ s.said = r.said /\ s.owed = r.owed /\ s.start = r.start /\ s.last = r.last
      /\ s.fwd = r.fwd /\ s.frame = r.frame /\ s.due = r.due /\ s.speaking = r.speaking
  BY <1>1 DEF Voices
<1> HIDE DEF s
<1>4. r.worker # "none" /\ Settled(s) /\ Unwinding(s)
  BY <1>3 DEF Settled, Unwinding
<1>5. DialsOnce(s) /\ Reports(s)
  BY <1>1, <1>3, <1>4 DEF DialsOnce, Reports, Settled
<1>6. Sound(s)
  BY <1>1, <1>3, <1>5, SameTimeline
<1> QED
  BY <1>2, <1>3, <1>4, <1>6 DEF Evolved, Evolves

\* A settled player without a forwarder is sound whatever else it keeps.
LEMMA SettledIsSound ==
  ASSUME NEW s \in Voices, Settled(s), ~s.has, ~s.owed
  PROVE  Sound(s) /\ Unwinding(s) /\ s.worker # "none" /\ s.stopped
<1> QED
  BY DEF Settled, Unwinding, Sound, DialsOnce, OnTheClock, Timeline, Reports

\* Player.Close gives the last silence to the forwarder and forgets it.
LEMMA FlushEvolves ==
  ASSUME VoiceInv, NEW p \in Players, Settled(player[p]),
         Voice!Set(p, Voice!Forget(Voice!Gap([player[p] EXCEPT !.speaking = FALSE])))
  PROVE  Evolved(p)
<1> DEFINE r == player[p]
           q == [r EXCEPT !.speaking = FALSE]
           g == Voice!Gap(q)
           s == [g EXCEPT !.has = FALSE]
<1>1. r \in Voices /\ Timeline(r) /\ Reports(r) /\ now \in Nat
  BY AtHand
<1>2. player' = [player EXCEPT ![p] = s]
  BY DEF Voice!Set, Voice!Forget
<1>3. q \in Voices /\ q.has = r.has /\ q.last = r.last /\ q.worker = r.worker /\ q.stopped = r.stopped /\ q.owed = r.owed
  BY <1>1 DEF Voices
<1> HIDE DEF q
<1>4. q.has => q.last <= now
  BY <1>1, <1>3 DEF Timeline
<1>5. g \in Voices /\ g = [q EXCEPT !.last = g.last, !.fwd = g.fwd]
  BY <1>1, <1>3, <1>4, GapTyped
<1> HIDE DEF g
<1>6. g.worker = r.worker /\ g.stopped = r.stopped /\ g.owed = r.owed
  BY <1>3, <1>5 DEF Voices
<1>7. s \in Voices /\ ~s.has /\ s.worker = g.worker /\ s.stopped = g.stopped /\ s.owed = g.owed
  BY <1>5 DEF Voices
<1> HIDE DEF s
<1>8. Settled(s) /\ ~s.owed
  BY <1>1, <1>6, <1>7 DEF Settled, Reports
<1> QED
  BY <1>2, <1>7, <1>8, SettledIsSound DEF Evolved, Evolves

\* What is left of a closed player.
LEMMA DiscardEvolves ==
  ASSUME VoiceInv, NEW p \in Players, Settled(player[p]), Voice!Set(p, Voice!Discard(player[p]))
  PROVE  Evolved(p)
<1> DEFINE r == player[p]
           s == [Voice!Unmade EXCEPT !.worker = "exited", !.stopped = TRUE, !.completed = r.completed, !.owed = r.owed]
<1>1. r \in Voices /\ Sound(r) /\ Reports(r)
  BY AtHand
<1>2. CASE r.worker = "exited"
  <2>1. player' = [player EXCEPT ![p] = s]
    BY <1>2 DEF Voice!Set, Voice!Discard
  <2>2. s \in Voices /\ ~s.has /\ s.worker = "exited" /\ s.stopped /\ s.owed = r.owed
    <3>1. Voice!Unmade \in Voices /\ ~Voice!Unmade.has
      BY UnmadeTyped
    <3> QED
      BY <1>1, <3>1 DEF Voices, WorkerStages
  <2> HIDE DEF s
  <2>3. Settled(s) /\ ~s.owed
    BY <1>1, <1>2, <2>2 DEF Settled, Reports
  <2> QED
    BY <2>1, <2>2, <2>3, SettledIsSound DEF Evolved, Evolves
<1>3. CASE r.worker # "exited"
  <2>1. player' = [player EXCEPT ![p] = r]
    BY <1>3 DEF Voice!Set, Voice!Discard
  <2>2. r.worker # "none"
    BY DEF Settled
  <2> QED
    BY <1>1, <2>1, <2>2 DEF Evolved, Evolves
<1> QED
  BY <1>2, <1>3

LEMMA SpeakEvolves ==
  ASSUME VoiceInv, NEW p \in Players, Made(p),
         Voice!Set(p, [player[p] EXCEPT !.requests = IF @ < SpeakQueue THEN @ + 1 ELSE @])
  PROVE  Evolved(p)
<1> DEFINE r == player[p]
           n == IF r.requests < SpeakQueue THEN r.requests + 1 ELSE r.requests
           s == [r EXCEPT !.requests = n]
<1>1. r \in Voices /\ r.worker # "none"
  BY AtHand DEF Made
<1>2. player' = [player EXCEPT ![p] = s]
  BY DEF Voice!Set
<1>3. n \in Nat
  BY <1>1 DEF Voices
<1> HIDE DEF n
<1>4. s \in Voices /\ s.worker = r.worker /\ s.stopped = r.stopped /\ s.recorder = r.recorder /\ s.has = r.has
      /\ s.said = r.said /\ s.owed = r.owed /\ s.completed = r.completed /\ s.start = r.start /\ s.last = r.last
      /\ s.fwd = r.fwd /\ s.frame = r.frame /\ s.due = r.due /\ s.speaking = r.speaking
  BY <1>1, <1>3 DEF Voices
<1> HIDE DEF s
<1> QED
  BY <1>1, <1>2, <1>4, AsideEvolves

\* New: a player that is made is sound, and was nobody's before.
LEMMA NewEvolves ==
  ASSUME VoiceInv, NEW p \in Players, player[p].worker = "none",
         Voice!Set(p, [Voice!Unmade EXCEPT !.worker = "idle"])
  PROVE  Evolved(p)
<1> DEFINE r == player[p]
           s == [Voice!Unmade EXCEPT !.worker = "idle"]
<1>1. player' = [player EXCEPT ![p] = s] /\ ~Settled(r) /\ ~Unwinding(r)
  BY DEF Voice!Set, Settled, Unwinding
<1>2. r = Voice!Unmade
  BY AtHand DEF DialsOnce
<1>3. s \in Voices /\ s.worker = "idle" /\ ~s.has /\ s.said = <<>> /\ ~s.owed /\ ~s.completed /\ ~s.stopped /\ ~r.stopped
  <2>1. Voice!Unmade \in Voices /\ ~Voice!Unmade.has /\ Voice!Unmade.said = <<>> /\ ~Voice!Unmade.owed
        /\ ~Voice!Unmade.completed /\ ~Voice!Unmade.stopped
    BY UnmadeTyped
  <2> QED
    BY <1>2, <2>1 DEF Voices, WorkerStages
<1> HIDE DEF s
<1>4. Sound(s)
  BY <1>3 DEF Sound, DialsOnce, OnTheClock, Timeline, Reports
<1> QED
  BY <1>1, <1>3, <1>4 DEF Evolved, Evolves
--------------------------------------------------------------------------------
(* TtsPlayer: every step.                                                          *)

\* What a step does not undo.
Keeps == /\ player' \in [Players -> Voices] /\ \A p \in Players : Sound(player[p])'
         /\ \A p \in Players : /\ Made(p) => Made(p)'
                               /\ player[p].stopped => player'[p].stopped
                               /\ Settled(player[p]) => Settled(player'[p])
                               /\ Unwinding(player[p]) => Unwinding(player'[p])

LEMMA EvolvedKeeps ==
  ASSUME VoiceInv, NEW p \in Players, Evolved(p), now' = now
  PROVE  Keeps
<1>1. player \in [Players -> Voices] /\ \A q \in Players : Sound(player[q])
  BY DEF VoiceInv, VoiceTypeOK
<1>2. PICK s \in Voices : player' = [player EXCEPT ![p] = s] /\ Evolves(player[p], s)
  BY DEF Evolved
<1>3. player' \in [Players -> Voices] /\ player'[p] = s /\ \A q \in Players \ {p} : player'[q] = player[q]
  BY <1>1, <1>2
<1>4. Sound(s) /\ s.worker # "none" /\ (player[p].stopped => s.stopped)
      /\ (Settled(player[p]) => Settled(s)) /\ (Unwinding(player[p]) => Unwinding(s))
  BY <1>2 DEF Evolves
<1>5. ASSUME NEW q \in Players
      PROVE  /\ Sound(player'[q])
             /\ Made(q) => Made(q)'
             /\ player[q].stopped => player'[q].stopped
             /\ Settled(player[q]) => Settled(player'[q])
             /\ Unwinding(player[q]) => Unwinding(player'[q])
  BY <1>1, <1>3, <1>4 DEF Made
<1>6. \A q \in Players : Sound(player[q])'
  BY <1>3, <1>5 DEF Sound, DialsOnce, OnTheClock, Timeline, Reports, Settled, Ahead, Playing, Voice!Unmade, Voice!NoForwarder
<1> QED
  BY <1>3, <1>5, <1>6 DEF Keeps

\* A step of a player's goroutines disturbs nothing the session is doing.
LEMMA PlayerStep ==
  ASSUME VoiceInv, NEW p \in Players,
         Voice!Worker(p) \/ Voice!Write(p) \/ Voice!Rejected(p) \/ Voice!SilenceTick(p) \/ Voice!TickerStops(p)
  PROVE  VoiceInv'
<1>1. Voice!Quiet
  BY DEF Voice!Worker, Voice!Take, Voice!Exit, Voice!StartRecording, Voice!Dialed, Voice!Synthesized, Voice!Begin, Voice!PlayFrame,
         Voice!Played, Voice!Report, Voice!ReportEnds, Voice!Move, Voice!Write, Voice!Rejected, Voice!SilenceTick, Voice!TickerStops
<1>2. UNCHANGED <<refs, main, handler, now, asked, panicked>>
  BY <1>1 DEF Voice!Quiet, Voice!Still
<1>3. Keeps
  BY <1>2, WorkerStep, WriteItemStep, RejectedStep, SilenceTickStep, TickerStopsStep, EvolvedKeeps
<1>4. VoiceTypeOK' /\ \A q \in Players : Sound(player[q])'
  BY <1>2, <1>3 DEF Keeps, VoiceInv, VoiceTypeOK
<1>5. Referred'
  BY <1>2, <1>3 DEF Keeps, VoiceInv, Referred, Made
<1>6. main.at \in Closing => main.p \in Players
  BY DEF VoiceInv, Closes, Referred, Made
<1>7. Closes'
  BY <1>2, <1>3, <1>6 DEF Keeps, VoiceInv, Closes, Closing
<1> QED
  BY <1>4, <1>5, <1>7 DEF VoiceInv

\* The session's steps that leave the players alone.
LEMMA SessionStep ==
  ASSUME VoiceInv,
         Voice!Connect \/ Voice!Rejoin \/ Voice!Leave \/ Voice!Waited \/ Voice!TickerJoined \/ Voice!TtsPlay
  PROVE  VoiceInv'
<1>1. UNCHANGED <<player, now, panicked>>
  BY DEF Voice!Connect, Voice!Rejoin, Voice!Leave, Voice!Waited, Voice!TickerJoined, Voice!TtsPlay, Voice!Still
<1>2. VoiceTypeOK'
  <2>1. refs' \in MaybePlayers /\ handler' \in MaybePlayers /\ asked' \in Nat
    BY DEF VoiceInv, VoiceTypeOK, MaybePlayers, Voice!Connect, Voice!Rejoin, Voice!Leave, Voice!Waited,
           Voice!TickerJoined, Voice!TtsPlay, Voice!Still
  <2>2. \/ main' = main
        \/ \E a \in {"joining", "out", "stop", "ticker", "flush"}, b \in {main.rejoin, TRUE} :
             main' = [main EXCEPT !.at = a, !.rejoin = b]
    <3>1. \A a : [main EXCEPT !.at = a] = [main EXCEPT !.at = a, !.rejoin = main.rejoin]
      BY DEF VoiceInv, VoiceTypeOK
    <3> QED
      BY <3>1 DEF Voice!Connect, Voice!Rejoin, Voice!Leave, Voice!Waited, Voice!TickerJoined, Voice!TtsPlay, Voice!Still, Voice!Go
  <2>3. main' \in [at : {"out", "joining", "in"} \cup Closing, p : MaybePlayers, rejoin : BOOLEAN]
    BY <2>2 DEF VoiceInv, VoiceTypeOK, Closing
  <2> QED
    BY <1>1, <2>1, <2>3 DEF VoiceInv, VoiceTypeOK
<1>3. \A q \in Players : Sound(player[q])'
  BY <1>1 DEF VoiceInv, Sound, DialsOnce, OnTheClock, Timeline, Reports, Settled, Ahead, Playing, Voice!Unmade, Voice!NoForwarder
<1>4. main \in [at : {"out", "joining", "in"} \cup Closing, p : MaybePlayers, rejoin : BOOLEAN]
  BY DEF VoiceInv, VoiceTypeOK
<1>5. CASE Voice!TtsPlay
  BY <1>1, <1>2, <1>3, <1>5 DEF VoiceInv, Referred, Made, Closes, Voice!TtsPlay, Voice!Still
<1>6. CASE Voice!Connect \/ Voice!Rejoin \/ Voice!Leave
  <2>1. handler' = handler /\ refs' \in {refs, NoPlayer} /\ main'.p = main.p
        /\ (main'.at \in {"out", "joining"} \/ (main'.at = "stop" /\ main.p # NoPlayer))
    BY <1>4, <1>6 DEF Voice!Connect, Voice!Rejoin, Voice!Leave, Voice!Still, Voice!Go
  <2>2. Referred'
    BY <1>1, <2>1 DEF VoiceInv, Referred, Made
  <2>3. Closes'
    BY <1>1, <2>1 DEF VoiceInv, Closes, Closing
  <2> QED
    BY <1>2, <1>3, <2>2, <2>3 DEF VoiceInv
<1>7. CASE Voice!Waited \/ Voice!TickerJoined
  <2>1. handler' = handler /\ refs' = refs /\ main'.p = main.p /\ main.at \in Closing \ {"stop"}
    BY <1>4, <1>7 DEF Voice!Waited, Voice!TickerJoined, Voice!Still, Voice!Go, Closing
  <2>2. main.p # NoPlayer /\ player[main.p].stopped
    BY <2>1 DEF VoiceInv, Closes
  <2>3. \/ main'.at = "ticker" /\ Unwinding(player[main.p])
        \/ main'.at = "flush" /\ Settled(player[main.p])
    <3>1. CASE Voice!Waited
      BY <1>4, <2>2, <3>1 DEF Voice!Waited, Voice!Patient, Voice!Mine, Voice!Go, Settled, Unwinding
    <3>2. CASE Voice!TickerJoined
      BY <1>4, <3>2 DEF VoiceInv, Closes, Voice!TickerJoined, Voice!Free, Voice!Go, Unwinding
    <3> QED
      BY <1>7, <3>1, <3>2
  <2>4. Referred'
    BY <1>1, <2>1 DEF VoiceInv, Referred, Made
  <2>5. Closes'
    BY <1>1, <2>1, <2>2, <2>3 DEF Closes, Unwinding
  <2> QED
    BY <1>2, <1>3, <2>4, <2>5 DEF VoiceInv
<1> QED
  BY <1>5, <1>6, <1>7
\* Player.Close, one step of the session each.
LEMMA ClosePlayerStep ==
  ASSUME VoiceInv, Voice!Stop \/ Voice!FlushGap \/ Voice!Shut \/ Voice!Complete \/ Voice!Closed
  PROVE  VoiceInv'
<1> DEFINE p == main.p
           Mains == [at : {"out", "joining", "in"} \cup Closing, p : MaybePlayers, rejoin : BOOLEAN]
<1>1. main \in Mains /\ VoiceTypeOK
  BY DEF VoiceInv, VoiceTypeOK
<1>2. main.at \in Closing /\ p \in Players /\ Made(p)
  BY DEF Voice!Stop, Voice!FlushGap, Voice!Shut, Voice!Complete, Voice!Closed, VoiceInv, Closes, Referred, Made, Closing
<1>3. main.at # "stop" => player[p].stopped
  BY <1>2 DEF VoiceInv, Closes
<1>4. main.at \in {"flush", "shut", "completed", "closed"} => Settled(player[p])
  BY DEF VoiceInv, Closes
<1>5. Evolved(p) /\ now' = now /\ UNCHANGED <<handler, asked, panicked>> /\ refs' \in {refs, NoPlayer}
      /\ main' \in Mains /\ (main'.p = NoPlayer \/ main'.p = p)
      /\ \/ main'.at \in {"out", "joining"}
         \/ main'.at = "wait" /\ player'[p].stopped /\ main'.p = p
         \/ main'.at \in {"shut", "completed", "closed"} /\ Settled(player[p]) /\ main'.p = p
  <2>1. CASE Voice!Stop
    <3>1. Voice!Set(p, [player[p] EXCEPT !.stopped = TRUE]) /\ main' = [main EXCEPT !.at = "wait"]
          /\ UNCHANGED <<refs, handler, now, asked, panicked>>
      BY <2>1 DEF Voice!Stop, Voice!Mine, Voice!Go, Voice!Still
    <3>2. main' \in Mains /\ main'.at = "wait" /\ main'.p = p
      BY <1>1, <3>1 DEF Closing
    <3> QED
      BY <1>2, <3>1, <3>2, StopEvolves
  <2>2. CASE Voice!FlushGap
    <3>1. PICK a \in {"shut", "closed"} : main' = [main EXCEPT !.at = a]
      BY <2>2 DEF Voice!FlushGap, Voice!Go
    <3>2. Voice!Set(p, Voice!Forget(Voice!Gap([player[p] EXCEPT !.speaking = FALSE]))) /\ Settled(player[p])
          /\ UNCHANGED <<refs, handler, now, asked, panicked>>
      BY <1>4, <2>2 DEF Voice!FlushGap, Voice!Mine, Voice!Still
    <3>3. main' \in Mains /\ main'.at = a /\ main'.p = p
      BY <1>1, <3>1 DEF Closing
    <3> QED
      BY <1>2, <3>2, <3>3, FlushEvolves
  <2>3. CASE Voice!Shut
    <3>1. Voice!Set(p, [player[p] EXCEPT !.fwd = Voice!CloseForwarder(player[p].fwd)]) /\ main' = [main EXCEPT !.at = "completed"]
          /\ Settled(player[p]) /\ UNCHANGED <<refs, handler, now, asked, panicked>>
      BY <1>4, <2>3 DEF Voice!Shut, Voice!Mine, Voice!Go, Voice!Still
    <3>2. main' \in Mains /\ main'.at = "completed" /\ main'.p = p
      BY <1>1, <3>1 DEF Closing
    <3> QED
      BY <1>2, <3>1, <3>2, ShutEvolves
  <2>4. CASE Voice!Complete
    <3>1. Voice!Set(p, [player[p] EXCEPT !.completed = TRUE]) /\ main' = [main EXCEPT !.at = "closed"]
          /\ Settled(player[p]) /\ UNCHANGED <<refs, handler, now, asked, panicked>>
      BY <1>4, <2>4 DEF Voice!Complete, Voice!Mine, Voice!Go, Voice!Still
    <3>2. main' \in Mains /\ main'.at = "closed" /\ main'.p = p
      BY <1>1, <3>1 DEF Closing
    <3> QED
      BY <1>2, <3>1, <3>2, CompleteEvolves
  <2>5. CASE Voice!Closed
    <3>1. PICK a \in {"joining", "out"} : main' = [at |-> a, p |-> NoPlayer, rejoin |-> FALSE]
      BY <2>5 DEF Voice!Closed
    <3>2. Voice!Set(p, Voice!Discard(player[p])) /\ Settled(player[p]) /\ refs' = NoPlayer
          /\ UNCHANGED <<handler, now, asked, panicked>>
      BY <1>4, <2>5 DEF Voice!Closed, Voice!Mine, Voice!Still
    <3>3. main' \in Mains /\ main'.at = a /\ main'.p = NoPlayer
      BY <3>1 DEF MaybePlayers
    <3> QED
      BY <1>2, <3>2, <3>3, DiscardEvolves
  <2> QED
    BY <2>1, <2>2, <2>3, <2>4, <2>5
<1>6. Keeps
  BY <1>2, <1>5, EvolvedKeeps
<1>7. VoiceTypeOK' /\ \A q \in Players : Sound(player[q])'
  BY <1>1, <1>5, <1>6 DEF Keeps, VoiceTypeOK, MaybePlayers
<1>8. Referred'
  <2>1. \A q \in Players : Made(q) => Made(q)'
    BY <1>6 DEF Keeps
  <2>2. \A q \in {refs, handler, p} : q # NoPlayer => Made(q)
    BY DEF VoiceInv, Referred
  <2>3. \A q : Made(q) => q \in Players
    BY DEF Made
  <2> HIDE DEF p
  <2> QED
    BY <1>5, <2>1, <2>2, <2>3 DEF Referred
<1>9. Closes'
  <2>1. Settled(player[p]) => Settled(player'[p]) /\ player'[p].stopped
    BY <1>2, <1>6 DEF Keeps, Settled
  <2>2. p # NoPlayer
    BY <1>2, VoiceAssumption
  <2> HIDE DEF p
  <2> QED
    BY <1>5, <2>1, <2>2 DEF Closes, Closing
<1> QED
  BY <1>7, <1>8, <1>9 DEF VoiceInv

\* onJoined makes a player nobody refers to yet, or none.
LEMMA JoinStep ==
  ASSUME VoiceInv, Voice!Join
  PROVE  VoiceInv'
<1>1. PICK p \in Players :
        /\ player[p].worker = "none"
        /\ \/ Voice!Set(p, [Voice!Unmade EXCEPT !.worker = "idle"]) /\ refs' = p /\ main' = [at |-> "in", p |-> p, rejoin |-> FALSE]
           \/ main' = [at |-> "in", p |-> NoPlayer, rejoin |-> FALSE] /\ refs' = NoPlayer /\ UNCHANGED player
  <2> DEFINE q == CHOOSE o \in Voice!Left : TRUE
  <2>1. q \in Players /\ player[q].worker = "none"
    BY DEF Voice!Join, Voice!Left
  <2> QED
    BY <2>1 DEF Voice!Join
<1>2. UNCHANGED <<handler, now, asked, panicked>>
  BY DEF Voice!Join, Voice!Still
<1>3. CASE Voice!Set(p, [Voice!Unmade EXCEPT !.worker = "idle"]) /\ refs' = p /\ main' = [at |-> "in", p |-> p, rejoin |-> FALSE]
  <2>1. Keeps
    BY <1>1, <1>2, <1>3, NewEvolves, EvolvedKeeps
  <2>2. VoiceTypeOK' /\ \A q \in Players : Sound(player[q])'
    BY <1>1, <1>2, <1>3, <2>1 DEF Keeps, VoiceInv, VoiceTypeOK, MaybePlayers
  <2>3. Made(p)'
    <3>1. player'[p].worker = "idle"
      BY <1>1, <1>3, UnmadeTyped DEF Voice!Set, VoiceInv, VoiceTypeOK, Voices
    <3> QED
      BY <1>1, <3>1 DEF Made
  <2>4. Referred'
    BY <1>2, <1>3, <2>1, <2>3 DEF Keeps, VoiceInv, Referred, Made
  <2>5. Closes'
    BY <1>3 DEF Closes, Closing
  <2> QED
    BY <2>2, <2>4, <2>5 DEF VoiceInv
<1>4. CASE main' = [at |-> "in", p |-> NoPlayer, rejoin |-> FALSE] /\ refs' = NoPlayer /\ UNCHANGED player
  <2>1. VoiceTypeOK' /\ \A q \in Players : Sound(player[q])'
    BY <1>2, <1>4 DEF VoiceInv, VoiceTypeOK, MaybePlayers, Sound, DialsOnce, OnTheClock, Timeline, Reports, Settled, Ahead, Playing,
       Voice!Unmade, Voice!NoForwarder
  <2>2. Referred'
    BY <1>2, <1>4 DEF VoiceInv, Referred, Made
  <2>3. Closes'
    BY <1>4 DEF Closes, Closing
  <2> QED
    BY <2>1, <2>2, <2>3 DEF VoiceInv
<1> QED
  BY <1>1, <1>3, <1>4

LEMMA SpeakStep ==
  ASSUME VoiceInv, Voice!Speak
  PROVE  VoiceInv'
<1>1. handler \in Players /\ Made(handler)
  BY DEF Voice!Speak, VoiceInv, Referred, Made
<1>2. UNCHANGED <<refs, main, now, asked>> /\ handler' = NoPlayer /\ panicked' \in BOOLEAN
  BY DEF Voice!Speak, VoiceInv, VoiceTypeOK
<1>3. CASE player[handler].stopped
  <2>1. player' = player
    BY <1>3 DEF Voice!Speak
  <2>2. VoiceTypeOK' /\ \A q \in Players : Sound(player[q])'
    BY <1>2, <2>1 DEF VoiceInv, VoiceTypeOK, MaybePlayers, Sound, DialsOnce, OnTheClock, Timeline, Reports, Settled, Ahead, Playing,
       Voice!Unmade, Voice!NoForwarder
  <2>3. Referred' /\ Closes'
    BY <1>2, <2>1 DEF VoiceInv, Referred, Made, Closes
  <2> QED
    BY <2>2, <2>3 DEF VoiceInv
<1>4. CASE ~player[handler].stopped
  <2>1. Keeps
    BY <1>1, <1>2, <1>4, SpeakEvolves, EvolvedKeeps DEF Voice!Speak
  <2>2. VoiceTypeOK' /\ \A q \in Players : Sound(player[q])'
    BY <1>2, <2>1 DEF Keeps, VoiceInv, VoiceTypeOK, MaybePlayers
  <2>3. Referred'
    BY <1>2, <2>1 DEF Keeps, VoiceInv, Referred, Made
  <2>4. main.at \in Closing => main.p \in Players
    BY DEF VoiceInv, Closes, Referred, Made
  <2>5. Closes'
    BY <1>2, <2>1, <2>4 DEF Keeps, VoiceInv, Closes, Closing
  <2> QED
    BY <2>2, <2>3, <2>5 DEF VoiceInv
<1> QED
  BY <1>3, <1>4

\* Time waits for a frame that is due.
LEMMA TickStep ==
  ASSUME VoiceInv, Voice!Tick
  PROVE  VoiceInv'
<1>1. UNCHANGED <<player, refs, main, handler, asked, panicked>> /\ now' = now + 1 /\ now \in Nat
  BY DEF Voice!Tick, Voice!Still, VoiceInv, VoiceTypeOK
<1>2. ASSUME NEW p \in Players PROVE Sound(player[p])'
  <2>1. player[p] \in Voices /\ DialsOnce(player[p]) /\ OnTheClock(player[p]) /\ Timeline(player[p]) /\ Reports(player[p])
    BY AtHand
  <2>2. player[p].worker = "playing" => player[p].due > now
    BY DEF Voice!Tick
  <2>3. OnTheClock(player[p])'
    BY <1>1, <2>1, <2>2 DEF OnTheClock, Voices
  <2>4. player[p].last \in Nat
    BY <2>1 DEF Voices
  <2>5. Timeline(player[p])'
    BY <1>1, <2>1, <2>4 DEF Timeline, Ahead, Playing
  <2>6. DialsOnce(player[p])' /\ Reports(player[p])'
    BY <1>1, <2>1 DEF DialsOnce, Reports, Settled, Voice!Unmade, Voice!NoForwarder
  <2> QED
    BY <2>3, <2>5, <2>6 DEF Sound
<1>3. VoiceTypeOK' /\ Referred' /\ Closes'
  BY <1>1 DEF VoiceInv, VoiceTypeOK, MaybePlayers, Referred, Made, Closes, Settled, Unwinding
<1> QED
  BY <1>2, <1>3 DEF VoiceInv

LEMMA VoiceInit == Voice!Init => VoiceInv
<1> SUFFICES ASSUME Voice!Init PROVE VoiceInv
  OBVIOUS
<1>1. player = [p \in Players |-> Voice!Unmade] /\ refs = NoPlayer /\ handler = NoPlayer /\ now = 0 /\ asked = 0 /\ panicked = FALSE
      /\ main = [at |-> "out", p |-> NoPlayer, rejoin |-> FALSE]
  BY DEF Voice!Init
<1>2. VoiceTypeOK
  BY <1>1, UnmadeTyped DEF VoiceTypeOK, MaybePlayers
<1>3. Sound(Voice!Unmade)
  BY UnmadeTyped DEF Sound, DialsOnce, OnTheClock, Timeline, Reports
<1>4. \A p \in Players : Sound(player[p])
  BY <1>1, <1>3
<1>5. Referred /\ Closes
  BY <1>1 DEF Referred, Closes, Closing
<1> QED
  BY <1>2, <1>4, <1>5 DEF VoiceInv

LEMMA VoiceStep == VoiceInv /\ [Voice!Next]_(Voice!vars) => VoiceInv'
<1> SUFFICES ASSUME VoiceInv, [Voice!Next]_(Voice!vars) PROVE VoiceInv'
  OBVIOUS
<1>1. CASE Voice!Next
  BY <1>1, PlayerStep, SessionStep, ClosePlayerStep, JoinStep, SpeakStep, TickStep DEF Voice!Next, Voice!ClosePlayer
<1>2. CASE UNCHANGED Voice!vars
  <2>1. UNCHANGED <<player, refs, main, handler, now, asked, panicked>>
    BY <1>2 DEF Voice!vars
  <2>2. VoiceTypeOK' /\ Referred' /\ Closes'
    BY <2>1 DEF VoiceInv, VoiceTypeOK, Referred, Made, Closes
  <2>3. \A q \in Players : Sound(player[q])'
    BY <2>1 DEF VoiceInv, Sound, DialsOnce, OnTheClock, Timeline, Reports, Settled, Ahead, Playing, Voice!Unmade, Voice!NoForwarder
  <2> QED
    BY <2>2, <2>3 DEF VoiceInv
<1> QED
  BY <1>1, <1>2

LEMMA VoiceInvAlways == Voice!Spec => []VoiceInv
<1> QED
  BY VoiceInit, VoiceStep, PTL DEF Voice!Spec

\* ttsplayer.Player: an utterance lies in the recorded track where its transcript says it
\* starts, give or take a frame for each one before it, for every number of players,
\* requests and frames, and whichever dial, synthesis, write, frame or session fails.
THEOREM SpeechIsPlacedAlways == Voice!Spec => []SpeechIsPlaced
<1>1. VoiceInv => SpeechIsPlaced
  BY DEF VoiceInv, Sound, Timeline, SpeechIsPlaced
<1> QED
  BY <1>1, VoiceInvAlways, PTL

\* ttsplayer.Player: an utterance that was played to its end has been reported when its
\* track is reported complete, however long the worker outlives the grace of Close.
THEOREM PlayedIsReportedAlways == Voice!Spec => []PlayedIsReported
<1>1. VoiceInv => PlayedIsReported
  BY DEF VoiceInv, Sound, Reports, Settled, PlayedIsReported
<1> QED
  BY <1>1, VoiceInvAlways, PTL

================================================================================
