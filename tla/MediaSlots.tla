------------------------------- MODULE MediaSlots -------------------------------
(* The receive path of one agent session in a decoupled media pool: mezon-sfu
   moves a fixed set of audio slots between peers and says so over the signaling
   socket only (agents/internal/rtcagent), while the packets of a slot keep coming
   on one track; the participant bridge (agents/internal/audiopipeline) gives each
   peer one recording and one transcription sink.

   Interleaved: the signaling read loop, the goroutines that end a binding, one
   packet read loop per slot, the transcription toggle and the session's close.
   Locks: PeerAgent.mu and participantBridge.mu make each step below one step; a
   session's mu is held from Enter to Write and by one step of each other actor. *)
EXTENDS MediaState, Naturals, FiniteSetsExt

CONSTANT MaxEvents     \* bound: signaling events

NoTrack == [peer |-> NoOne, rev |-> 0, active |-> FALSE]
Free == [gen |-> 0, peer |-> NoOne]
Absent == [at |-> "absent", table |-> FALSE, rev |-> 0, bound |-> NoTrack, stt |-> FALSE]

sfuVars == <<owner, gone, sent>>
peerAgentVars == <<pool, midTable, revisions>>
endVars == <<ending, ended>>
bridgeVars == <<sessions, departed, retired, sttEnabled, closed, toClose>>
vars == <<sfuVars, peerAgentVars, endVars, bridgeVars, reader, toggle>>

Waiting == [at |-> "read", info |-> NoTrack, stt |-> FALSE]

Init == /\ owner = [s \in Slots |-> Free] /\ sent = 0 /\ gone = {}
        /\ pool = [s \in Slots |-> Free] /\ midTable = [s \in Slots |-> NoTrack] /\ revisions = 0
        /\ ending = {} /\ ended = {}
        /\ sessions = [p \in Peers |-> Absent] /\ departed = {} /\ retired = [s \in Slots |-> 0]
        /\ sttEnabled = FALSE /\ closed = FALSE /\ toClose = {}
        /\ reader = [s \in Slots |-> Waiting] /\ toggle = {}
--------------------------------------------------------------------------------
(* The signaling read loop handles one event at a time, in the order sent. An event
   is what mezon-sfu (external) may send in its state.                          *)

Signaled == ~closed /\ toClose = {} /\ sent < MaxEvents /\ sent' = sent + 1

\* A slot goes to a peer, is switched on or off for its owner, or a roster message
\* (room_snapshot, peer_joined) repeats who holds it.
Assignments == [slot : Slots, peer : Peers \ gone, gen : 1..MaxEvents, active : BOOLEAN, member : BOOLEAN]
SfuAssigns(e) == IF e.peer = owner[e.slot].peer THEN e.gen = owner[e.slot].gen /\ (e.member => e.active)
                 ELSE e.gen = owner[e.slot].gen + 1 /\ ~e.member

Ender(s) == [slot |-> s, peer |-> midTable[s].peer, rev |-> midTable[s].rev, at |-> "retire"]

\* applyDecoupledAssignment ignores an older generation, and the same one unless
\* it is the same peer's update.
Superseded(e) == \/ pool[e.slot].gen > e.gen
                 \/ pool[e.slot].gen = e.gen /\ (e.member \/ pool[e.slot].peer # e.peer)
\* The slot's new owner is entered under a new binding revision; the previous
\* owner's binding is ended in a goroutine of its own.
ApplySlotAssigned(e) ==
  /\ Signaled /\ SfuAssigns(e)
  /\ owner' = [owner EXCEPT ![e.slot] = [gen |-> e.gen, peer |-> e.peer]]
  /\ LET s == e.slot  old == pool[s]
         same == old.peer = e.peer /\ old.gen = e.gen IN
       IF Superseded(e) THEN UNCHANGED <<peerAgentVars, ending>>
       ELSE /\ pool' = [pool EXCEPT ![s] = [gen |-> e.gen, peer |-> e.peer]]
            /\ revisions' = IF same THEN revisions ELSE revisions + 1
            /\ midTable' = [midTable EXCEPT ![s] = [peer |-> e.peer, active |-> e.active, rev |-> IF same THEN @.rev ELSE revisions']]
            /\ ending' = IF old.peer \notin {NoOne, e.peer} THEN ending \cup {Ender(s)} ELSE ending
  /\ UNCHANGED <<gone, ended, bridgeVars, reader, toggle>>

\* applyDecoupledRelease of a set of slots: nobody owns them, and who did is ended.
Release(slots, gens) ==
  LET owned == {s \in slots : pool[s].peer # NoOne} IN
    /\ pool' = [s \in Slots |-> IF s \in slots THEN [gen |-> gens[s], peer |-> NoOne] ELSE pool[s]]
    /\ midTable' = [s \in Slots |-> IF s \in owned THEN NoTrack ELSE midTable[s]]
    /\ ending' = ending \cup {Ender(s) : s \in owned}

ApplySlotReleased(s) ==
  /\ Signaled /\ owner[s].peer # NoOne
  /\ owner' = [owner EXCEPT ![s].peer = NoOne]
  /\ Release({t \in {s} : pool[t].gen <= owner[t].gen}, [t \in Slots |-> owner[t].gen])
  /\ UNCHANGED <<gone, revisions, ended, bridgeVars, reader, toggle>>

\* The bridge takes the session of a peer that left out of its table; it is closed next.
HandlePeerEnded(p) ==
  /\ departed' = departed \cup {p}
  /\ toClose' = {q \in {p} : sessions[q].table}
  /\ sessions' = [sessions EXCEPT ![p].table = FALSE]

\* onPeerLeft: the listed bindings and any other of the peer are released, and the
\* bridge is told. The two locks are taken in turn: a packet between them finds no
\* owner of the slot either way.
OnPeerLeft(p) ==
  /\ Signaled /\ p \notin gone /\ gone' = gone \cup {p}
  /\ owner' = [s \in Slots |-> IF owner[s].peer = p THEN [owner[s] EXCEPT !.peer = NoOne] ELSE owner[s]]
  /\ LET listed == {s \in Slots : owner[s].peer = p /\ pool[s].gen <= owner[s].gen} IN
       /\ Release(listed \cup {s \in Slots : pool[s].peer = p}, [s \in Slots |-> IF s \in listed THEN owner[s].gen ELSE pool[s].gen])
  /\ HandlePeerEnded(p)
  /\ UNCHANGED <<revisions, ended, retired, sttEnabled, closed, reader, toggle>>
--------------------------------------------------------------------------------
(* participantBridge.                                                           *)

Locked(p) == \E s \in Slots : reader[s].at = "write" /\ reader[s].info.peer = p

\* currentAudioInfo: the slot's owner, if the slot is switched on.
ReadPacket(s) ==
  /\ reader[s].at = "read" /\ midTable[s].active /\ midTable[s].peer # NoOne
  /\ reader' = [reader EXCEPT ![s] = [Waiting EXCEPT !.at = "reserve", !.info = [midTable[s] EXCEPT !.active = FALSE]]]
  /\ UNCHANGED <<sfuVars, peerAgentVars, endVars, bridgeVars, toggle>>

\* acceptsLocked
AcceptsBroken(s, info) == ~closed /\ info.rev > retired[s]  \* mutant: departed peers are accepted
Accepts(s, info) == ~closed /\ info.peer \notin departed /\ info.rev > retired[s]

\* handlePacket, first part: a session is reserved before any sink is dialled.
Reserve(s) ==
  /\ reader[s].at = "reserve"
  /\ LET info == reader[s].info IN
       IF Accepts(s, info)
       THEN /\ sessions' = IF sessions[info.peer].table THEN sessions
                           ELSE [sessions EXCEPT ![info.peer] = [Absent EXCEPT !.at = "reserved", !.table = TRUE]]
            /\ reader' = [reader EXCEPT ![s].at = "enter"]
       ELSE reader' = [reader EXCEPT ![s] = Waiting] /\ UNCHANGED sessions
  /\ UNCHANGED <<sfuVars, peerAgentVars, endVars, departed, retired, sttEnabled, closed, toClose, toggle>>

\* A packet of a binding that was replaced or ended while it waited is dropped.
StillValidBroken(s, info) == sessions[info.peer].at # "closed" \* mutant: accepted once is accepted for good
StillValid(s, info) == Accepts(s, info) /\ sessions[info.peer].at # "closed" /\ info.rev >= sessions[info.peer].rev

\* handlePacket, with the session's lock: everything is asked again.
Enter(s) ==
  /\ reader[s].at = "enter" /\ ~Locked(reader[s].info.peer)
  /\ reader' = [reader EXCEPT ![s] = IF StillValid(s, @.info) THEN [@ EXCEPT !.at = "write", !.stt = sttEnabled] ELSE Waiting]
  /\ UNCHANGED <<sfuVars, peerAgentVars, endVars, bridgeVars, toggle>>

\* The first packet dials the sinks; the packet is sent to those there are. A
\* packet that does not decode ends here.
Write(s) ==
  /\ reader[s].at = "write"
  /\ LET p == reader[s].info.peer  x == sessions[p]
         bound == [x EXCEPT !.rev = reader[s].info.rev, !.bound = reader[s].info] IN
       \E decoded, dials \in BOOLEAN :
         sessions' = [sessions EXCEPT ![p] = IF decoded /\ x.at = "reserved" THEN [bound EXCEPT !.at = "open", !.stt = reader[s].stt /\ dials] ELSE bound]
  /\ reader' = [reader EXCEPT ![s] = Waiting]
  /\ UNCHANGED <<sfuVars, peerAgentVars, endVars, departed, retired, sttEnabled, closed, toClose, toggle>>

\* endBinding, first part: packets of the binding are refused from here on.
Retire(x) ==
  /\ x.at = "retire"
  /\ retired' = [retired EXCEPT ![x.slot] = Max({@, x.rev})]
  /\ IF sessions[x.peer].table
     THEN ending' = (ending \ {x}) \cup {[x EXCEPT !.at = "unbind"]} /\ UNCHANGED ended
     ELSE ending' = ending \ {x} /\ ended' = ended \cup {x.rev}
  /\ UNCHANGED <<sfuVars, peerAgentVars, sessions, departed, sttEnabled, closed, toClose, reader, toggle>>
\* endBinding, with the session's lock: its decoder is dropped if it is still bound.
Unbind(x) ==
  /\ x.at = "unbind" /\ ~Locked(x.peer)
  /\ sessions' = IF sessions[x.peer].bound.rev = x.rev THEN [sessions EXCEPT ![x.peer].bound = NoTrack] ELSE sessions
  /\ ending' = ending \ {x} /\ ended' = ended \cup {x.rev}
  /\ UNCHANGED <<sfuVars, peerAgentVars, departed, retired, sttEnabled, closed, toClose, reader, toggle>>

\* participantSession.close
CloseSession(p) ==
  /\ p \in toClose /\ ~Locked(p)
  /\ toClose' = toClose \ {p}
  /\ sessions' = [sessions EXCEPT ![p] = [@ EXCEPT !.at = "closed", !.bound = NoTrack, !.stt = FALSE]]
  /\ UNCHANGED <<sfuVars, peerAgentVars, endVars, departed, retired, sttEnabled, closed, reader, toggle>>

\* setSTTEnabled: the sessions of the table are visited one by one, each under its
\* lock and with the latest intent; a dial may fail.
ToVisitBroken == {p \in Peers : sessions[p].table /\ sessions[p].at = "open"} \* mutant: sessions without sinks are skipped
ToVisit == {p \in Peers : sessions[p].table}
SetSTTEnabled(on) ==
  /\ toggle = {} /\ on # sttEnabled
  /\ sttEnabled' = on /\ toggle' = ToVisit
  /\ UNCHANGED <<sfuVars, peerAgentVars, endVars, sessions, departed, retired, closed, toClose, reader>>
ToggleSession(p) ==
  /\ p \in toggle /\ ~Locked(p)
  /\ toggle' = toggle \ {p}
  /\ LET want == sttEnabled /\ ~closed /\ p \notin departed IN
     \E dials \in BOOLEAN :
       sessions' = IF sessions[p].at = "open" THEN [sessions EXCEPT ![p].stt = want /\ (@ \/ dials)] ELSE sessions
  /\ UNCHANGED <<sfuVars, peerAgentVars, endVars, departed, retired, sttEnabled, closed, toClose, reader>>

\* session.close: the signaling loop is over; the wait for the read loops is
\* bounded, so the bridge may close beside one that is in the middle of a packet.
CloseBridge ==
  /\ ~closed /\ toClose = {}
  /\ closed' = TRUE
  /\ toClose' = {p \in Peers : sessions[p].table}
  /\ sessions' = [p \in Peers |-> [sessions[p] EXCEPT !.table = FALSE]]
  /\ UNCHANGED <<sfuVars, peerAgentVars, endVars, departed, retired, sttEnabled, reader, toggle>>
\* readLoop: the track is over; whoever owns the slot now is ended (finalInfo).
TrackEnds(s) ==
  /\ closed /\ reader[s].at = "read"
  /\ reader' = [reader EXCEPT ![s].at = "over"]
  /\ ending' = IF midTable[s].peer # NoOne THEN ending \cup {Ender(s)} ELSE ending
  /\ UNCHANGED <<sfuVars, peerAgentVars, ended, bridgeVars, toggle>>

Signaling == \/ \E e \in Assignments : ApplySlotAssigned(e)
             \/ \E s \in Slots : ApplySlotReleased(s)
             \/ \E p \in Peers : OnPeerLeft(p)
Track(s) == ReadPacket(s) \/ Reserve(s) \/ Enter(s) \/ Write(s) \/ TrackEnds(s)
Next == \/ Signaling \/ CloseBridge
        \/ \E s \in Slots : Track(s)
        \/ \E x \in ending : Retire(x) \/ Unbind(x)
        \/ \E p \in Peers : CloseSession(p) \/ ToggleSession(p)
        \/ \E on \in BOOLEAN : SetSTTEnabled(on)
Spec == Init /\ [][Next]_vars
================================================================================
