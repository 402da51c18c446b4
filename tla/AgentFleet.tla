------------------------------- MODULE AgentFleet -------------------------------
(* The agent processes of a room and the two parties that keep book of them:
   worker-manager (agents/internal/workermanager), which starts and stops one
   agent per room, writes a registry file and adopts the survivors of its own
   crash over their control sockets, and the agents-bot gateway, which forwards
   the chat of registered rooms. An agent is the life of cmd/agent: open the
   socket, register the room, join with reconnects, leave.

   Interleaved: one shard goroutine per room, a reaper and a killer goroutine
   per agent, registry writers under persistMu, the agents themselves.          *)
EXTENDS FleetState, Naturals, Sequences

CONSTANTS MaxEvents,    \* add / delete events
          MaxAttempts,  \* Reconnect.MaxAttempts
          MaxTrouble,   \* failed spawns, writes, sockets, registrations
          MaxCrashes    \* deaths of worker-manager

managerVars == <<manager, queue, job, agents, file, writers, adopting, reaper, watch, killers, unsaved, lost, events, crashes>>
botVars == <<active, newest>>
vars == <<managerVars, proc, socket, botVars, trouble>>

Unborn == [room |-> None, at |-> "unborn", term |-> FALSE, uuid |-> TRUE, bot |-> FALSE, attempts |-> 0, failed |-> FALSE]
Idle == [at |-> "idle", agent |-> None]

Init == /\ manager = "up" /\ queue = [r \in Rooms |-> <<>>] /\ job = [r \in Rooms |-> Idle]
        /\ agents = [r \in Rooms |-> None] /\ file = [r \in Rooms |-> None] /\ writers = {}
        /\ adopting = {} /\ reaper = [p \in Agents |-> None] /\ watch = [p \in Agents |-> p] /\ killers = {}
        /\ proc = [p \in Agents |-> Unborn] /\ socket = [r \in Rooms |-> None]
        /\ active = [r \in Rooms |-> None] /\ newest = [r \in Rooms |-> None]
        /\ unsaved = FALSE /\ lost = {} /\ events = 0 /\ trouble = 0 /\ crashes = 0

Fails == trouble < MaxTrouble /\ trouble' = trouble + 1
Works == UNCHANGED trouble
Move(p, at) == proc' = [proc EXCEPT ![p].at = at]
--------------------------------------------------------------------------------
(* worker-manager: events, shards, Start and Stop.                              *)

\* handleDispatch and dispatch: an event joins the shard queue of its room. NATS
\* keeps nothing, so an event sent while no manager listens is gone.
Dispatch(r, action) ==
  /\ manager = "up" /\ events < MaxEvents
  /\ events' = events + 1
  /\ queue' = [queue EXCEPT ![r] = Append(@, action)]
  /\ UNCHANGED <<manager, job, agents, file, writers, adopting, reaper, watch, killers, unsaved, lost, crashes, proc, socket, botVars, trouble>>

Next1(r, action) == /\ manager = "up" /\ job[r] = Idle /\ queue[r] # <<>> /\ Head(queue[r]) = action
                    /\ queue' = [queue EXCEPT ![r] = Tail(@)]

\* Start for a room that has an agent, Stop for a room that has none.
Ignored(r) ==
  /\ \/ agents[r] # None /\ Next1(r, "add")
     \/ agents[r] = None /\ Next1(r, "delete")
  /\ UNCHANGED <<manager, job, agents, file, writers, adopting, reaper, watch, killers, unsaved, lost, events, crashes, proc, socket, botVars, trouble>>

\* Start: the process is spawned and entered in the map; the registry is written
\* and the reaper started afterwards.
Start(r) ==
  /\ Next1(r, "add") /\ agents[r] = None
  /\ \/ /\ \E p \in {q \in Agents : proc[q].at = "unborn"} :
             /\ proc' = [proc EXCEPT ![p] = [Unborn EXCEPT !.room = r, !.at = "spawned"]]
             /\ agents' = [agents EXCEPT ![r] = p]
             /\ job' = [job EXCEPT ![r] = [at |-> "started", agent |-> p]]
        /\ Works
     \/ Fails /\ UNCHANGED <<proc, agents, job>>
  /\ UNCHANGED <<manager, file, writers, adopting, reaper, watch, killers, unsaved, lost, events, crashes, socket, botVars>>

\* Stop: the room is free at once; the registry is written before the SIGTERM.
Stop(r) ==
  /\ Next1(r, "delete") /\ agents[r] # None
  /\ agents' = [agents EXCEPT ![r] = None]
  /\ job' = [job EXCEPT ![r] = [at |-> "stopping", agent |-> agents[r]]]
  /\ UNCHANGED <<manager, file, writers, adopting, reaper, watch, killers, unsaved, lost, events, crashes, proc, socket, botVars, trouble>>

\* SIGTERM; killAfterTimeout runs beside it, unless the process is gone already.
Signal(r) ==
  /\ manager = "up" /\ job[r].at = "signal"
  /\ LET p == job[r].agent IN
       IF Alive(p) THEN proc' = [proc EXCEPT ![p].term = TRUE] /\ killers' = killers \cup {p}
       ELSE UNCHANGED <<proc, killers>>
  /\ job' = [job EXCEPT ![r] = Idle]
  /\ UNCHANGED <<manager, queue, agents, file, writers, adopting, reaper, watch, unsaved, lost, events, crashes, socket, botVars, trouble>>

\* SIGKILL after StopTimeout, unless reap has already closed done.
KillAfterTimeout(p) ==
  /\ p \in killers
  /\ killers' = killers \ {p}
  /\ IF reaper[p] = "waiting" /\ Alive(p) THEN Move(p, "gone") ELSE UNCHANGED proc
  /\ UNCHANGED <<manager, queue, job, agents, file, writers, adopting, reaper, watch, unsaved, lost, events, crashes, socket, botVars, trouble>>

OursBroken(p) == TRUE                                       \* mutant: reap deletes whatever agent the room has
Ours(p) == agents[proc[p].room] = p
\* reap: the awaited process is gone; the room is freed if it is still this agent's.
Reap(p) ==
  /\ reaper[p] = "waiting" /\ proc[watch[p]].at = "gone"
  /\ agents' = IF Ours(p) THEN [agents EXCEPT ![proc[p].room] = None] ELSE agents
  /\ reaper' = [reaper EXCEPT ![p] = "reaped"]
  /\ UNCHANGED <<manager, queue, job, file, writers, adopting, watch, killers, unsaved, lost, events, crashes, proc, socket, botVars, trouble>>
--------------------------------------------------------------------------------
(* persistRegistry: persistMu spans the snapshot and the write.                 *)

LockFreeBroken == TRUE                                      \* mutant: the snapshot is taken outside persistMu
LockFree == writers = {}
Snapshot(w) ==
  /\ w \in Pending /\ LockFree /\ \A x \in writers : x.by # w
  /\ writers' = writers \cup {[by |-> w, snap |-> agents]}
  /\ UNCHANGED <<manager, queue, job, agents, file, adopting, reaper, watch, killers, unsaved, lost, events, crashes, proc, socket, botVars, trouble>>

\* What the writer's goroutine goes on with: reap after Start, SIGTERM after Stop.
Persisted(w) ==
  CASE w[1] = "shard" ->
         LET j == job[w[2]] IN
         /\ job' = [job EXCEPT ![w[2]] = IF j.at = "started" THEN Idle ELSE [j EXCEPT !.at = "signal"]]
         /\ reaper' = IF j.at = "started" THEN [reaper EXCEPT ![j.agent] = "waiting"] ELSE reaper
         /\ UNCHANGED manager
    [] w[1] = "reap" -> reaper' = [reaper EXCEPT ![w[2]] = "done"] /\ UNCHANGED <<job, manager>>
    [] w[1] = "reconcile" -> manager' = "up" /\ UNCHANGED <<job, reaper>>

\* The temporary file is renamed over registry.json, or the write fails and the
\* old file stays.
Write(x) ==
  /\ \/ file' = x.snap /\ unsaved' = FALSE /\ Works
     \/ Fails /\ unsaved' = TRUE /\ UNCHANGED file
  /\ Persisted(x.by) /\ writers' = writers \ {x}
  /\ UNCHANGED <<queue, agents, adopting, watch, killers, lost, events, crashes, proc, socket, botVars>>
--------------------------------------------------------------------------------
(* Crash and reconciliation. Agents are in process groups of their own.         *)

Crash ==
  /\ manager # "down" /\ crashes < MaxCrashes
  /\ crashes' = crashes + 1 /\ manager' = "down"
  /\ queue' = [r \in Rooms |-> <<>>] /\ job' = [r \in Rooms |-> Idle] /\ agents' = [r \in Rooms |-> None]
  /\ reaper' = [p \in Agents |-> None] /\ killers' = {} /\ writers' = {} /\ adopting' = {}
  /\ watch' = [p \in Agents |-> p]
  /\ lost' = lost \cup {p \in Agents : Serving(p) /\ file[proc[p].room] # p}
  /\ UNCHANGED <<file, unsaved, events, proc, socket, botVars, trouble>>

Restart ==
  /\ manager = "down"
  /\ manager' = "reconciling" /\ adopting' = {e \in Rooms \X Agents : file[e[1]] = e[2]}
  /\ UNCHANGED <<queue, job, agents, file, writers, reaper, watch, killers, unsaved, lost, events, crashes, proc, socket, botVars, trouble>>

\* tryAdopt: the pid lives and the room's socket answers, whoever owns it.
TryAdopt(r, p) ==
  /\ manager = "reconciling" /\ <<r, p>> \in adopting
  /\ adopting' = adopting \ {<<r, p>>}
  /\ LET q == socket[r] IN
       /\ IF Alive(p) /\ q # None /\ Alive(q)
          THEN /\ agents' = [agents EXCEPT ![r] = p]
               /\ reaper' = [reaper EXCEPT ![p] = "waiting"] /\ watch' = [watch EXCEPT ![p] = q]
          ELSE UNCHANGED <<agents, reaper, watch>>
       /\ lost' = IF q = p THEN lost ELSE lost \cup {p}
  /\ UNCHANGED <<manager, queue, job, file, writers, killers, unsaved, events, crashes, proc, socket, botVars, trouble>>
--------------------------------------------------------------------------------
(* An agent process.                                                            *)

\* agentcontrol.Listen: whatever is at the room's path is removed first.
Listen(p) ==
  /\ proc[p].at = "spawned" /\ Move(p, "listening")
  /\ \/ socket' = [socket EXCEPT ![proc[p].room] = p] /\ Works
     \/ Fails /\ UNCHANGED socket
  /\ UNCHANGED <<managerVars, botVars>>

\* SIGTERM before main has installed its handler.
DiesEarly(p) ==
  /\ proc[p].at = "spawned" /\ proc[p].term /\ Move(p, "gone")
  /\ UNCHANGED <<managerVars, socket, botVars, trouble>>

\* run: the logical room is registered once; without an answer the room's own
\* name stands in for its UUID.
RegisterRoom(p) ==
  /\ proc[p].at = "listening"
  /\ \E ok \in BOOLEAN :
       /\ proc' = [proc EXCEPT ![p].at = "joining", ![p].uuid = ok]
       /\ IF proc[p].term THEN ~ok /\ Works ELSE IF ok THEN Works ELSE Fails
  /\ UNCHANGED <<managerVars, socket, botVars>>

\* The room_id an agent goes by.
RoomId(p) == IF proc[p].uuid THEN p ELSE proc[p].room

\* handleRoomRegister: the last registration of a room wins.
Registers(p) == /\ active' = [active EXCEPT ![proc[p].room] = RoomId(p)]
                /\ newest' = [newest EXCEPT ![proc[p].room] = p]

\* runSession up to Dial: the room is registered with agents-bot; the register
\* call may fail before or after the gateway has acted on it.
RegisterBot(p) ==
  /\ proc[p].at = "joining" /\ ~proc[p].bot /\ ~proc[p].term
  /\ \E done, told \in BOOLEAN :
       /\ IF done THEN Registers(p) ELSE UNCHANGED botVars
       /\ told => done
       /\ IF told THEN Works ELSE Fails
       /\ proc' = [proc EXCEPT ![p].at = "dialing", ![p].bot = told]
  /\ UNCHANGED <<managerVars, socket>>

\* Dial and client.Run: in session, or the dial fails.
Dial(p) ==
  /\ proc[p].at = "dialing" /\ ~proc[p].term
  /\ \E ok \in BOOLEAN : IF ok THEN Works /\ Move(p, "session") ELSE Fails /\ Move(p, "ended")
  /\ UNCHANGED <<managerVars, socket, botVars>>

\* ShouldReconnect: by default, but not after a terminal close or protocol error.
ShouldReconnect(why) == why = "lost"

\* A session ends: a lost connection is retried, a terminal close code or a
\* permanent protocol error is not, and a session that lasted resets the backoff.
SessionEnds(p) ==
  /\ proc[p].at = "session" /\ ~proc[p].term
  /\ Fails
  /\ \E why \in {"lost", "terminal", "permanent"}, stable \in BOOLEAN :
       proc' = [proc EXCEPT ![p].at = "ended", ![p].term = ~ShouldReconnect(why), ![p].failed = why = "permanent",
                            ![p].attempts = IF stable THEN 0 ELSE @]
  /\ UNCHANGED <<managerVars, socket, botVars>>

\* The signal, the lifetime timer or the empty-room timer cancels the context.
Cancelled(p) ==
  /\ proc[p].at \in {"joining", "dialing", "session"}
  /\ proc[p].term \/ trouble < MaxTrouble
  /\ trouble' = IF proc[p].term THEN trouble ELSE trouble + 1
  /\ proc' = [proc EXCEPT ![p].at = "ended", ![p].term = TRUE]
  /\ UNCHANGED <<managerVars, socket, botVars>>

SameRoomBroken(p) == TRUE                                   \* mutant: the gateway does not compare the room_id
SameRoom(p) == active[proc[p].room] = RoomId(p)
\* handleRoomUnregister: an unregister for another room_id is stale and ignored.
Unregisters(p) == active' = IF SameRoom(p) THEN [active EXCEPT ![proc[p].room] = None] ELSE active

\* Backoff.Next has an attempt left and the context is not cancelled.
Again(p) == ~proc[p].term /\ proc[p].attempts < MaxAttempts

\* The deferred calls of runSession: leave the session and unregister from
\* agents-bot. Then run retries, or leaves.
AfterSession(p) ==
  /\ proc[p].at = "ended"
  /\ \/ proc[p].bot /\ Unregisters(p) /\ Works
     \/ proc[p].bot /\ Fails /\ UNCHANGED active
     \/ ~proc[p].bot /\ Works /\ UNCHANGED active
  /\ proc' = [proc EXCEPT ![p].bot = FALSE, ![p].at = IF Again(p) THEN "joining" ELSE "leaving",
                          ![p].attempts = IF Again(p) THEN @ + 1 ELSE @,
                          ![p].failed = @ \/ ~(proc[p].term \/ Again(p))]
  /\ UNCHANGED <<managerVars, socket, newest>>

\* main returns: the listener's Close unlinks the path by name. A run that gave up
\* ends in os.Exit, which runs no deferred call.
Exit(p) ==
  /\ proc[p].at = "leaving" /\ Move(p, "gone")
  /\ socket' = IF proc[p].failed THEN socket ELSE [socket EXCEPT ![proc[p].room] = None]
  /\ UNCHANGED <<managerVars, botVars, trouble>>


\* The gateway restarts with an empty map; nobody registers again before the next
\* session.
GatewayRestarts ==
  /\ Fails /\ active' = [r \in Rooms |-> None] /\ newest' = [r \in Rooms |-> None]
  /\ UNCHANGED <<managerVars, proc, socket>>

Shard(r) == Ignored(r) \/ Start(r) \/ Stop(r) \/ Signal(r)
Process(p) == Listen(p) \/ DiesEarly(p) \/ RegisterRoom(p) \/ RegisterBot(p) \/ Dial(p) \/ SessionEnds(p) \/ Cancelled(p) \/ AfterSession(p) \/ Exit(p)
Next == \/ \E r \in Rooms : Shard(r) \/ \E action \in {"add", "delete"} : Dispatch(r, action)
                                      \/ \E p \in Agents : TryAdopt(r, p)
        \/ \E p \in Agents : Reap(p) \/ KillAfterTimeout(p) \/ Process(p)
        \/ \E w \in Pending : Snapshot(w)
        \/ \E x \in writers : Write(x)
        \/ Crash \/ Restart \/ GatewayRestarts
Spec == Init /\ [][Next]_vars
--------------------------------------------------------------------------------
(* Properties; the others are in FleetState.                                    *)

\* An agent the manager follows can be dialled: "the socket being open from the
\* start means the agent is always reconnectable" (agentcontrol/socket.go:16-18).
\* The code breaks it: an earlier agent of the room, on its way out, unlinks the
\* path of the newer one.
Reconnectable ==
  trouble = 0 => \A r \in Rooms : LET p == agents[r] IN
                   p # None /\ Serving(p) /\ proc[p].at # "spawned" => socket[r] = p
================================================================================
