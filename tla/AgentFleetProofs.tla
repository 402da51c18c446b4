---------------------------- MODULE AgentFleetProofs ----------------------------
(* What TLAPS proves of AgentFleet for every set of rooms and agents and any       *)
(* number of events, attempts, faults and crashes: its type and its three          *)
(* invariants.                                                                     *)
EXTENDS AgentFleet, FiniteSetTheorems, TLAPS
--------------------------------------------------------------------------------
(* Types.                                                                          *)

MaybeAgents == Agents \cup {None}
Jobs == [at : {"idle", "started", "stopping", "signal"}, agent : MaybeAgents]
Registries == [Rooms -> MaybeAgents]
Ats == {"unborn", "spawned", "listening", "joining", "dialing", "session", "ended", "leaving", "gone"}
Procs == [room : Rooms \cup {None}, at : Ats, term : BOOLEAN, uuid : BOOLEAN, bot : BOOLEAN,
          attempts : Nat, failed : BOOLEAN]
\* Who may be writing the registry.
Persisters == {<<"shard", r>> : r \in Rooms} \cup {<<"reap", p>> : p \in Agents} \cup {<<"reconcile">>}

TypeOK ==
  /\ manager \in {"up", "down", "reconciling"} /\ queue \in [Rooms -> Seq({"add", "delete"})]
  /\ job \in [Rooms -> Jobs] /\ agents \in Registries /\ file \in Registries
  /\ writers \in SUBSET [by : Persisters, snap : Registries] /\ adopting \in SUBSET (Rooms \X Agents)
  /\ reaper \in [Agents -> {None, "waiting", "reaped", "done"}] /\ watch \in [Agents -> Agents]
  /\ killers \in SUBSET Agents /\ proc \in [Agents -> Procs] /\ socket \in Registries
  /\ active \in [Rooms -> Agents \cup Rooms \cup {None}] /\ newest \in Registries
  /\ unsaved \in BOOLEAN /\ lost \in SUBSET Agents /\ events \in Nat /\ trouble \in Nat /\ crashes \in Nat
--------------------------------------------------------------------------------
(* Who is where.                                                                   *)

\* Whatever books of room r name agent p.
Booked(r, p) == \/ agents[r] = p \/ file[r] = p \/ <<r, p>> \in adopting
                \/ job[r].agent = p
                \/ \E x \in writers : x.snap[r] = p
\* A spawned agent has a room, and no book of another room names it.
Roomed == /\ \A p \in Agents : proc[p].at # "unborn" => proc[p].room \in Rooms
          /\ \A r \in Rooms, p \in Agents : Booked(r, p) => proc[p].at # "unborn" /\ proc[p].room = r
          /\ \A p \in Agents : reaper[p] # None => proc[p].at # "unborn"

\* Shards work for a manager that is up; a manager that is down knows nothing.
Quiet == /\ manager # "up" => \A r \in Rooms : job[r] = Idle
         /\ manager = "down" => /\ agents = [r \in Rooms |-> None] /\ writers = {}
                                /\ \A p \in Agents : reaper[p] = None
         /\ manager # "reconciling" => adopting = {}

\* A job is about an agent.  Nobody waits yet for one that Start has just spawned, or
\* that Reconcile has still to look at; of these there is one per room, and the room
\* is free.
Fresh == /\ \A r \in Rooms : job[r].at # "idle" => job[r].agent \in Agents
         /\ \A r \in Rooms : job[r].at = "started" => reaper[job[r].agent] = None
         /\ \A r \in Rooms, p \in Agents : <<r, p>> \in adopting =>
              /\ reaper[p] = None /\ agents[r] = None
              /\ \A q \in Agents : <<r, q>> \in adopting => p = q
--------------------------------------------------------------------------------
(* The three invariants, strengthened.                                             *)

\* The one writer's snapshot is current unless somebody else has still to write.
Registry ==
  /\ \A x \in writers : /\ x.by \in Pending
                        /\ \A y \in writers : x = y
                        /\ \/ x.snap = agents
                           \/ \E w \in Pending : w # x.by
                           \/ manager = "reconciling" /\ adopting # {}
  /\ RegistryIsCurrent

\* An agent that serves and that nobody has dismissed or lost is in the books.
Follows(p) == Serving(p) /\ ~Dismissed(p) /\ p \notin lost
Followed ==
  /\ \A p \in Agents : Follows(p) =>
       /\ manager = "up" => agents[proc[p].room] = p
       /\ manager = "reconciling" => agents[proc[p].room] = p \/ <<proc[p].room, p>> \in adopting
       /\ manager = "down" => file[proc[p].room] = p
  /\ \A p \in Agents : watch[p] # p => p \in lost

\* An agent is registered at agents-bot only in a session, under the room_id it keeps.
Chat == /\ \A p \in Agents : proc[p].at \in {"unborn", "spawned", "listening"} => ~proc[p].bot
        /\ ChatForwarded

Inv == TypeOK /\ Roomed /\ Quiet /\ Fresh /\ Registry /\ Followed /\ Chat
--------------------------------------------------------------------------------
(* Agent processes.                                                                *)

\* A process that takes a step keeps its room, was alive, and serves only if it did.
Lives(p) == /\ proc' \in [Agents -> Procs] /\ \A q \in Agents \ {p} : proc'[q] = proc[q]
            /\ Alive(p) /\ proc'[p].at # "unborn" /\ proc'[p].room = proc[p].room
            /\ Serving(p)' => Serving(p)

LEMMA ProcSet ==
  ASSUME TypeOK, NEW p \in Agents, Alive(p), NEW r \in Procs, proc' = [proc EXCEPT ![p] = r],
         r.room = proc[p].room, r.at # "unborn",
         proc[p].term => r.term \/ r.at = "gone", proc[p].at = "leaving" => r.at \in {"leaving", "gone"}
  PROVE  Lives(p)
<1>1. proc \in [Agents -> Procs]
  BY DEF TypeOK
<1>2. proc' \in [Agents -> Procs] /\ proc'[p] = r /\ \A q \in Agents \ {p} : proc'[q] = proc[q]
  BY <1>1
<1>3. Serving(p)' => Serving(p)
  BY <1>2 DEF Serving, Alive
<1> QED
  BY <1>2, <1>3 DEF Lives

\* The same when only its place changes.
LEMMA Moved ==
  ASSUME TypeOK, NEW p \in Agents, Alive(p), NEW at \in Ats \ {"unborn"}, Move(p, at),
         proc[p].at = "leaving" => at = "gone"
  PROVE  /\ Lives(p) /\ proc'[p].at = at /\ proc'[p].bot = proc[p].bot /\ proc'[p].uuid = proc[p].uuid
         /\ proc'[p].term = proc[p].term
<1> DEFINE r == [proc[p] EXCEPT !.at = at]
<1>1. proc[p] \in Procs
  BY DEF TypeOK
<1>2. /\ r \in Procs /\ r.room = proc[p].room /\ r.at = at /\ r.term = proc[p].term
      /\ r.bot = proc[p].bot /\ r.uuid = proc[p].uuid
  BY <1>1 DEF Procs
<1>3. proc' = [proc EXCEPT ![p] = r]
  BY DEF Move, TypeOK
<1> HIDE DEF r
<1>4. Lives(p)
  BY <1>2, <1>3, ProcSet
<1>5. proc'[p] = r
  BY <1>3 DEF TypeOK
<1> QED
  BY <1>2, <1>4, <1>5

LEMMA ProcessLives == ASSUME TypeOK, NEW p \in Agents, Process(p) PROVE Lives(p)
<1>0. proc[p] \in Procs
  BY DEF TypeOK
<1>1. CASE Listen(p) \/ DiesEarly(p) \/ Dial(p) \/ Exit(p)
  <2>1. PICK at \in {"listening", "gone", "session", "ended"} : Move(p, at)
    BY <1>1 DEF Listen, DiesEarly, Dial, Exit
  <2>2. Alive(p) /\ (proc[p].at = "leaving" => at = "gone")
    BY <1>1, <2>1 DEF Listen, DiesEarly, Dial, Exit, Alive, Move, TypeOK, Procs
  <2> QED
    BY <2>1, <2>2, Moved DEF Ats
<1>2. CASE RegisterRoom(p)
  <2>1. PICK ok \in BOOLEAN : proc' = [proc EXCEPT ![p] = [proc[p] EXCEPT !.at = "joining", !.uuid = ok]]
    BY <1>2 DEF RegisterRoom, TypeOK
  <2> DEFINE r == [proc[p] EXCEPT !.at = "joining", !.uuid = ok]
  <2>2. r \in Procs /\ r.room = proc[p].room /\ r.at = "joining" /\ r.term = proc[p].term
    BY <1>0 DEF Procs, Ats
  <2>3. proc' = [proc EXCEPT ![p] = r]
    BY <2>1
  <2>4. Alive(p) /\ proc[p].at # "leaving"
    BY <1>2 DEF RegisterRoom, Alive
  <2> HIDE DEF r
  <2> QED
    BY <2>2, <2>3, <2>4, ProcSet
<1>3. CASE RegisterBot(p)
  <2>1. PICK told \in BOOLEAN : proc' = [proc EXCEPT ![p] = [proc[p] EXCEPT !.at = "dialing", !.bot = told]]
    BY <1>3 DEF RegisterBot, TypeOK
  <2> DEFINE r == [proc[p] EXCEPT !.at = "dialing", !.bot = told]
  <2>2. r \in Procs /\ r.room = proc[p].room /\ r.at = "dialing" /\ r.term = proc[p].term
    BY <1>0 DEF Procs, Ats
  <2>3. proc' = [proc EXCEPT ![p] = r]
    BY <2>1
  <2>4. Alive(p) /\ proc[p].at # "leaving"
    BY <1>3 DEF RegisterBot, Alive
  <2> HIDE DEF r
  <2> QED
    BY <2>2, <2>3, <2>4, ProcSet
<1>4. CASE SessionEnds(p)
  <2>1. PICK t \in BOOLEAN, f \in BOOLEAN, n \in Nat :
          proc' = [proc EXCEPT ![p] = [proc[p] EXCEPT !.at = "ended", !.term = t, !.failed = f, !.attempts = n]]
    <3>1. PICK why \in {"lost", "terminal", "permanent"}, stable \in BOOLEAN :
            proc' = [proc EXCEPT ![p].at = "ended", ![p].term = ~ShouldReconnect(why),
                                 ![p].failed = (why = "permanent"),
                                 ![p].attempts = IF stable THEN 0 ELSE @]
      BY <1>4 DEF SessionEnds
    <3>2. PICK t \in BOOLEAN, f \in BOOLEAN : t = ~ShouldReconnect(why) /\ f = (why = "permanent")
      BY Zenon
    <3>3. proc' = [proc EXCEPT ![p].at = "ended", ![p].term = t, ![p].failed = f,
                               ![p].attempts = IF stable THEN 0 ELSE @]
      BY <3>1, <3>2
    <3>4. PICK n \in Nat : n = IF stable THEN 0 ELSE proc[p].attempts
      BY <1>0 DEF Procs
    <3>5. proc' = [proc EXCEPT ![p] = [proc[p] EXCEPT !.at = "ended", !.term = t, !.failed = f, !.attempts = n]]
      BY <3>3, <3>4 DEF TypeOK
    <3> QED
      BY <3>5
  <2> DEFINE r == [proc[p] EXCEPT !.at = "ended", !.term = t, !.failed = f, !.attempts = n]
  <2>2. r \in Procs /\ r.room = proc[p].room /\ r.at = "ended"
    BY <1>0 DEF Procs, Ats
  <2>3. proc' = [proc EXCEPT ![p] = r]
    BY <2>1
  <2>4. Alive(p) /\ proc[p].at # "leaving" /\ ~proc[p].term
    BY <1>4 DEF SessionEnds, Alive
  <2> HIDE DEF r
  <2> QED
    BY <2>2, <2>3, <2>4, ProcSet
<1>5. CASE Cancelled(p)
  <2> DEFINE r == [proc[p] EXCEPT !.at = "ended", !.term = TRUE]
  <2>1. proc' = [proc EXCEPT ![p] = r]
    BY <1>5 DEF Cancelled, TypeOK
  <2>2. r \in Procs /\ r.room = proc[p].room /\ r.at = "ended" /\ r.term
    BY <1>0 DEF Procs, Ats
  <2>3. Alive(p) /\ proc[p].at # "leaving"
    BY <1>5 DEF Cancelled, Alive
  <2> HIDE DEF r
  <2> QED
    BY <2>1, <2>2, <2>3, ProcSet
<1>6. CASE AfterSession(p)
  <2>0. PICK a \in {"joining", "leaving"}, f \in BOOLEAN, n \in Nat :
          proc' = [proc EXCEPT ![p] = [proc[p] EXCEPT !.bot = FALSE, !.at = a, !.attempts = n, !.failed = f]]
    <3>1. proc' = [proc EXCEPT ![p] = [proc[p] EXCEPT
                     !.bot = FALSE, !.at = IF Again(p) THEN "joining" ELSE "leaving",
                     !.attempts = IF Again(p) THEN @ + 1 ELSE @,
                     !.failed = @ \/ ~(proc[p].term \/ Again(p))]]
      BY <1>6 DEF AfterSession, TypeOK
    <3>2. /\ (IF Again(p) THEN "joining" ELSE "leaving") \in {"joining", "leaving"}
          /\ (IF Again(p) THEN proc[p].attempts + 1 ELSE proc[p].attempts) \in Nat
          /\ (proc[p].failed \/ ~(proc[p].term \/ Again(p))) \in BOOLEAN
      BY <1>0 DEF Procs
    <3> QED
      BY <3>1, <3>2
  <2> DEFINE r == [proc[p] EXCEPT !.bot = FALSE, !.at = a, !.attempts = n, !.failed = f]
  <2>1. proc' = [proc EXCEPT ![p] = r]
    BY <2>0
  <2>2. /\ r \in Procs /\ r.room = proc[p].room /\ r.at \in {"joining", "leaving"}
        /\ r.term = proc[p].term
    BY <1>0 DEF Procs, Ats
  <2>3. Alive(p) /\ proc[p].at # "leaving"
    BY <1>6 DEF AfterSession, Alive
  <2> HIDE DEF r
  <2> QED
    BY <2>1, <2>2, <2>3, ProcSet
<1> QED
  BY <1>1, <1>2, <1>3, <1>4, <1>5, <1>6 DEF Process
\* KillAfterTimeout kills the process or finds it reaped.
LEMMA Killed ==
  ASSUME TypeOK, NEW p \in Agents, KillAfterTimeout(p)
  PROVE  Lives(p) \/ UNCHANGED proc
<1>1. CASE Alive(p) /\ Move(p, "gone")
  BY <1>1, Moved DEF Ats
<1> QED
  BY <1>1 DEF KillAfterTimeout

\* Start spawns a process that has not been one before.
LEMMA Spawned ==
  ASSUME TypeOK, NEW r \in Rooms, Start(r)
  PROVE  \/ /\ \E p \in Agents :
               /\ proc[p].at = "unborn" /\ proc' \in [Agents -> Procs]
               /\ proc'[p] = [Unborn EXCEPT !.room = r, !.at = "spawned"]
               /\ \A q \in Agents \ {p} : proc'[q] = proc[q]
               /\ agents' = [agents EXCEPT ![r] = p]
               /\ job' = [job EXCEPT ![r] = [at |-> "started", agent |-> p]]
            /\ Works
         \/ Fails /\ UNCHANGED <<proc, agents, job>>
<1>1. CASE Fails /\ UNCHANGED <<proc, agents, job>>
  BY <1>1
<1>2. ASSUME NEW p \in Agents, proc[p].at = "unborn", Works,
             proc' = [proc EXCEPT ![p] = [Unborn EXCEPT !.room = r, !.at = "spawned"]],
             agents' = [agents EXCEPT ![r] = p],
             job' = [job EXCEPT ![r] = [at |-> "started", agent |-> p]]
      PROVE  /\ proc' \in [Agents -> Procs]
             /\ proc'[p] = [Unborn EXCEPT !.room = r, !.at = "spawned"]
             /\ \A q \in Agents \ {p} : proc'[q] = proc[q]
  <2> DEFINE s == [Unborn EXCEPT !.room = r, !.at = "spawned"]
  <2>1. s \in Procs
    BY DEF Unborn, Procs, Ats
  <2>2. proc' = [proc EXCEPT ![p] = s]
    BY <1>2
  <2> HIDE DEF s
  <2>3. proc' \in [Agents -> Procs] /\ proc'[p] = s /\ \A q \in Agents \ {p} : proc'[q] = proc[q]
    BY <2>1, <2>2 DEF TypeOK
  <2> QED
    BY <2>3 DEF s
<1> QED
  BY <1>1, <1>2 DEF Start
\* Faults are counted.
LEMMA TroubleType == ASSUME TypeOK PROVE (Fails => trouble' \in Nat) /\ (Works => trouble' \in Nat)
  BY DEF TypeOK, Fails, Works

\* Stop's SIGTERM reaches the process, unless it has gone.
LEMMA Signalled ==
  ASSUME TypeOK, Fresh, NEW r \in Rooms, Signal(r)
  PROVE  /\ killers' \in SUBSET Agents /\ proc' \in [Agents -> Procs]
         /\ job' \in [Rooms -> Jobs] /\ job'[r] = Idle /\ \A s \in Rooms \ {r} : job'[s] = job[s]
         /\ \A p \in Agents :
              /\ proc'[p].at = proc[p].at /\ proc'[p].room = proc[p].room /\ proc'[p].bot = proc[p].bot
              /\ proc'[p].uuid = proc[p].uuid /\ (Serving(p)' => Serving(p))
              /\ p = job[r].agent => ~Serving(p)'
<1>0. Idle \in Jobs
  BY DEF Idle, Jobs, MaybeAgents
<1>1. job' \in [Rooms -> Jobs] /\ job'[r] = Idle /\ \A s \in Rooms \ {r} : job'[s] = job[s]
  BY <1>0 DEF Signal, TypeOK
<1>2. CASE UNCHANGED <<proc, killers>> /\ ~Alive(job[r].agent)
  <2>1. \A p \in Agents : Serving(p)' <=> Serving(p)
    BY <1>2 DEF Serving, Alive
  <2>2. \A p \in Agents : p = job[r].agent => ~Serving(p)
    BY <1>2 DEF Serving
  <2> QED
    BY <1>1, <1>2, <2>1, <2>2 DEF TypeOK
<1>3. ASSUME NEW a \in Agents, a = job[r].agent, proc' = [proc EXCEPT ![a].term = TRUE],
             killers' = killers \cup {a}
      PROVE  /\ killers' \in SUBSET Agents /\ proc' \in [Agents -> Procs]
             /\ \A p \in Agents :
                  /\ proc'[p].at = proc[p].at /\ proc'[p].room = proc[p].room /\ proc'[p].bot = proc[p].bot
                  /\ proc'[p].uuid = proc[p].uuid /\ (Serving(p)' => Serving(p))
                  /\ p = job[r].agent => ~Serving(p)'
  <2> DEFINE s == [proc[a] EXCEPT !.term = TRUE]
  <2>1. proc[a] \in Procs
    BY DEF TypeOK
  <2>2. /\ s \in Procs /\ s.term /\ s.at = proc[a].at /\ s.room = proc[a].room
        /\ s.bot = proc[a].bot /\ s.uuid = proc[a].uuid
    BY <2>1 DEF Procs
  <2>3. proc' = [proc EXCEPT ![a] = s]
    BY <1>3 DEF TypeOK
  <2> HIDE DEF s
  <2>4. proc' \in [Agents -> Procs] /\ proc'[a] = s /\ \A q \in Agents \ {a} : proc'[q] = proc[q]
    BY <2>2, <2>3 DEF TypeOK
  <2>5. ~Serving(a)' /\ \A q \in Agents \ {a} : Serving(q)' => Serving(q)
    BY <2>2, <2>4 DEF Serving, Alive
  <2>6. killers' \in SUBSET Agents
    BY <1>3 DEF TypeOK
  <2> QED
    BY <1>3, <2>2, <2>4, <2>5, <2>6
<1>4. job[r].agent \in Agents
  BY DEF Signal, Fresh
<1> QED
  BY <1>1, <1>2, <1>3, <1>4 DEF Signal

\* What a process does to the books of others.
LEMMA ProcessOutside ==
  ASSUME TypeOK, NEW p \in Agents, Process(p)
  PROVE  /\ UNCHANGED managerVars /\ trouble' \in Nat /\ socket' \in Registries
         /\ active' \in [Rooms -> Agents \cup Rooms \cup {None}] /\ newest' \in Registries
<1>1. UNCHANGED managerVars
  BY DEF Process, Listen, DiesEarly, RegisterRoom, RegisterBot, Dial, SessionEnds, Cancelled, AfterSession, Exit
<1>2. trouble' \in Nat
  BY TroubleType DEF Process, Listen, DiesEarly, RegisterRoom, RegisterBot, Dial, SessionEnds, Cancelled,
     AfterSession, Exit, Works, Fails, TypeOK
<1>3. socket' \in Registries
  BY DEF Process, Listen, DiesEarly, RegisterRoom, RegisterBot, Dial, SessionEnds, Cancelled,
     AfterSession, Exit, TypeOK, Registries, MaybeAgents
<1>4. RoomId(p) \in Agents \cup Rooms \cup {None}
  BY DEF RoomId, TypeOK, Procs
<1>5. active' \in [Rooms -> Agents \cup Rooms \cup {None}] /\ newest' \in Registries
  <2>1. Registers(p) \/ (Unregisters(p) /\ UNCHANGED newest) \/ UNCHANGED <<active, newest>>
    BY DEF Process, Listen, DiesEarly, RegisterRoom, RegisterBot, Dial, SessionEnds, Cancelled,
       AfterSession, Exit, botVars
  <2>2. CASE Registers(p)
    BY <1>4, <2>2 DEF Registers, TypeOK, Registries, MaybeAgents
  <2>3. CASE Unregisters(p) /\ UNCHANGED newest
    BY <2>3 DEF Unregisters, TypeOK
  <2> QED
    BY <2>1, <2>2, <2>3 DEF TypeOK
<1> QED
  BY <1>1, <1>2, <1>3, <1>5

\* A writer's goroutine goes on: after Start it reaps, after Stop it signals.
LEMMA Persists ==
  ASSUME TypeOK, NEW x \in writers, Write(x)
  PROVE  /\ job' \in [Rooms -> Jobs] /\ manager' \in {"up", "down", "reconciling"}
         /\ reaper' \in [Agents -> {None, "waiting", "reaped", "done"}]
         /\ \/ \E r \in Rooms : /\ x.by = <<"shard", r>> /\ UNCHANGED manager
                                /\ \A s \in Rooms \ {r} : job'[s] = job[s]
                                /\ job[r].at = "started" => /\ job'[r] = Idle
                                                            /\ reaper' = [reaper EXCEPT ![job[r].agent] = "waiting"]
                                /\ job[r].at # "started" => /\ job'[r] = [job[r] EXCEPT !.at = "signal"]
                                                            /\ UNCHANGED reaper
            \/ \E p \in Agents : /\ x.by = <<"reap", p>> /\ UNCHANGED <<job, manager>>
                                 /\ reaper' = [reaper EXCEPT ![p] = "done"]
            \/ x.by = <<"reconcile">> /\ manager' = "up" /\ UNCHANGED <<job, reaper>>
<1>0. x.by \in Persisters /\ Idle \in Jobs
  BY DEF TypeOK, Idle, Jobs, MaybeAgents
<1>1. ASSUME NEW r \in Rooms, x.by = <<"shard", r>>
      PROVE  /\ job' \in [Rooms -> Jobs] /\ UNCHANGED manager
             /\ reaper' \in [Agents -> {None, "waiting", "reaped", "done"}]
             /\ \A s \in Rooms \ {r} : job'[s] = job[s]
             /\ job[r].at = "started" => /\ job'[r] = Idle
                                         /\ reaper' = [reaper EXCEPT ![job[r].agent] = "waiting"]
             /\ job[r].at # "started" => /\ job'[r] = [job[r] EXCEPT !.at = "signal"]
                                         /\ UNCHANGED reaper
  <2>1. /\ job' = [job EXCEPT ![r] = IF job[r].at = "started" THEN Idle ELSE [job[r] EXCEPT !.at = "signal"]]
        /\ reaper' = IF job[r].at = "started" THEN [reaper EXCEPT ![job[r].agent] = "waiting"] ELSE reaper
        /\ UNCHANGED manager
    <3>1. x.by[1] = "shard" /\ x.by[2] = r /\ Persisted(x.by)
      BY <1>1 DEF Write
    <3> QED
      BY <3>1 DEF Persisted
  <2>2. job[r] \in Jobs /\ [job[r] EXCEPT !.at = "signal"] \in Jobs
    BY DEF TypeOK, Jobs
  <2> QED
    BY <1>0, <2>1, <2>2 DEF TypeOK
<1>2. ASSUME NEW p \in Agents, x.by = <<"reap", p>>
      PROVE  /\ reaper' = [reaper EXCEPT ![p] = "done"] /\ UNCHANGED <<job, manager>>
             /\ reaper' \in [Agents -> {None, "waiting", "reaped", "done"}]
  BY <1>2 DEF Write, Persisted, TypeOK
<1>3. ASSUME x.by = <<"reconcile">> PROVE manager' = "up" /\ UNCHANGED <<job, reaper>>
  BY <1>3 DEF Write, Persisted
<1>4. /\ job \in [Rooms -> Jobs] /\ manager \in {"up", "down", "reconciling"}
      /\ reaper \in [Agents -> {None, "waiting", "reaped", "done"}]
  BY DEF TypeOK
<1>5. CASE \E r \in Rooms : x.by = <<"shard", r>>
  BY <1>1, <1>4, <1>5
<1>6. CASE \E p \in Agents : x.by = <<"reap", p>>
  BY <1>2, <1>4, <1>6
<1>7. CASE x.by = <<"reconcile">>
  BY <1>3, <1>4, <1>7
<1> QED
  BY <1>0, <1>5, <1>6, <1>7 DEF Persisters
--------------------------------------------------------------------------------
(* Types.                                                                          *)

LEMMA PendingType == ASSUME TypeOK PROVE Pending \subseteq Persisters
  BY DEF Pending, Persisters

LEMMA QueueType == ASSUME TypeOK, NEW r \in Rooms, NEW action, Next1(r, action)
                   PROVE  queue' \in [Rooms -> Seq({"add", "delete"})]
<1>1. queue[r] \in Seq({"add", "delete"}) /\ queue[r] # <<>>
  BY DEF Next1, TypeOK
<1>2. Tail(queue[r]) \in Seq({"add", "delete"})
  BY <1>1
<1>3. queue' = [queue EXCEPT ![r] = Tail(queue[r])]
  BY DEF Next1, TypeOK
<1> QED
  BY <1>2, <1>3 DEF TypeOK

\* Every step keeps every variable's type.
LEMMA TypeStep == TypeOK /\ Fresh /\ [Next]_vars => TypeOK'
<1> SUFFICES ASSUME TypeOK, Fresh, [Next]_vars PROVE TypeOK'
  OBVIOUS
<1>0. Idle \in Jobs /\ None \in MaybeAgents /\ Agents \subseteq MaybeAgents
  BY DEF Idle, Jobs, MaybeAgents
<1>1. CASE UNCHANGED vars
  BY <1>1 DEF vars, managerVars, botVars, TypeOK
<1>2. ASSUME NEW r \in Rooms, NEW action \in {"add", "delete"}, Dispatch(r, action) PROVE TypeOK'
  <2>1. Append(queue[r], action) \in Seq({"add", "delete"})
    BY DEF TypeOK
  <2>2. queue' = [queue EXCEPT ![r] = Append(queue[r], action)]
    BY <1>2 DEF Dispatch, TypeOK
  <2>3. queue' \in [Rooms -> Seq({"add", "delete"})]
    BY <2>1, <2>2 DEF TypeOK
  <2>4. events' \in Nat
    BY <1>2 DEF Dispatch, TypeOK
  <2> QED
    BY <1>2, <2>3, <2>4 DEF Dispatch, botVars, TypeOK
<1>3. ASSUME NEW r \in Rooms, Ignored(r) PROVE TypeOK'
  <2>1. queue' \in [Rooms -> Seq({"add", "delete"})]
    BY <1>3, QueueType DEF Ignored
  <2> QED
    BY <1>3, <2>1 DEF Ignored, botVars, TypeOK
<1>4. ASSUME NEW r \in Rooms, Start(r) PROVE TypeOK'
  <2>1. queue' \in [Rooms -> Seq({"add", "delete"})] /\ trouble' \in Nat
    BY <1>4, QueueType, TroubleType DEF Start
  <2>2. proc' \in [Agents -> Procs]
    BY <1>4, Spawned DEF TypeOK
  <2>3. ASSUME NEW p \in Agents, agents' = [agents EXCEPT ![r] = p],
               job' = [job EXCEPT ![r] = [at |-> "started", agent |-> p]]
        PROVE  agents' \in Registries /\ job' \in [Rooms -> Jobs]
    <3>1. [at |-> "started", agent |-> p] \in Jobs
      BY <1>0 DEF Jobs
    <3> QED
      BY <1>0, <2>3, <3>1 DEF TypeOK, Registries
  <2>4. agents' \in Registries /\ job' \in [Rooms -> Jobs]
    BY <1>4, <2>3, Spawned DEF TypeOK
  <2> QED
    BY <1>4, <2>1, <2>2, <2>4 DEF Start, botVars, TypeOK
<1>5. ASSUME NEW r \in Rooms, Stop(r) PROVE TypeOK'
  <2>1. queue' \in [Rooms -> Seq({"add", "delete"})]
    BY <1>5, QueueType DEF Stop
  <2>2. [at |-> "stopping", agent |-> agents[r]] \in Jobs
    BY DEF Jobs, TypeOK, Registries
  <2>3. agents' \in Registries /\ job' \in [Rooms -> Jobs]
    BY <1>0, <1>5, <2>2 DEF Stop, TypeOK, Registries
  <2> QED
    BY <1>5, <2>1, <2>3 DEF Stop, botVars, TypeOK
<1>6. ASSUME NEW r \in Rooms, Signal(r) PROVE TypeOK'
  <2>1. killers' \in SUBSET Agents /\ proc' \in [Agents -> Procs] /\ job' \in [Rooms -> Jobs]
    BY <1>0, <1>6, Signalled
  <2> QED
    BY <1>6, <2>1 DEF Signal, botVars, TypeOK
<1>7. ASSUME NEW p \in Agents, KillAfterTimeout(p) PROVE TypeOK'
  <2>1. proc' \in [Agents -> Procs]
    BY <1>7, Killed DEF Lives, TypeOK
  <2> QED
    BY <1>7, <2>1 DEF KillAfterTimeout, botVars, TypeOK
<1>8. ASSUME NEW p \in Agents, Reap(p) PROVE TypeOK'
  <2>1. agents' \in Registries /\ reaper' \in [Agents -> {None, "waiting", "reaped", "done"}]
    BY <1>0, <1>8 DEF Reap, TypeOK, Registries
  <2> QED
    BY <1>8, <2>1 DEF Reap, botVars, TypeOK
<1>9. ASSUME NEW w \in Pending, Snapshot(w) PROVE TypeOK'
  <2>1. [by |-> w, snap |-> agents] \in [by : Persisters, snap : Registries]
    BY PendingType DEF TypeOK
  <2>2. writers' \in SUBSET [by : Persisters, snap : Registries]
    BY <1>9, <2>1 DEF Snapshot, TypeOK
  <2> QED
    BY <1>9, <2>2 DEF Snapshot, botVars, TypeOK
<1>10. ASSUME NEW x \in writers, Write(x) PROVE TypeOK'
  <2>1. x.snap \in Registries /\ x.by \in Persisters
    BY DEF TypeOK
  <2>2. file' \in Registries /\ unsaved' \in BOOLEAN /\ trouble' \in Nat
    BY <1>10, <2>1, TroubleType DEF Write, TypeOK
  <2>3. /\ job' \in [Rooms -> Jobs] /\ manager' \in {"up", "down", "reconciling"}
        /\ reaper' \in [Agents -> {None, "waiting", "reaped", "done"}]
    BY <1>0, <1>10, Persists
  <2>4. writers' \in SUBSET [by : Persisters, snap : Registries]
    BY <1>10 DEF Write, TypeOK
  <2> QED
    BY <1>10, <2>2, <2>3, <2>4 DEF Write, botVars, TypeOK
<1>11. CASE Crash
  <2>1. <<>> \in Seq({"add", "delete"})
    OBVIOUS
  <2>2. /\ queue' \in [Rooms -> Seq({"add", "delete"})] /\ job' \in [Rooms -> Jobs]
        /\ agents' \in Registries /\ reaper' \in [Agents -> {None, "waiting", "reaped", "done"}]
        /\ watch' \in [Agents -> Agents] /\ lost' \in SUBSET Agents /\ crashes' \in Nat
    BY <1>0, <1>11, <2>1 DEF Crash, TypeOK, Registries
  <2> QED
    BY <1>11, <2>2 DEF Crash, botVars, TypeOK
<1>12. CASE Restart
  BY <1>12 DEF Restart, botVars, TypeOK
<1>13. ASSUME NEW r \in Rooms, NEW p \in Agents, TryAdopt(r, p) PROVE TypeOK'
  <2>1. socket[r] \in MaybeAgents
    BY DEF TypeOK, Registries
  <2>2. /\ agents' \in Registries /\ reaper' \in [Agents -> {None, "waiting", "reaped", "done"}]
        /\ watch' \in [Agents -> Agents] /\ lost' \in SUBSET Agents
    BY <1>0, <1>13, <2>1 DEF TryAdopt, TypeOK, Registries, MaybeAgents
  <2> QED
    BY <1>13, <2>2 DEF TryAdopt, botVars, TypeOK
<1>14. ASSUME NEW p \in Agents, Process(p) PROVE TypeOK'
  <2>1. proc' \in [Agents -> Procs]
    BY <1>14, ProcessLives DEF Lives
  <2>2. UNCHANGED managerVars /\ trouble' \in Nat /\ socket' \in Registries
    BY <1>14, ProcessOutside
  <2>3. active' \in [Rooms -> Agents \cup Rooms \cup {None}] /\ newest' \in Registries
    BY <1>14, ProcessOutside
  <2> QED
    BY <2>1, <2>2, <2>3 DEF managerVars, TypeOK
<1>15. CASE GatewayRestarts
  <2>1. trouble' \in Nat
    BY <1>15, TroubleType DEF GatewayRestarts
  <2>2. active' \in [Rooms -> Agents \cup Rooms \cup {None}] /\ newest' \in Registries
    BY <1>0, <1>15 DEF GatewayRestarts, Registries
  <2> QED
    BY <1>15, <2>1, <2>2 DEF GatewayRestarts, managerVars, TypeOK
<1> QED
  BY <1>1, <1>2, <1>3, <1>4, <1>5, <1>6, <1>7, <1>8, <1>9, <1>10, <1>11, <1>12, <1>13, <1>14, <1>15
     DEF Next, Shard
--------------------------------------------------------------------------------
(* The books.                                                                      *)

\* Who is about to write, case by case.
LEMMA PendingMeans ==
  /\ \A r \in Rooms : <<"shard", r>> \in Pending <=> job[r].at \in {"started", "stopping"}
  /\ \A p \in Agents : <<"reap", p>> \in Pending <=> reaper[p] = "reaped"
  /\ <<"reconcile">> \in Pending <=> manager = "reconciling" /\ adopting = {}
<1>1. /\ \A r, p : <<"shard", r>> # <<"reap", p>>
      /\ \A r : <<"shard", r>> # <<"reconcile">> /\ <<"reap", r>> # <<"reconcile">>
      /\ \A r, s : <<"shard", r>> = <<"shard", s>> => r = s
      /\ \A r, s : <<"reap", r>> = <<"reap", s>> => r = s
  OBVIOUS
<1> QED
  BY <1>1 DEF Pending

\* Roomed is kept by a step that leaves every spawned agent in its room and books none
\* but spawned ones under theirs.
LEMMA RoomsKept ==
  ASSUME Roomed,
         \A p \in Agents : proc[p].at # "unborn" => proc'[p].at # "unborn" /\ proc'[p].room = proc[p].room,
         \A p \in Agents : proc'[p].at # "unborn" => proc[p].at # "unborn" \/ proc'[p].room \in Rooms,
         \A r \in Rooms, p \in Agents :
           Booked(r, p)' => Booked(r, p) \/ (proc'[p].at # "unborn" /\ proc'[p].room = r),
         \A p \in Agents : reaper'[p] # None => reaper[p] # None \/ proc[p].at # "unborn"
  PROVE  Roomed'
  BY DEF Roomed

\* A process step leaves every book alone, and everybody in their room.
LEMMA RoomsLived ==
  ASSUME TypeOK, Roomed, NEW p \in Agents, Lives(p) \/ UNCHANGED proc
  PROVE  /\ \A q \in Agents : proc[q].at # "unborn" => proc'[q].at # "unborn" /\ proc'[q].room = proc[q].room
         /\ \A q \in Agents : proc'[q].at # "unborn" => proc[q].at # "unborn"
         /\ \A q \in Agents : Serving(q)' => Serving(q)
<1>1. CASE Lives(p)
  BY <1>1 DEF Lives, Serving, Alive
<1>2. CASE UNCHANGED proc
  BY <1>2 DEF Serving, Alive
<1> QED
  BY <1>1, <1>2

\* Every step keeps agents in their rooms.
LEMMA RoomedStep == Inv /\ [Next]_vars => Roomed'
<1> SUFFICES ASSUME Inv, [Next]_vars PROVE Roomed'
  OBVIOUS
<1> USE DEF Inv
<1>0. TypeOK /\ Roomed /\ None \notin Agents
  BY NamesAssumption
<1>a. ASSUME UNCHANGED <<agents, file, adopting, job, writers, reaper>>,
             NEW p \in Agents, Lives(p) \/ UNCHANGED proc
      PROVE  Roomed'
  <2>1. \A r \in Rooms, q \in Agents : Booked(r, q)' => Booked(r, q)
    BY <1>a DEF Booked
  <2> QED
    BY <1>0, <1>a, <2>1, RoomsLived, RoomsKept
<1>b. ASSUME UNCHANGED <<agents, file, adopting, job, writers, reaper, proc>> PROVE Roomed'
  <2>1. \A r \in Rooms, q \in Agents : Booked(r, q)' => Booked(r, q)
    BY <1>b DEF Booked
  <2> QED
    BY <1>b, <2>1, RoomsKept
<1>1. CASE UNCHANGED vars
  BY <1>1, <1>b DEF vars, managerVars
<1>2. ASSUME NEW r \in Rooms, NEW action \in {"add", "delete"}, Dispatch(r, action) \/ Ignored(r) PROVE Roomed'
  BY <1>2, <1>b DEF Dispatch, Ignored
<1>3. ASSUME NEW p \in Agents, Process(p) PROVE Roomed'
  <2>1. Lives(p) /\ UNCHANGED managerVars
    BY <1>3, ProcessLives, ProcessOutside
  <2> QED
    BY <1>a, <2>1 DEF managerVars
<1>4. ASSUME NEW p \in Agents, KillAfterTimeout(p) PROVE Roomed'
  BY <1>4, <1>a, Killed DEF KillAfterTimeout
<1>5. CASE GatewayRestarts
  BY <1>5, <1>b DEF GatewayRestarts, managerVars
<1>6. ASSUME NEW r \in Rooms, Start(r) PROVE Roomed'
  <2>0. UNCHANGED <<file, adopting, writers, reaper>>
    BY <1>6 DEF Start
  <2>1. CASE UNCHANGED <<proc, agents, job>>
    BY <1>b, <2>0, <2>1
  <2>2. ASSUME NEW p \in Agents, proc[p].at = "unborn",
               proc'[p] = [Unborn EXCEPT !.room = r, !.at = "spawned"],
               \A q \in Agents \ {p} : proc'[q] = proc[q],
               agents' = [agents EXCEPT ![r] = p],
               job' = [job EXCEPT ![r] = [at |-> "started", agent |-> p]]
        PROVE  Roomed'
    <3>1. proc'[p].room = r /\ proc'[p].at = "spawned"
      BY <2>2 DEF Unborn
    <3>2. \A s \in Rooms, q \in Agents : Booked(s, q)' => Booked(s, q) \/ (s = r /\ q = p)
      BY <2>0, <2>2 DEF Booked, TypeOK, Registries
    <3> QED
      BY <2>0, <2>2, <3>1, <3>2, RoomsKept
  <2> QED
    BY <1>6, <2>1, <2>2, Spawned
<1>7. ASSUME NEW r \in Rooms, Stop(r) PROVE Roomed'
  <2>1. \A s \in Rooms, q \in Agents : Booked(s, q)' => Booked(s, q)
    BY <1>0, <1>7 DEF Stop, Booked, TypeOK, Registries
  <2> QED
    BY <1>7, <2>1, RoomsKept DEF Stop
<1>8. ASSUME NEW r \in Rooms, Signal(r) PROVE Roomed'
  <2>1. /\ job'[r] = Idle /\ \A s \in Rooms \ {r} : job'[s] = job[s]
        /\ \A q \in Agents : proc'[q].at = proc[q].at /\ proc'[q].room = proc[q].room
    BY <1>8, Signalled
  <2>2. UNCHANGED <<agents, file, adopting, writers, reaper>>
    BY <1>8 DEF Signal
  <2>3. \A s \in Rooms, q \in Agents : Booked(s, q)' => Booked(s, q)
    BY <1>0, <2>1, <2>2 DEF Booked, Idle
  <2> QED
    BY <2>1, <2>2, <2>3, RoomsKept
<1>9. ASSUME NEW p \in Agents, Reap(p) PROVE Roomed'
  <2>1. \A s \in Rooms, q \in Agents : Booked(s, q)' => Booked(s, q)
    BY <1>0, <1>9 DEF Reap, Booked, TypeOK, Registries
  <2>2. \A q \in Agents : reaper'[q] # None => reaper[q] # None
    BY <1>9, NamesAssumption DEF Reap, TypeOK
  <2> QED
    BY <1>9, <2>1, <2>2, RoomsKept DEF Reap
<1>10. ASSUME NEW w \in Pending, Snapshot(w) PROVE Roomed'
  <2>1. \A s \in Rooms, q \in Agents : Booked(s, q)' => Booked(s, q)
    BY <1>10 DEF Snapshot, Booked
  <2> QED
    BY <1>10, <2>1, RoomsKept DEF Snapshot
<1>11. ASSUME NEW x \in writers, Write(x) PROVE Roomed'
  <2>1. \A s \in Rooms : job'[s].agent \in {job[s].agent, None}
    <3>1. CASE UNCHANGED job
      BY <3>1
    <3>2. ASSUME NEW r \in Rooms, \A s \in Rooms \ {r} : job'[s] = job[s],
                 job'[r] = Idle \/ job'[r] = [job[r] EXCEPT !.at = "signal"]
          PROVE  \A s \in Rooms : job'[s].agent \in {job[s].agent, None}
      <4>1. job[r] \in Jobs
        BY DEF TypeOK
      <4> QED
        BY <3>2, <4>1 DEF Idle, Jobs
    <3> QED
      BY <1>11, <3>1, <3>2, Persists
  <2>2. file' \in {file, x.snap} /\ writers' \subseteq writers /\ UNCHANGED <<agents, adopting, proc>>
    BY <1>11 DEF Write
  <2>3. \A s \in Rooms, q \in Agents : Booked(s, q)' => Booked(s, q)
    BY <1>0, <2>1, <2>2 DEF Booked
  <2>4. ASSUME NEW q \in Agents, reaper'[q] # None PROVE reaper[q] # None \/ proc[q].at # "unborn"
    <3>1. CASE reaper'[q] = reaper[q]
      BY <2>4, <3>1
    <3>2. ASSUME NEW r \in Rooms, job[r].agent = q PROVE proc[q].at # "unborn"
      BY <3>2 DEF Roomed, Booked
    <3>3. ASSUME x.by = <<"reap", q>> PROVE reaper[q] # None
      BY <3>3, PendingMeans, NamesAssumption DEF Registry
    <3> QED
      BY <1>11, <3>1, <3>2, <3>3, Persists DEF TypeOK
  <2> QED
    BY <2>2, <2>3, <2>4, RoomsKept
<1>12. CASE Crash
  <2>1. \A s \in Rooms, q \in Agents : Booked(s, q)' => Booked(s, q)
    BY <1>0, <1>12 DEF Crash, Booked, Idle
  <2> QED
    BY <1>12, <2>1, RoomsKept DEF Crash
<1>13. CASE Restart
  <2>1. \A s \in Rooms, q \in Agents : Booked(s, q)' => Booked(s, q)
    BY <1>13 DEF Restart, Booked
  <2> QED
    BY <1>13, <2>1, RoomsKept DEF Restart
<1>14. ASSUME NEW r \in Rooms, NEW p \in Agents, TryAdopt(r, p) PROVE Roomed'
  <2>1. Booked(r, p) /\ UNCHANGED <<file, job, writers, proc>> /\ adopting' \subseteq adopting
    BY <1>14 DEF TryAdopt, Booked
  <2>2. /\ \A s \in Rooms : agents'[s] = agents[s] \/ (s = r /\ agents'[s] = p)
        /\ \A q \in Agents : reaper'[q] = reaper[q] \/ q = p
    BY <1>14 DEF TryAdopt, TypeOK, Registries
  <2>3. \A s \in Rooms, q \in Agents : Booked(s, q)' => Booked(s, q)
    BY <2>1, <2>2 DEF Booked
  <2>4. proc[p].at # "unborn"
    BY <2>1 DEF Roomed
  <2> QED
    BY <2>1, <2>2, <2>3, <2>4, RoomsKept
<1> QED
  BY <1>1, <1>2, <1>3, <1>4, <1>5, <1>6, <1>7, <1>8, <1>9, <1>10, <1>11, <1>12, <1>13, <1>14
     DEF Next, Shard

\* Every step keeps the manager's books in order.
LEMMA BooksStep == Inv /\ [Next]_vars => Quiet' /\ Fresh'
<1> SUFFICES ASSUME Inv, [Next]_vars PROVE Quiet' /\ Fresh'
  OBVIOUS
<1> USE DEF Inv
<1>0. None \notin Agents /\ None \notin {"waiting", "reaped", "done"}
  BY NamesAssumption
<1>a. ASSUME UNCHANGED <<manager, agents, adopting, job, writers, reaper>> PROVE Quiet' /\ Fresh'
  BY <1>a DEF Quiet, Fresh
<1>b. ASSUME NEW r \in Rooms, NEW s \in Rooms, NEW p \in Agents, Booked(r, p), Booked(s, p) PROVE r = s
  BY <1>b DEF Roomed
<1>c. \A r \in Rooms : job[r].at # "idle" => manager = "up" /\ adopting = {}
  BY DEF Quiet, Idle
<1>1. CASE UNCHANGED vars
  BY <1>1, <1>a DEF vars, managerVars
<1>2. ASSUME NEW r \in Rooms, NEW action \in {"add", "delete"}, Dispatch(r, action) \/ Ignored(r)
      PROVE  Quiet' /\ Fresh'
  BY <1>2, <1>a DEF Dispatch, Ignored
<1>3. ASSUME NEW p \in Agents, Process(p) PROVE Quiet' /\ Fresh'
  BY <1>3, <1>a, ProcessOutside DEF managerVars
<1>4. ASSUME NEW p \in Agents, KillAfterTimeout(p) PROVE Quiet' /\ Fresh'
  BY <1>4, <1>a DEF KillAfterTimeout
<1>5. CASE GatewayRestarts
  BY <1>5, <1>a DEF GatewayRestarts, managerVars
<1>6. ASSUME NEW r \in Rooms, Start(r) PROVE Quiet' /\ Fresh'
  <2>1. manager = "up" /\ adopting = {} /\ UNCHANGED <<manager, adopting, writers, reaper>>
    BY <1>6 DEF Start, Next1, Quiet
  <2>2. CASE UNCHANGED <<agents, job>>
    BY <1>a, <2>1, <2>2
  <2>3. ASSUME NEW p \in Agents, proc[p].at = "unborn",
               job' = [job EXCEPT ![r] = [at |-> "started", agent |-> p]]
        PROVE  Quiet' /\ Fresh'
    <3>1. reaper[p] = None
      BY <2>3 DEF Roomed
    <3>2. job'[r].at = "started" /\ job'[r].agent = p /\ \A s \in Rooms \ {r} : job'[s] = job[s]
      BY <2>3 DEF TypeOK
    <3> QED
      BY <2>1, <3>1, <3>2 DEF Quiet, Fresh
  <2> QED
    BY <1>6, <2>2, <2>3, Spawned
<1>7. ASSUME NEW r \in Rooms, Stop(r) PROVE Quiet' /\ Fresh'
  <2>1. manager = "up" /\ adopting = {} /\ UNCHANGED <<manager, adopting, writers, reaper>>
    BY <1>7 DEF Stop, Next1, Quiet
  <2>2. /\ job'[r].at = "stopping" /\ job'[r].agent = agents[r] /\ agents[r] \in Agents
        /\ \A s \in Rooms \ {r} : job'[s] = job[s]
    BY <1>7 DEF Stop, TypeOK, Registries, MaybeAgents
  <2> QED
    BY <2>1, <2>2 DEF Quiet, Fresh
<1>8. ASSUME NEW r \in Rooms, Signal(r) PROVE Quiet' /\ Fresh'
  <2>1. job'[r] = Idle /\ \A s \in Rooms \ {r} : job'[s] = job[s]
    BY <1>8, Signalled
  <2>2. manager = "up" /\ UNCHANGED <<manager, agents, adopting, writers, reaper>>
    BY <1>8 DEF Signal
  <2> QED
    BY <2>1, <2>2 DEF Quiet, Fresh, Idle
<1>9. ASSUME NEW p \in Agents, Reap(p) PROVE Quiet' /\ Fresh'
  <2>1. /\ reaper[p] = "waiting" /\ UNCHANGED <<manager, job, adopting, writers>>
        /\ \A q \in Agents \ {p} : reaper'[q] = reaper[q]
        /\ \A r \in Rooms : agents'[r] \in {agents[r], None}
    BY <1>9 DEF Reap, TypeOK, Registries
  <2>2. manager # "down"
    BY <1>0, <2>1 DEF Quiet
  <2> QED
    BY <1>0, <2>1, <2>2 DEF Quiet, Fresh
<1>10. ASSUME NEW w \in Pending, Snapshot(w) PROVE Quiet' /\ Fresh'
  <2>1. manager # "down"
    BY <1>0 DEF Pending, Quiet, Idle
  <2> QED
    BY <1>10, <2>1 DEF Snapshot, Quiet, Fresh
<1>11. ASSUME NEW x \in writers, Write(x) PROVE Quiet' /\ Fresh'
  <2>1. x.by \in Pending /\ manager # "down"
    BY DEF Registry, Quiet
  <2>2. UNCHANGED <<agents, adopting>>
    BY <1>11 DEF Write
  <2>3. ASSUME NEW r \in Rooms, x.by = <<"shard", r>>, UNCHANGED manager,
               \A s \in Rooms \ {r} : job'[s] = job[s],
               job[r].at = "started", job'[r] = Idle, reaper' = [reaper EXCEPT ![job[r].agent] = "waiting"]
        PROVE  Quiet' /\ Fresh'
    <3>1. manager = "up" /\ adopting = {} /\ job[r].agent \in Agents
      BY <2>3, <1>c DEF Fresh
    <3>2. \A s \in Rooms \ {r} : job[s].at = "started" => job[s].agent # job[r].agent /\ job[s].agent \in Agents
      BY <1>b, <3>1 DEF Fresh, Booked
    <3>3. \A s \in Rooms \ {r} : job[s].at = "started" => reaper'[job[s].agent] = None
      BY <2>3, <3>1, <3>2 DEF Fresh, TypeOK
    <3> QED
      BY <2>2, <2>3, <3>1, <3>3 DEF Quiet, Fresh, Idle
  <2>4. ASSUME NEW r \in Rooms, x.by = <<"shard", r>>, UNCHANGED <<manager, reaper>>,
               \A s \in Rooms \ {r} : job'[s] = job[s],
               job[r].at # "started", job'[r] = [job[r] EXCEPT !.at = "signal"]
        PROVE  Quiet' /\ Fresh'
    <3>1. job[r].at = "stopping" /\ job[r] \in Jobs
      BY <2>1, <2>4, PendingMeans DEF TypeOK
    <3>2. manager = "up" /\ adopting = {} /\ job[r].agent \in Agents
      BY <1>c, <3>1 DEF Fresh
    <3>3. job'[r].at = "signal" /\ job'[r].agent = job[r].agent
      BY <2>4, <3>1 DEF Jobs
    <3> QED
      BY <2>2, <2>4, <3>2, <3>3 DEF Quiet, Fresh
  <2>5. ASSUME NEW p \in Agents, x.by = <<"reap", p>>, UNCHANGED <<job, manager>>,
               reaper' = [reaper EXCEPT ![p] = "done"]
        PROVE  Quiet' /\ Fresh'
    <3>1. reaper[p] = "reaped" /\ \A q \in Agents \ {p} : reaper'[q] = reaper[q]
      BY <2>1, <2>5, PendingMeans DEF TypeOK
    <3> QED
      BY <1>0, <2>1, <2>2, <2>5, <3>1 DEF Quiet, Fresh
  <2>6. ASSUME x.by = <<"reconcile">>, manager' = "up", UNCHANGED <<job, reaper>> PROVE Quiet' /\ Fresh'
    <3>1. adopting = {}
      BY <2>1, <2>6, PendingMeans
    <3> QED
      BY <2>2, <2>6, <3>1 DEF Quiet, Fresh
  <2> QED
    BY <1>11, <2>3, <2>4, <2>5, <2>6, Persists
<1>12. CASE Crash
  BY <1>12 DEF Crash, Quiet, Fresh, Idle
<1>13. CASE Restart
  <2>1. manager = "down" /\ manager' = "reconciling" /\ UNCHANGED <<job, agents, writers, reaper>>
    BY <1>13 DEF Restart
  <2>2. \A e \in adopting' : e \in Rooms \X Agents /\ file[e[1]] = e[2]
    BY <1>13 DEF Restart
  <2>3. \A r \in Rooms, p \in Agents : <<r, p>> \in adopting' => file[r] = p
    BY <2>2
  <2> QED
    BY <2>1, <2>3 DEF Quiet, Fresh
<1>14. ASSUME NEW r \in Rooms, NEW p \in Agents, TryAdopt(r, p) PROVE Quiet' /\ Fresh'
  <2>1. /\ manager = "reconciling" /\ <<r, p>> \in adopting /\ adopting' = adopting \ {<<r, p>>}
        /\ UNCHANGED <<manager, job, writers>>
        /\ \A s \in Rooms : agents'[s] = agents[s] \/ s = r
        /\ \A q \in Agents : reaper'[q] = reaper[q] \/ q = p
    BY <1>14 DEF TryAdopt, TypeOK, Registries
  <2>2. \A s \in Rooms : job[s].at = "idle"
    BY <2>1 DEF Quiet, Idle
  <2>3. ASSUME NEW s \in Rooms, NEW q \in Agents, <<s, q>> \in adopting' PROVE s # r /\ q # p
    <3>1. <<s, q>> \in adopting /\ <<s, q>> # <<r, p>>
      BY <2>1, <2>3
    <3>2. s = r => q = p
      BY <2>1, <3>1 DEF Fresh
    <3>3. q = p => s = r
      BY <1>b, <2>1, <3>1 DEF Booked
    <3> QED
      BY <3>1, <3>2, <3>3
  <2>4. \A s \in Rooms, q \in Agents : <<s, q>> \in adopting' =>
          /\ reaper'[q] = None /\ agents'[s] = None
          /\ \A o \in Agents : <<s, o>> \in adopting' => q = o
    BY <2>1, <2>3 DEF Fresh
  <2> QED
    BY <2>1, <2>2, <2>4 DEF Quiet, Fresh
<1> QED
  BY <1>1, <1>2, <1>3, <1>4, <1>5, <1>6, <1>7, <1>8, <1>9, <1>10, <1>11, <1>12, <1>13, <1>14
     DEF Next, Shard
--------------------------------------------------------------------------------
(* The registry file.                                                              *)

\* The invariant is kept by a step that leaves the map, the file and the writers alone
\* and takes nobody who has to write away.
LEMMA StillCurrent ==
  ASSUME Registry, UNCHANGED <<agents, file, writers, unsaved, manager, adopting>>, Pending' = Pending
  PROVE  Registry'
  BY DEF Registry, RegistryIsCurrent

\* It is kept by a change of the map when whoever made it has to write, and had not.
LEMMA ChangeIsPending ==
  ASSUME Registry, NEW w, w \notin Pending, Pending' = Pending \cup {w}, UNCHANGED writers
  PROVE  Registry'
<1>1. \A x \in writers : x.by \in Pending /\ w # x.by
  BY DEF Registry
<1> QED
  BY <1>1 DEF Registry, RegistryIsCurrent

\* Nobody else loses their turn when one has written.
LEMMA StillPending ==
  ASSUME Inv, NEW x \in writers, Write(x), x.by \in Pending, NEW w \in Pending, w # x.by
  PROVE  w \in Pending'
<1> USE DEF Inv
<1>0. None \notin {"waiting", "reaped", "done"} /\ UNCHANGED adopting
  BY NamesAssumption DEF Write
<1>1. CASE \E r \in Rooms : w = <<"shard", r>> /\ job[r].at \in {"started", "stopping"}
  <2>1. PICK r \in Rooms : w = <<"shard", r>> /\ job[r].at \in {"started", "stopping"}
    BY <1>1
  <2>2. job'[r] = job[r]
    BY <2>1, Persists
  <2> QED
    BY <2>1, <2>2 DEF Pending
<1>2. CASE \E p \in Agents : w = <<"reap", p>> /\ reaper[p] = "reaped"
  <2>1. PICK p \in Agents : w = <<"reap", p>> /\ reaper[p] = "reaped"
    BY <1>2
  <2>2. \A r \in Rooms : job[r].at = "started" => job[r].agent # p
    BY <1>0, <2>1 DEF Fresh
  <2>3. reaper'[p] = "reaped"
    BY <2>1, <2>2, Persists DEF TypeOK
  <2> QED
    BY <2>1, <2>3 DEF Pending
<1>3. CASE w = <<"reconcile">> /\ manager = "reconciling" /\ adopting = {}
  <2>1. manager' = manager
    BY <1>3, Persists
  <2> QED
    BY <1>0, <1>3, <2>1 DEF Pending
<1> QED
  BY <1>1, <1>2, <1>3 DEF Pending

\* Every step keeps the registry current, or somebody about to write it.
LEMMA RegistryStep == Inv /\ [Next]_vars => Registry'
<1> SUFFICES ASSUME Inv, [Next]_vars PROVE Registry'
  OBVIOUS
<1> USE DEF Inv
<1>0. None \notin {"waiting", "reaped", "done"}
  BY NamesAssumption
<1>a. ASSUME UNCHANGED <<manager, agents, adopting, job, writers, reaper, file, unsaved>> PROVE Registry'
  <2>1. Pending' = Pending
    BY <1>a DEF Pending
  <2> QED
    BY <1>a, <2>1, StillCurrent
<1>1. CASE UNCHANGED vars
  BY <1>1, <1>a DEF vars, managerVars
<1>2. ASSUME NEW r \in Rooms, NEW action \in {"add", "delete"}, Dispatch(r, action) \/ Ignored(r) PROVE Registry'
  BY <1>2, <1>a DEF Dispatch, Ignored
<1>3. ASSUME NEW p \in Agents, Process(p) PROVE Registry'
  BY <1>3, <1>a, ProcessOutside DEF managerVars
<1>4. ASSUME NEW p \in Agents, KillAfterTimeout(p) PROVE Registry'
  BY <1>4, <1>a DEF KillAfterTimeout
<1>5. CASE GatewayRestarts
  BY <1>5, <1>a DEF GatewayRestarts, managerVars
<1>6. ASSUME NEW r \in Rooms, job[r] = Idle, UNCHANGED <<manager, adopting, reaper, writers>>,
             job'[r].at \in {"started", "stopping"}, \A s \in Rooms \ {r} : job'[s] = job[s]
      PROVE  Registry'
  <2>1. <<"shard", r>> \notin Pending
    BY <1>6, PendingMeans DEF Idle
  <2>2. {s \in Rooms : job'[s].at \in {"started", "stopping"}}
          = {s \in Rooms : job[s].at \in {"started", "stopping"}} \cup {r}
    BY <1>6
  <2>3. Pending' = Pending \cup {<<"shard", r>>}
    BY <1>6, <2>2 DEF Pending
  <2> QED
    BY <1>6, <2>1, <2>3, ChangeIsPending
<1>7. ASSUME NEW r \in Rooms, Start(r) PROVE Registry'
  <2>1. job[r] = Idle /\ UNCHANGED <<manager, adopting, reaper, writers, file, unsaved>>
    BY <1>7 DEF Start, Next1
  <2>2. CASE UNCHANGED <<agents, job>>
    BY <1>a, <2>1, <2>2
  <2>3. ASSUME NEW p \in Agents, job' = [job EXCEPT ![r] = [at |-> "started", agent |-> p]] PROVE Registry'
    <3>1. job'[r].at = "started" /\ \A s \in Rooms \ {r} : job'[s] = job[s]
      BY <2>3 DEF TypeOK
    <3> QED
      BY <1>6, <2>1, <3>1
  <2> QED
    BY <1>7, <2>2, <2>3, Spawned
<1>8. ASSUME NEW r \in Rooms, Stop(r) PROVE Registry'
  <2>1. job[r] = Idle /\ UNCHANGED <<manager, adopting, reaper, writers>>
    BY <1>8 DEF Stop, Next1
  <2>2. job'[r].at = "stopping" /\ \A s \in Rooms \ {r} : job'[s] = job[s]
    BY <1>8 DEF Stop, TypeOK
  <2> QED
    BY <1>6, <2>1, <2>2
<1>9. ASSUME NEW r \in Rooms, Signal(r) PROVE Registry'
  <2>1. job[r].at = "signal" /\ job'[r].at = "idle" /\ \A s \in Rooms \ {r} : job'[s] = job[s]
    BY <1>9, Signalled DEF Signal, Idle
  <2>2. {s \in Rooms : job'[s].at \in {"started", "stopping"}} = {s \in Rooms : job[s].at \in {"started", "stopping"}}
    BY <2>1
  <2>3. UNCHANGED <<manager, agents, adopting, writers, reaper, file, unsaved>>
    BY <1>9 DEF Signal
  <2>4. Pending' = Pending
    BY <2>2, <2>3 DEF Pending
  <2> QED
    BY <2>3, <2>4, StillCurrent
<1>10. ASSUME NEW p \in Agents, Reap(p) PROVE Registry'
  <2>1. /\ reaper[p] = "waiting" /\ reaper'[p] = "reaped" /\ \A q \in Agents \ {p} : reaper'[q] = reaper[q]
        /\ UNCHANGED <<manager, job, adopting, writers>>
    BY <1>10 DEF Reap, TypeOK
  <2>2. {q \in Agents : reaper'[q] = "reaped"} = {q \in Agents : reaper[q] = "reaped"} \cup {p}
    BY <2>1
  <2>3. Pending' = Pending \cup {<<"reap", p>>} /\ <<"reap", p>> \notin Pending
    BY <2>1, <2>2, PendingMeans DEF Pending
  <2> QED
    BY <2>1, <2>3, ChangeIsPending
<1>11. ASSUME NEW w \in Pending, Snapshot(w) PROVE Registry'
  <2>1. writers' = {[by |-> w, snap |-> agents]} /\ UNCHANGED <<manager, agents, adopting, job, reaper>>
    BY <1>11 DEF Snapshot, LockFree
  <2>2. Pending' = Pending
    BY <2>1 DEF Pending
  <2> QED
    BY <2>1, <2>2 DEF Registry, RegistryIsCurrent
<1>12. ASSUME NEW x \in writers, Write(x) PROVE Registry'
  <2>1. /\ x.by \in Pending
        /\ x.snap = agents \/ (\E w \in Pending : w # x.by) \/ (manager = "reconciling" /\ adopting # {})
    BY DEF Registry
  <2>2. writers' = {} /\ UNCHANGED <<agents, adopting>>
    BY <1>12 DEF Write, Registry
  <2>3. \A w \in Pending : w # x.by => w \in Pending'
    BY <1>12, <2>1, StillPending
  <2>4. manager = "reconciling" /\ adopting # {} => manager' # "up"
    <3>1. x.by = <<"reconcile">> => adopting = {}
      BY <2>1, PendingMeans
    <3> QED
      BY <1>12, <3>1, Persists
  <2>5. file' = x.snap \/ unsaved'
    BY <1>12 DEF Write
  <2> QED
    BY <2>1, <2>2, <2>3, <2>4, <2>5 DEF Registry, RegistryIsCurrent
<1>13. CASE Crash
  BY <1>13 DEF Crash, Registry, RegistryIsCurrent
<1>14. CASE Restart
  BY <1>14 DEF Restart, Quiet, Registry, RegistryIsCurrent
<1>15. ASSUME NEW r \in Rooms, NEW p \in Agents, TryAdopt(r, p) PROVE Registry'
  <2>1. /\ manager = "reconciling" /\ <<r, p>> \in adopting /\ UNCHANGED <<manager, job, writers>>
        /\ \A q \in Agents : reaper'[q] = reaper[q] \/ (q = p /\ reaper'[q] = "waiting")
    BY <1>15 DEF TryAdopt, TypeOK
  <2>2. reaper[p] = None
    BY <2>1 DEF Fresh
  <2>3. \A q \in Agents : reaper'[q] = "reaped" <=> reaper[q] = "reaped"
    BY <1>0, <2>1, <2>2
  <2>4. <<"reconcile">> \notin Pending
    BY <2>1, PendingMeans
  <2>5. \/ Pending' = Pending /\ adopting' # {}
        \/ Pending' = Pending \cup {<<"reconcile">>}
    BY <2>1, <2>3, <2>4 DEF Pending
  <2>6. CASE Pending' = Pending /\ adopting' # {}
    BY <2>1, <2>6 DEF Registry, RegistryIsCurrent
  <2>7. CASE Pending' = Pending \cup {<<"reconcile">>}
    BY <2>1, <2>4, <2>7, ChangeIsPending
  <2> QED
    BY <2>5, <2>6, <2>7
<1> QED
  BY <1>1, <1>2, <1>3, <1>4, <1>5, <1>7, <1>8, <1>9, <1>10, <1>11, <1>12, <1>13, <1>14, <1>15
     DEF Next, Shard
--------------------------------------------------------------------------------
(* One agent per room.                                                             *)

\* The invariant is kept by a step that leaves the books of the followed agents alone,
\* and lets nobody serve, or be followed, who was not.
LEMMA StillFollowed ==
  ASSUME Followed, UNCHANGED <<manager, agents, adopting, file, watch>>, lost \subseteq lost',
         \A p \in Agents : Follows(p)' => Follows(p) /\ proc'[p].room = proc[p].room
  PROVE  Followed'
  BY DEF Followed

\* Every step keeps the agents that serve in the books.
LEMMA FollowedStep == Inv /\ [Next]_vars => Followed'
<1> SUFFICES ASSUME Inv, [Next]_vars PROVE Followed'
  OBVIOUS
<1> USE DEF Inv
<1>0. TypeOK /\ Roomed /\ None \notin Agents
  BY NamesAssumption
<1>r. \A p \in Agents : Serving(p) => proc[p].room \in Rooms
  BY DEF Roomed, Serving, Alive
<1>a. ASSUME UNCHANGED <<manager, agents, adopting, file, watch, job, lost>>,
             NEW p \in Agents, Lives(p) \/ UNCHANGED proc
      PROVE  Followed'
  <2>1. ASSUME NEW q \in Agents, Follows(q)' PROVE Follows(q) /\ proc'[q].room = proc[q].room
    <3>1. Serving(q) /\ proc'[q].room = proc[q].room
      BY <1>0, <1>a, <2>1, RoomsLived DEF Follows, Serving, Alive
    <3> QED
      BY <1>a, <2>1, <3>1 DEF Follows, Dismissed
  <2> QED
    BY <1>a, <2>1, StillFollowed
<1>b. ASSUME UNCHANGED <<manager, agents, adopting, file, watch, job, lost, proc>> PROVE Followed'
  <2>1. \A q \in Agents : Follows(q)' => Follows(q)
    BY <1>b DEF Follows, Dismissed, Serving, Alive
  <2> QED
    BY <1>b, <2>1, StillFollowed
<1>1. CASE UNCHANGED vars
  BY <1>1, <1>b DEF vars, managerVars
<1>2. ASSUME NEW r \in Rooms, NEW action \in {"add", "delete"}, Dispatch(r, action) \/ Ignored(r) PROVE Followed'
  BY <1>2, <1>b DEF Dispatch, Ignored
<1>3. ASSUME NEW p \in Agents, Process(p) PROVE Followed'
  BY <1>3, <1>a, ProcessLives, ProcessOutside DEF managerVars
<1>4. ASSUME NEW p \in Agents, KillAfterTimeout(p) PROVE Followed'
  BY <1>4, <1>a, Killed DEF KillAfterTimeout
<1>5. CASE GatewayRestarts
  BY <1>5, <1>b DEF GatewayRestarts, managerVars
<1>6. ASSUME NEW r \in Rooms, Start(r) PROVE Followed'
  <2>1. manager = "up" /\ agents[r] = None /\ job[r] = Idle /\ UNCHANGED <<manager, adopting, file, watch, lost>>
    BY <1>6 DEF Start, Next1
  <2>2. CASE UNCHANGED <<proc, agents, job>>
    BY <1>b, <2>1, <2>2
  <2>3. ASSUME NEW p \in Agents, proc[p].at = "unborn",
               proc'[p] = [Unborn EXCEPT !.room = r, !.at = "spawned"],
               \A q \in Agents \ {p} : proc'[q] = proc[q],
               agents' = [agents EXCEPT ![r] = p],
               job' = [job EXCEPT ![r] = [at |-> "started", agent |-> p]]
        PROVE  Followed'
    <3>1. proc'[p].room = r /\ agents'[r] = p /\ \A s \in Rooms \ {r} : agents'[s] = agents[s]
      BY <2>3 DEF Unborn, TypeOK, Registries
    <3>2. ASSUME NEW q \in Agents \ {p}, Follows(q)' PROVE agents'[proc'[q].room] = q
      <4>1. Serving(q) /\ proc'[q].room = proc[q].room /\ q \notin lost
        BY <2>1, <2>3, <3>2 DEF Follows, Serving, Alive
      <4>2. ~Dismissed(q)
        <5>1. CASE proc[q].room = r
          BY <2>1, <5>1 DEF Dismissed, Idle
        <5>2. CASE proc[q].room # r
          <6>1. job'[proc'[q].room] = job[proc[q].room]
            BY <1>r, <2>3, <4>1, <5>2 DEF TypeOK
          <6> QED
            BY <3>2, <6>1 DEF Follows, Dismissed
        <5> QED
          BY <5>1, <5>2
      <4>3. agents[proc[q].room] = q
        BY <2>1, <4>1, <4>2 DEF Followed, Follows
      <4> QED
        BY <1>0, <1>r, <2>1, <3>1, <4>1, <4>3
    <3> QED
      BY <2>1, <3>1, <3>2 DEF Followed
  <2> QED
    BY <1>6, <2>2, <2>3, Spawned
<1>7. ASSUME NEW r \in Rooms, Stop(r) PROVE Followed'
  <2>1. /\ manager = "up" /\ job[r] = Idle /\ UNCHANGED <<manager, adopting, file, watch, lost, proc>>
        /\ \A s \in Rooms \ {r} : agents'[s] = agents[s] /\ job'[s] = job[s]
        /\ job'[r].at = "stopping" /\ job'[r].agent = agents[r]
    BY <1>7 DEF Stop, Next1, TypeOK, Registries
  <2>2. ASSUME NEW q \in Agents, Follows(q)' PROVE agents'[proc'[q].room] = q
    <3>1. Serving(q) /\ proc[q].room \in Rooms /\ q \notin lost
      BY <1>r, <2>1, <2>2 DEF Follows, Serving, Alive
    <3>2. CASE proc[q].room = r
      <4>1. agents[r] = q
        BY <2>1, <3>1, <3>2 DEF Followed, Follows, Dismissed, Idle
      <4> QED
        BY <2>1, <2>2, <3>2, <4>1 DEF Follows, Dismissed
    <3>3. CASE proc[q].room # r
      BY <2>1, <2>2, <3>1, <3>3 DEF Followed, Follows, Dismissed
    <3> QED
      BY <3>2, <3>3
  <2> QED
    BY <2>1, <2>2 DEF Followed
<1>8. ASSUME NEW r \in Rooms, Signal(r) PROVE Followed'
  <2>1. /\ job'[r] = Idle /\ \A s \in Rooms \ {r} : job'[s] = job[s]
        /\ \A q \in Agents : /\ proc'[q].room = proc[q].room /\ (Serving(q)' => Serving(q))
                             /\ q = job[r].agent => ~Serving(q)'
    BY <1>8, Signalled
  <2>2. UNCHANGED <<manager, agents, adopting, file, watch, lost>>
    BY <1>8 DEF Signal
  <2>3. ASSUME NEW q \in Agents, Follows(q)' PROVE Follows(q)
    <3>1. Serving(q) /\ q # job[r].agent /\ q \notin lost /\ proc[q].room \in Rooms
      BY <1>r, <2>1, <2>2, <2>3 DEF Follows
    <3>2. ~Dismissed(q)
      BY <2>1, <2>3, <3>1 DEF Follows, Dismissed
    <3> QED
      BY <3>1, <3>2 DEF Follows
  <2> QED
    BY <2>1, <2>2, <2>3, StillFollowed
<1>9. ASSUME NEW p \in Agents, Reap(p) PROVE Followed'
  <2>1. /\ proc[watch[p]].at = "gone" /\ UNCHANGED <<manager, adopting, file, watch, lost, proc, job>>
        /\ reaper[p] = "waiting"
    BY <1>9 DEF Reap
  <2>2. ~Follows(p)
    BY <2>1 DEF Followed, Follows, Serving, Alive
  <2>3. \A r \in Rooms : agents[r] # p => agents'[r] = agents[r]
    BY <1>9 DEF Reap, Ours, TypeOK, Registries
  <2>4. \A q \in Agents : Follows(q)' <=> Follows(q)
    BY <2>1 DEF Follows, Serving, Alive, Dismissed
  <2>5. ASSUME NEW q \in Agents, Follows(q), agents[proc[q].room] = q PROVE agents'[proc[q].room] = q
    BY <1>r, <2>2, <2>3, <2>5 DEF Follows
  <2> QED
    BY <2>1, <2>4, <2>5 DEF Followed
<1>10. ASSUME NEW w \in Pending, Snapshot(w) PROVE Followed'
  BY <1>10, <1>b DEF Snapshot
<1>11. ASSUME NEW x \in writers, Write(x) PROVE Followed'
  <2>1. UNCHANGED <<agents, adopting, watch, lost, proc>>
    BY <1>11 DEF Write
  <2>2. x.by \in Pending /\ manager # "down"
    BY DEF Registry, Quiet
  <2>3. ASSUME NEW q \in Agents, Follows(q)' PROVE Follows(q)
    <3>1. Serving(q) /\ q \notin lost /\ proc[q].room \in Rooms
      BY <1>r, <2>1, <2>3 DEF Follows, Serving, Alive
    <3>2. ~Dismissed(q)
      <4>1. ASSUME job'[proc[q].room] = job[proc[q].room] PROVE ~Dismissed(q)
        BY <2>1, <2>3, <4>1 DEF Follows, Dismissed
      <4>2. ASSUME NEW r \in Rooms, r = proc[q].room, job[r].at = "started" PROVE ~Dismissed(q)
        BY <4>2 DEF Dismissed
      <4>3. ASSUME NEW r \in Rooms, r = proc[q].room, job'[r] = [job[r] EXCEPT !.at = "signal"] PROVE ~Dismissed(q)
        <5>1. job[r] \in Jobs
          BY DEF TypeOK
        <5>2. job'[r].at = "signal" /\ job'[r].agent = job[r].agent
          BY <4>3, <5>1 DEF Jobs
        <5> QED
          BY <2>1, <2>3, <4>3, <5>2 DEF Follows, Dismissed
      <4> QED
        BY <1>11, <3>1, <4>1, <4>2, <4>3, Persists
    <3> QED
      BY <3>1, <3>2 DEF Follows
  <2>4. manager' = manager \/ (manager = "reconciling" /\ manager' = "up" /\ adopting = {})
    <3>1. x.by = <<"reconcile">> => manager = "reconciling" /\ adopting = {}
      BY <2>2, PendingMeans
    <3> QED
      BY <1>11, <3>1, Persists
  <2> QED
    BY <2>1, <2>2, <2>3, <2>4 DEF Followed
<1>12. CASE Crash
  <2>1. /\ manager' = "down" /\ UNCHANGED <<file, proc>>
        /\ lost' = lost \cup {p \in Agents : Serving(p) /\ file[proc[p].room] # p}
        /\ watch' = [p \in Agents |-> p]
    BY <1>12 DEF Crash
  <2>2. \A q \in Agents : Follows(q)' => file'[proc'[q].room] = q
    BY <2>1 DEF Follows, Serving, Alive
  <2> QED
    BY <2>1, <2>2 DEF Followed
<1>13. CASE Restart
  <2>1. /\ manager = "down" /\ manager' = "reconciling" /\ UNCHANGED <<agents, file, proc, lost, watch, job>>
        /\ adopting' = {e \in Rooms \X Agents : file[e[1]] = e[2]}
    BY <1>13 DEF Restart
  <2>2. \A q \in Agents : Follows(q)' => Follows(q)
    BY <2>1 DEF Follows, Serving, Alive, Dismissed
  <2>3. \A r \in Rooms, q \in Agents : file[r] = q => <<r, q>> \in adopting'
    BY <2>1
  <2>4. \A q \in Agents : Follows(q)' => <<proc[q].room, q>> \in adopting'
    BY <1>r, <2>1, <2>2, <2>3 DEF Followed, Follows
  <2> QED
    BY <2>1, <2>4 DEF Followed
<1>14. ASSUME NEW r \in Rooms, NEW p \in Agents, TryAdopt(r, p) PROVE Followed'
  <2>1. /\ manager = "reconciling" /\ <<r, p>> \in adopting /\ adopting' = adopting \ {<<r, p>>}
        /\ UNCHANGED <<manager, file, job, proc>>
        /\ lost' = IF socket[r] = p THEN lost ELSE lost \cup {p}
    BY <1>14 DEF TryAdopt
  <2>2. \/ /\ socket[r] \in Agents /\ agents' = [agents EXCEPT ![r] = p]
           /\ watch' = [watch EXCEPT ![p] = socket[r]]
        \/ UNCHANGED <<agents, watch>> /\ ~(Alive(p) /\ socket[r] # None /\ Alive(socket[r]))
    BY <1>14 DEF TryAdopt, TypeOK, Registries, MaybeAgents
  <2>3. proc[p].room = r
    BY <2>1 DEF Roomed, Booked
  <2>4. \A q \in Agents : watch'[q] # q => q \in lost'
    BY <2>1, <2>2 DEF Followed, TypeOK
  <2>5. ASSUME NEW q \in Agents, Follows(q)'
        PROVE  agents'[proc[q].room] = q \/ <<proc[q].room, q>> \in adopting'
    <3>1. Follows(q) /\ proc[q].room \in Rooms
      BY <1>r, <2>1, <2>5 DEF Follows, Serving, Alive, Dismissed
    <3>2. agents[proc[q].room] = q \/ <<proc[q].room, q>> \in adopting
      BY <2>1, <3>1 DEF Followed
    <3>3. CASE q = p
      <4>1. socket[r] = p /\ Alive(p)
        BY <2>1, <2>5, <3>1, <3>3 DEF Follows, Serving
      <4>2. agents' = [agents EXCEPT ![r] = p]
        BY <1>0, <2>2, <4>1
      <4> QED
        BY <2>3, <3>3, <4>2 DEF TypeOK, Registries
    <3>4. CASE q # p
      <4>1. <<proc[q].room, q>> \in adopting => <<proc[q].room, q>> \in adopting'
        BY <2>1, <3>4
      <4>2. agents[r] = None
        BY <2>1 DEF Fresh
      <4>3. agents[proc[q].room] = q => proc[q].room # r
        BY <1>0, <4>2
      <4>4. \A s \in Rooms \ {r} : agents'[s] = agents[s]
        BY <2>2 DEF TypeOK, Registries
      <4> QED
        BY <3>1, <3>2, <4>1, <4>3, <4>4
    <3> QED
      BY <3>3, <3>4
  <2> QED
    BY <2>1, <2>4, <2>5 DEF Followed
<1> QED
  BY <1>1, <1>2, <1>3, <1>4, <1>5, <1>6, <1>7, <1>8, <1>9, <1>10, <1>11, <1>12, <1>13, <1>14
     DEF Next, Shard
--------------------------------------------------------------------------------
(* Chat.                                                                           *)

Early == {"unborn", "spawned", "listening"}

\* The invariant is kept when nobody becomes registered at agents-bot and agents-bot's
\* books stay.
LEMMA StillForwarded ==
  ASSUME Chat, UNCHANGED botVars,
         \A p \in Agents :
           /\ (proc'[p].bot => (proc[p].bot /\ proc'[p].uuid = proc[p].uuid /\ proc'[p].room = proc[p].room))
           /\ (proc'[p].at \in Early => (proc[p].at \in Early \/ ~proc'[p].bot))
  PROVE  Chat'
<1>1. UNCHANGED <<active, newest>>
  BY DEF botVars
<1>2. ASSUME NEW p \in Agents, proc'[p].at \in {"unborn", "spawned", "listening"} PROVE ~proc'[p].bot
  BY <1>2 DEF Chat, Early
<1>3. ASSUME NEW p \in Agents, proc'[p].bot, proc'[p].uuid, newest'[proc'[p].room] = p
      PROVE  active'[proc'[p].room] = p
  <2>1. proc[p].bot /\ proc[p].uuid /\ proc'[p].room = proc[p].room
    BY <1>3
  <2>2. newest[proc[p].room] = p
    BY <1>1, <1>3, <2>1
  <2>3. active[proc[p].room] = p
    BY <2>1, <2>2 DEF Chat, ChatForwarded, ForwardsAs
  <2> QED
    BY <1>1, <2>1, <2>3
<1> QED
  BY <1>2, <1>3 DEF Chat, ChatForwarded, ForwardsAs

\* A session that ends leaves the registration as it is.
LEMMA EndedSession ==
  ASSUME TypeOK, NEW p \in Agents, SessionEnds(p)
  PROVE  proc'[p].bot = proc[p].bot /\ proc'[p].uuid = proc[p].uuid /\ proc'[p].at = "ended"
<1>1. PICK why \in {"lost", "terminal", "permanent"}, stable \in BOOLEAN :
        proc' = [proc EXCEPT ![p].at = "ended", ![p].term = ~ShouldReconnect(why),
                             ![p].failed = (why = "permanent"),
                             ![p].attempts = IF stable THEN 0 ELSE @]
  BY DEF SessionEnds
<1>2. PICK t \in BOOLEAN, f \in BOOLEAN : t = ~ShouldReconnect(why) /\ f = (why = "permanent")
  BY Zenon
<1>3. proc' = [proc EXCEPT ![p].at = "ended", ![p].term = t, ![p].failed = f,
                           ![p].attempts = IF stable THEN 0 ELSE @]
  BY <1>1, <1>2
<1>4. proc[p] \in Procs /\ proc \in [Agents -> Procs]
  BY DEF TypeOK
<1>5. proc'[p] = [proc[p] EXCEPT !.at = "ended", !.term = t, !.failed = f, !.attempts = IF stable THEN 0 ELSE @]
  BY <1>3, <1>4
<1> QED
  BY <1>4, <1>5 DEF Procs

\* What the steps of a process that agents-bot does not notice do.
LEMMA Unnoticed ==
  ASSUME TypeOK, Chat, NEW p \in Agents,
         \/ Listen(p) \/ DiesEarly(p) \/ RegisterRoom(p) \/ Dial(p) \/ SessionEnds(p) \/ Cancelled(p) \/ Exit(p)
  PROVE  /\ UNCHANGED botVars
         /\ proc'[p].bot => proc[p].bot /\ proc'[p].uuid = proc[p].uuid
         /\ proc'[p].at \in Early => proc[p].at \in Early
<1>0. proc[p] \in Procs /\ proc \in [Agents -> Procs]
  BY DEF TypeOK
<1>1. CASE Listen(p) \/ DiesEarly(p) \/ Dial(p) \/ Exit(p)
  <2>1. PICK at \in {"listening", "gone", "session", "ended"} : Move(p, at)
    BY <1>1 DEF Listen, DiesEarly, Dial, Exit
  <2>2. /\ Alive(p) /\ (proc[p].at = "leaving" => at = "gone") /\ UNCHANGED botVars
        /\ at = "listening" => proc[p].at = "spawned"
    BY <1>1, <2>1 DEF Listen, DiesEarly, Dial, Exit, Alive, Move, TypeOK, Procs, botVars
  <2> QED
    BY <2>1, <2>2, Moved DEF Ats, Early
<1>2. CASE RegisterRoom(p)
  <2>1. ~proc[p].bot
    BY <1>2 DEF RegisterRoom, Chat
  <2>2. PICK ok \in BOOLEAN : proc' = [proc EXCEPT ![p] = [proc[p] EXCEPT !.at = "joining", !.uuid = ok]]
    BY <1>2 DEF RegisterRoom, TypeOK
  <2>3. proc'[p] = [proc[p] EXCEPT !.at = "joining", !.uuid = ok]
    BY <1>0, <2>2
  <2>4. proc'[p].bot = proc[p].bot /\ proc'[p].at = "joining"
    BY <1>0, <2>3 DEF Procs
  <2> QED
    BY <1>2, <2>1, <2>4 DEF RegisterRoom, botVars, Early
<1>3. CASE SessionEnds(p) \/ Cancelled(p)
  <2>1. /\ proc'[p].bot = proc[p].bot /\ proc'[p].uuid = proc[p].uuid /\ proc'[p].at = "ended"
    <3>1. CASE Cancelled(p)
      <4>1. proc' = [proc EXCEPT ![p] = [proc[p] EXCEPT !.at = "ended", !.term = TRUE]]
        BY <3>1 DEF Cancelled, TypeOK
      <4>2. proc'[p] = [proc[p] EXCEPT !.at = "ended", !.term = TRUE]
        BY <1>0, <4>1
      <4> QED
        BY <1>0, <4>2 DEF Procs
    <3>2. CASE SessionEnds(p)
      BY <1>0, <3>2, EndedSession
    <3> QED
      BY <1>3, <3>1, <3>2
  <2> QED
    BY <1>3, <2>1 DEF SessionEnds, Cancelled, botVars, Early
<1> QED
  BY <1>1, <1>2, <1>3

\* Every step keeps chat of a registered room forwarded.
LEMMA ChatStep == Inv /\ [Next]_vars => Chat'
<1> SUFFICES ASSUME Inv, [Next]_vars PROVE Chat'
  OBVIOUS
<1> USE DEF Inv
<1>0. None \notin Agents /\ Rooms \cap Agents = {}
  BY NamesAssumption
<1>b. ASSUME UNCHANGED <<proc, botVars>> PROVE Chat'
  BY <1>b, StillForwarded
<1>1. CASE UNCHANGED vars
  BY <1>1, <1>b DEF vars
<1>2. ASSUME NEW r \in Rooms, NEW action \in {"add", "delete"},
             \/ Dispatch(r, action) \/ Ignored(r) \/ Stop(r) \/ \E p \in Agents : TryAdopt(r, p)
      PROVE  Chat'
  BY <1>2, <1>b DEF Dispatch, Ignored, Stop, TryAdopt
<1>3. ASSUME (\E p \in Agents : Reap(p)) \/ (\E w \in Pending : Snapshot(w)) \/ (\E x \in writers : Write(x))
             \/ Crash \/ Restart
      PROVE  Chat'
  BY <1>3, <1>b DEF Reap, Snapshot, Write, Crash, Restart
<1>4. ASSUME NEW r \in Rooms, Start(r) PROVE Chat'
  <2>1. UNCHANGED botVars
    BY <1>4 DEF Start
  <2>2. CASE UNCHANGED proc
    BY <1>b, <2>1, <2>2
  <2>3. ASSUME NEW p \in Agents, proc'[p] = [Unborn EXCEPT !.room = r, !.at = "spawned"],
               \A q \in Agents \ {p} : proc'[q] = proc[q]
        PROVE  Chat'
    <3>1. ~proc'[p].bot
      BY <2>3 DEF Unborn
    <3> QED
      BY <2>1, <2>3, <3>1, StillForwarded
  <2> QED
    BY <1>4, <2>2, <2>3, Spawned
<1>5. ASSUME NEW r \in Rooms, Signal(r) PROVE Chat'
  BY <1>5, Signalled, StillForwarded DEF Signal
<1>6. ASSUME NEW p \in Agents, KillAfterTimeout(p) PROVE Chat'
  <2>1. UNCHANGED botVars
    BY <1>6 DEF KillAfterTimeout
  <2>2. CASE UNCHANGED proc
    BY <1>b, <2>1, <2>2
  <2>3. CASE Alive(p) /\ Move(p, "gone")
    <3>1. /\ Lives(p) /\ proc'[p].at = "gone" /\ proc'[p].bot = proc[p].bot
          /\ proc'[p].uuid = proc[p].uuid
      BY <2>3, Moved DEF Ats
    <3> QED
      BY <2>1, <3>1, StillForwarded DEF Lives, Early
  <2> QED
    BY <1>6, <2>2, <2>3 DEF KillAfterTimeout
<1>7. ASSUME NEW p \in Agents,
             \/ Listen(p) \/ DiesEarly(p) \/ RegisterRoom(p) \/ Dial(p) \/ SessionEnds(p) \/ Cancelled(p) \/ Exit(p)
      PROVE  Chat'
  <2>1. Lives(p)
    BY <1>7, ProcessLives DEF Process
  <2>2. /\ UNCHANGED botVars
        /\ proc'[p].bot => proc[p].bot /\ proc'[p].uuid = proc[p].uuid
        /\ proc'[p].at \in Early => proc[p].at \in Early
    BY <1>7, Unnoticed
  <2> QED
    BY <2>1, <2>2, StillForwarded DEF Lives
<1>8. ASSUME NEW p \in Agents, RegisterBot(p) PROVE Chat'
  <2>0. Lives(p) /\ proc[p] \in Procs /\ proc[p].room \in Rooms
    BY <1>8, ProcessLives DEF Process, TypeOK, Roomed, RegisterBot
  <2>1. PICK finished \in BOOLEAN, told \in BOOLEAN :
          /\ IF finished THEN Registers(p) ELSE UNCHANGED botVars
          /\ told => finished
          /\ proc' = [proc EXCEPT ![p] = [proc[p] EXCEPT !.at = "dialing", !.bot = told]]
    BY <1>8 DEF RegisterBot, TypeOK
  <2>2. proc'[p] = [proc[p] EXCEPT !.at = "dialing", !.bot = told]
    BY <2>1 DEF TypeOK
  <2>3. proc'[p].bot = told /\ proc'[p].uuid = proc[p].uuid /\ proc'[p].at = "dialing"
    BY <2>0, <2>2 DEF Procs
  <2>4. CASE ~finished
    BY <2>0, <2>1, <2>3, <2>4, StillForwarded DEF Lives, Early
  <2>5. CASE finished
    <3>1. /\ newest'[proc[p].room] = p /\ active'[proc[p].room] = RoomId(p)
          /\ \A r \in Rooms \ {proc[p].room} : newest'[r] = newest[r] /\ active'[r] = active[r]
      BY <2>0, <2>1, <2>5 DEF Registers, TypeOK, Registries
    <3>2. proc'[p].uuid => active'[proc'[p].room] = p
      BY <2>0, <2>3, <3>1 DEF RoomId, Lives
    <3>3. ASSUME NEW q \in Agents \ {p}, proc'[q].bot, proc'[q].uuid, newest'[proc'[q].room] = q
          PROVE  active'[proc'[q].room] = q
      <4>1. proc'[q] = proc[q] /\ proc[q].room \in Rooms
        BY <2>0, <3>3 DEF Lives, Chat, Roomed
      <4>2. proc[q].room # proc[p].room
        BY <3>1, <3>3, <4>1
      <4> QED
        BY <3>1, <3>3, <4>1, <4>2 DEF Chat, ChatForwarded, ForwardsAs
    <3>4. \A q \in Agents : proc'[q].at \in Early => ~proc'[q].bot
      BY <2>0, <2>3 DEF Lives, Chat, Early
    <3> QED
      BY <3>2, <3>3, <3>4 DEF Chat, ChatForwarded, ForwardsAs, Early
  <2> QED
    BY <2>4, <2>5
<1>9. ASSUME NEW p \in Agents, AfterSession(p) PROVE Chat'
  <2>0. Lives(p) /\ proc[p] \in Procs /\ proc[p].room \in Rooms
    BY <1>9, ProcessLives DEF Process, TypeOK, Roomed, AfterSession
  <2>1. ~proc'[p].bot
    <3>1. proc' = [proc EXCEPT ![p] = [proc[p] EXCEPT
                     !.bot = FALSE, !.at = IF Again(p) THEN "joining" ELSE "leaving",
                     !.attempts = IF Again(p) THEN @ + 1 ELSE @,
                     !.failed = @ \/ ~(proc[p].term \/ Again(p))]]
      BY <1>9 DEF AfterSession, TypeOK
    <3> QED
      BY <2>0, <3>1 DEF TypeOK, Procs
  <2>2. UNCHANGED newest /\ (UNCHANGED active \/ Unregisters(p))
    BY <1>9 DEF AfterSession
  <2>3. ASSUME NEW q \in Agents \ {p}, proc[q].bot, proc[q].uuid, active[proc[q].room] = q
        PROVE  active'[proc[q].room] = q
    <3>1. proc[q].room \in Rooms
      BY <2>3 DEF Chat, Roomed
    <3>2. proc[q].room = proc[p].room => ~SameRoom(p)
      BY <1>0, <2>0, <2>3 DEF SameRoom, RoomId
    <3> QED
      BY <2>0, <2>2, <2>3, <3>1, <3>2 DEF Unregisters, TypeOK
  <2>4. \A q \in Agents : proc'[q].at \in Early => ~proc'[q].bot
    BY <2>0, <2>1 DEF Lives, Chat, Early
  <2> QED
    BY <2>0, <2>1, <2>2, <2>3, <2>4 DEF Chat, ChatForwarded, ForwardsAs, Lives, Early
<1>10. CASE GatewayRestarts
  <2>1. UNCHANGED proc /\ newest' = [r \in Rooms |-> None]
    BY <1>10 DEF GatewayRestarts
  <2>2. \A q \in Agents : proc[q].bot => newest'[proc[q].room] # q
    <3>1. \A q \in Agents : proc[q].bot => proc[q].room \in Rooms
      BY DEF Chat, Roomed
    <3> QED
      BY <1>0, <2>1, <3>1
  <2> QED
    BY <2>1, <2>2 DEF Chat, ChatForwarded
<1> QED
  BY <1>1, <1>2, <1>3, <1>4, <1>5, <1>6, <1>7, <1>8, <1>9, <1>10 DEF Next, Shard, Process
--------------------------------------------------------------------------------
(* The invariant and the theorems.                                                 *)

LEMMA InvInit == Init => Inv
<1> SUFFICES ASSUME Init PROVE Inv
  OBVIOUS
<1> USE DEF Init
<1>0. None \notin Agents
  BY NamesAssumption
<1>1. Unborn \in Procs /\ ~Unborn.bot /\ Unborn.at = "unborn" /\ Idle \in Jobs /\ None \in MaybeAgents
  BY DEF Unborn, Procs, Ats, Idle, Jobs, MaybeAgents
<1>2. \A p \in Agents : proc[p] = Unborn
  OBVIOUS
<1>3. TypeOK
  <2>1. proc \in [Agents -> Procs] /\ job \in [Rooms -> Jobs]
    BY <1>1
  <2>2. queue \in [Rooms -> Seq({"add", "delete"})]
    OBVIOUS
  <2>3. agents \in Registries /\ file \in Registries /\ socket \in Registries /\ newest \in Registries
    BY <1>1 DEF Registries
  <2> QED
    BY <2>1, <2>2, <2>3 DEF TypeOK
<1>4. Roomed
  BY <1>0, <1>1, <1>2 DEF Roomed, Booked, Idle
<1>5. Quiet /\ Fresh
  BY DEF Quiet, Fresh, Idle
<1>6. Registry
  BY DEF Registry, RegistryIsCurrent
<1>7. Followed
  BY <1>1, <1>2 DEF Followed, Follows, Serving, Alive
<1>8. Chat
  BY <1>1, <1>2 DEF Chat, ChatForwarded
<1> QED
  BY <1>3, <1>4, <1>5, <1>6, <1>7, <1>8 DEF Inv

LEMMA InvStep == Inv /\ [Next]_vars => Inv'
  BY TypeStep, RoomedStep, BooksStep, RegistryStep, FollowedStep, ChatStep DEF Inv

THEOREM Invariant == Spec => []Inv
  BY InvInit, InvStep, PTL DEF Spec

\* The type of AgentFleet.
THEOREM TypeCorrect == Spec => []TypeOK
<1>1. Inv => TypeOK
  BY DEF Inv
<1> QED
  BY <1>1, Invariant, PTL

\* However adds, deletes, exits, kills, crashes and adoptions interleave, at most one of
\* the agents a manager could follow serves a room.
THEOREM OneAgentAlways == Spec => []OneAgent
<1>1. Inv => OneAgent
  <2> SUFFICES ASSUME Inv, NEW r \in Rooms
               PROVE  Cardinality({p \in Agents : Serving(p) /\ proc[p].room = r /\ ~Dismissed(p) /\ p \notin lost}) <= 1
    BY DEF OneAgent
  <2> DEFINE S == {p \in Agents : Serving(p) /\ proc[p].room = r /\ ~Dismissed(p) /\ p \notin lost}
  <2>1. ASSUME NEW p \in S, NEW q \in S PROVE p = q
    <3>1. Follows(p) /\ Follows(q) /\ proc[p].room = r /\ proc[q].room = r
      BY DEF Follows
    <3>2. CASE manager = "up"
      BY <3>1, <3>2 DEF Inv, Followed
    <3>3. CASE manager = "down"
      BY <3>1, <3>3 DEF Inv, Followed
    <3>4. CASE manager = "reconciling"
      <4>1. (agents[r] = p \/ <<r, p>> \in adopting) /\ (agents[r] = q \/ <<r, q>> \in adopting)
        BY <3>1, <3>4 DEF Inv, Followed
      <4> QED
        BY <4>1, NamesAssumption DEF Inv, Fresh
    <3> QED
      BY <3>2, <3>3, <3>4 DEF Inv, TypeOK
  <2>2. Cardinality(S) <= 1
    <3>1. CASE S = {}
      <4>1. Cardinality({}) = 0
        BY FS_EmptySet
      <4> HIDE DEF S
      <4> QED
        BY <3>1, <4>1
    <3>2. CASE S # {}
      <4>1. PICK p \in S : S = {p}
        BY <2>1, <3>2
      <4>2. Cardinality({p}) = 1
        BY FS_Singleton
      <4> HIDE DEF S
      <4> QED
        BY <4>1, <4>2
    <3> QED
      BY <3>1, <3>2
  <2> QED
    BY <2>2
<1> QED
  BY <1>1, Invariant, PTL

\* registry.json is the map of agents whenever nobody has to write it and the last write
\* succeeded: no two writers leave the older snapshot behind.
THEOREM RegistryIsCurrentAlways == Spec => []RegistryIsCurrent
<1>1. Inv => RegistryIsCurrent
  BY DEF Inv, Registry
<1> QED
  BY <1>1, Invariant, PTL

\* The agent that registered last with agents-bot stays registered until it unregisters
\* itself, whatever the agents before it do on their way out.
THEOREM ChatForwardedAlways == Spec => []ChatForwarded
<1>1. Inv => ChatForwarded
  BY DEF Inv, Chat
<1> QED
  BY <1>1, Invariant, PTL

================================================================================
