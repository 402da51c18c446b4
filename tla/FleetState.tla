------------------------------- MODULE FleetState -------------------------------
(* What is kept about the agent processes of the rooms, by worker-manager, by the  *)
(* agents themselves and by the agents-bot gateway, and what it promises.          *)
EXTENDS Naturals, FiniteSets

CONSTANTS None,         \* no room, no agent
          Rooms,        \* rooms that are dispatched
          Agents        \* agent processes that may be spawned, each once

\* An agent goes by a UUID of its own or by the name of its room, and no room is named
\* like an agent's UUID.
ASSUME NamesAssumption ==
  /\ None \notin Rooms \cup Agents \cup {"waiting", "reaped", "done"}
  /\ Rooms \cap Agents = {}

VARIABLES manager,   \* "up", "down" or "reconciling"
          queue,     \* shard queue of a room
          job,       \* what the shard goroutine of a room is doing
          agents,    \* Manager.agents: the agent of a room
          file,      \* registry.json
          writers,   \* holder of persistMu with its snapshot
          adopting,  \* entries of registry.json Reconcile has still to look at
          reaper,    \* the reap goroutine of an agent
          watch,     \* the process whose exit that goroutine waits for
          killers,   \* agents with a killAfterTimeout goroutine
          proc,      \* the agent processes
          socket,    \* the process that owns room-<id>.sock
          active,    \* Gateway.activeRooms: the registered room_id
          newest,    \* the agent that registered last (for the properties)
          unsaved,   \* the last write of the registry failed (for the properties)
          lost,      \* agents a restarted manager cannot follow (for the properties)
          events, trouble, crashes

Alive(p) == proc[p].at \notin {"unborn", "gone"}
\* An agent nobody has told to leave and that has not decided to.
Serving(p) == Alive(p) /\ ~proc[p].term /\ proc[p].at # "leaving"

\* The goroutines that are about to write the registry, by room, agent or name.
Pending == {<<"shard", r>> : r \in {r \in Rooms : job[r].at \in {"started", "stopping"}}}
           \cup {<<"reap", p>> : p \in {p \in Agents : reaper[p] = "reaped"}}
           \cup (IF manager = "reconciling" /\ adopting = {} THEN {<<"reconcile">>} ELSE {})

\* forwardChatIfActive: the room_id the chat of a room is pushed to the orchestrator
\* with, if any.
ForwardsAs(r) == active[r]
--------------------------------------------------------------------------------
(* Promises.                                                                    *)

\* Stop has freed the room and has the SIGTERM still to send.
Dismissed(p) == job[proc[p].room].agent = p /\ job[proc[p].room].at \in {"stopping", "signal"}

\* One agent per room: however adds, deletes, exits and restarts interleave, of
\* the agents a manager could follow at most one per room serves it (Start's
\* idempotence, manager.go:97-107, and reap's cur == a).
OneAgent == \A r \in Rooms : Cardinality({p \in Agents : Serving(p) /\ proc[p].room = r /\ ~Dismissed(p) /\ p \notin lost}) <= 1

\* The registry file is what the next manager adopts from: when no write is
\* pending, and the last one did not fail, it is the map of agents. Two writers
\* never leave the older snapshot behind (persistMu, registry_store.go:43-54).
RegistryIsCurrent == manager = "up" /\ Pending = {} /\ writers = {} /\ ~unsaved => file = agents

\* Chat keeps flowing: a room is registered at agents-bot while the agent that
\* registered last has not unregistered, whatever an earlier agent of the room
\* does on its way out (the room_id of UnregisterRoom).
ChatForwarded == \A p \in Agents : proc[p].bot /\ proc[p].uuid /\ newest[proc[p].room] = p => ForwardsAs(proc[p].room) = p
================================================================================
