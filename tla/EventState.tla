-------------------------------- MODULE EventState --------------------------------
(* What the orchestrator's server-sent events keep, a queue per connection and the   *)
(* clients at the other end, and what they promise.                                  *)
EXTENDS Naturals, Sequences, Functions

CONSTANTS NoOne,
          Clients,     \* [name, kind, room, app]: one app may have several clients
          Kinds,       \* channels: subset of {"messages", "agent_requests", "metadata", "chat_external"}
          Conns,       \* connections, numbered in the order they are made
          QueueSize,   \* maxsize of a connection's queue (100)
          MaxEvents,   \* bound: events pushed
          MaxBreaks    \* bound: connections that break

\* Connections are numbered as they come, and no connection is nobody.
ASSUME EventAssumption == Conns \subseteq Nat /\ NoOne \notin Conns

VARIABLES conn,        \* a connection's generator, and its client
          registered,  \* the connections in connection_queues and connection_appids
          queue,       \* their queues
          client,      \* the connection a client reads
          pos,         \* ghost: how many of its topic's events a connection has behind it
          overflowed,  \* ghost: connections whose queue was full for an event
          pushes,      \* ghost: events pushed per topic
          saving, saved,  \* metadata events on their way to the table, and in it
          down,        \* signal_shutdown was called
          breaks

\* the context keys of the channels
MessageTopic(k) == <<"messages", k.room>>
RequestTopic(k) == <<"agent_requests", k.room, k.app>>
GlobalTopic(kind) == <<kind>>
TopicOf(k) == CASE k.kind = "messages" -> MessageTopic(k)
                [] k.kind = "agent_requests" -> RequestTopic(k)
                [] OTHER -> GlobalTopic(k.kind)
Topics == {TopicOf(k) : k \in Clients} \cup {GlobalTopic(kind) : kind \in Kinds \cap {"metadata", "chat_external"}}
Disconnect == 0   \* events are numbered from 1
Reads(c) == client[conn[c].client] = c
-----------------------------------------------------------------------------------
(* Promises.                                                                     *)

\* The newest connection of an app misses nothing: whatever its client has not read
\* is in its queue, unless the queue was full, and it is not told to end, though earlier
\* connections of the app are told, broken, noticed and unregistered around it.
Newest(c) == \A d \in Conns : d > c /\ conn[d].at # "none" => TopicOf(conn[d].client) # TopicOf(conn[c].client) \/ conn[d].client.app # conn[c].client.app
NewestMissesNothing ==
  \A c \in Conns : conn[c].at \in {"made", "streaming"} /\ Newest(c) /\ Reads(c) /\ ~down /\ c \notin overflowed =>
    pos[c] + Len(queue[c]) = pushes[TopicOf(conn[c].client)] /\ Disconnect \notin Range(queue[c])
===================================================================================
