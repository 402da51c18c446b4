------------------------------ MODULE EventChannels ------------------------------
(* The orchestrator's server-sent events: SSEManager with one queue per connection,
   the channels built on it, the generator that streams a queue, and the clients,
   which connect again when a stream ends (RunAgentRequestListener, a bot, a tab).

   Everything runs on one event loop, and no method of the manager awaits anything
   inside its lock: a method, and a channel's create_connection, is one step. The
   generators, the pushes, the loss of a connection and its discovery interleave. *)
EXTENDS EventState, Naturals, Sequences, FiniteSets, SequencesExt, Functions

vars == <<conn, registered, queue, client, pos, overflowed, pushes, saving, saved, down, breaks>>

Init == /\ conn = [c \in Conns |-> [at |-> "none", client |-> NoOne]]
        /\ registered = {} /\ queue = [c \in Conns |-> <<>>]
        /\ client = [k \in Clients |-> NoOne]
        /\ pos = [c \in Conns |-> 0] /\ overflowed = {} /\ pushes = [t \in Topics |-> 0]
        /\ saving = {} /\ saved = {} /\ down = FALSE /\ breaks = 0
--------------------------------------------------------------------------------
(* SSEManager.                                                                   *)

Of(t) == {c \in registered : TopicOf(conn[c].client) = t}
Existing(t, app) == {c \in Of(t) : conn[c].client.app = app}
Pushed == FoldFunction(+, 0, pushes)
Full(c) == Len(queue[c]) >= QueueSize
\* put_nowait, for every connection of a set with room
Put(cs, m) == queue' = [c \in Conns |-> IF c \in cs /\ ~Full(c) THEN Append(queue[c], m) ELSE queue[c]]

\* disconnect_existing_appid, register_connection, create_connection_queue: the
\* app's earlier connection is told, if its queue has room, and forgotten
Fresh(c) == conn[c].at = "none" /\ \A d \in Conns : d < c => conn[d].at # "none"
Connect(k, c) ==
  LET old == Existing(TopicOf(k), k.app) IN
    /\ client[k] = NoOne /\ ~down /\ Fresh(c)
    /\ conn' = [conn EXCEPT ![c] = [at |-> "made", client |-> k]]
    /\ client' = [client EXCEPT ![k] = c]
    /\ Put(old, Disconnect) /\ registered' = (registered \ old) \cup {c}
    /\ pos' = [pos EXCEPT ![c] = pushes[TopicOf(k)]]
    /\ UNCHANGED <<overflowed, pushes, saving, saved, down, breaks>>

\* unregister_connection, by the connection's own id
GoneBroken(c) == Existing(TopicOf(conn[c].client), conn[c].client.app)   \* mutant: by the app, which has a new connection
Gone(c) == {c}

\* broadcast_message: a full queue misses the event
Broadcast(t) ==
  /\ Pushed < MaxEvents /\ ~down
  /\ pushes' = [pushes EXCEPT ![t] = @ + 1]
  /\ Put(Of(t), pushes[t] + 1)
  /\ overflowed' = overflowed \cup {c \in Of(t) : Full(c)}
  /\ UNCHANGED <<conn, registered, client, pos, down, breaks>>

\* signal_shutdown, once, and the cleanup of the lifespan after it
Shutdown ==
  /\ ~down /\ down' = TRUE /\ Put(registered, Disconnect)
  /\ UNCHANGED <<conn, registered, client, pos, overflowed, pushes, saving, saved, breaks>>
ManagerCleanup ==
  /\ down /\ registered # {} /\ registered' = {}
  /\ UNCHANGED <<conn, queue, client, pos, overflowed, pushes, saving, saved, down, breaks>>
--------------------------------------------------------------------------------
(* The channels.                                                                 *)

\* create_connection of each channel
ConnectMessages(k, c) == k.kind = "messages" /\ Connect(k, c)
ConnectAgent(k, c) == k.kind = "agent_requests" /\ Connect(k, c)
ConnectMetadata(k, c) == k.kind = "metadata" /\ Connect(k, c)
ConnectChat(k, c) == k.kind = "chat_external" /\ Connect(k, c)

PushMessage == \E t \in Topics : t[1] = "messages" /\ Broadcast(t) /\ UNCHANGED <<saving, saved>>
SendRequest == \E t \in Topics : t[1] = "agent_requests" /\ Broadcast(t) /\ UNCHANGED <<saving, saved>>
PushChatEvent == \E t \in Topics : t[1] = "chat_external" /\ Broadcast(t) /\ UNCHANGED <<saving, saved>>
\* a metadata event is saved after it was sent, and a failure is only logged
PushMetadata(t) ==
  /\ t[1] = "metadata" /\ Broadcast(t)
  /\ saving' = saving \cup {pushes[t] + 1} /\ UNCHANGED saved
\* push_room_started, _ended, _record_done, _summary_done
PushRoomEvent == \E t \in Topics : PushMetadata(t)
SaveEvent == \E e \in saving :
  /\ saving' = saving \ {e} /\ \E ok \in BOOLEAN : saved' = IF ok THEN saved \cup {e} ELSE saved
  /\ UNCHANGED <<conn, registered, queue, client, pos, overflowed, pushes, down, breaks>>
--------------------------------------------------------------------------------
(* A connection: event_generator, and the client at its other end.               *)

Ends(c, s) == conn' = [conn EXCEPT ![c].at = s]
\* the response is iterated: "connected"
Start(c) ==
  /\ conn[c].at = "made" /\ Ends(c, "streaming")
  /\ UNCHANGED <<registered, queue, client, pos, overflowed, pushes, saving, saved, down, breaks>>
Next1(c) == Head(queue[c])
\* the head of the queue goes to the client, if it is still there
Yield(c) ==
  /\ conn[c].at = "streaming" /\ queue[c] # <<>> /\ Next1(c) # Disconnect
  /\ queue' = [queue EXCEPT ![c] = Tail(@)]
  /\ pos' = IF Reads(c) THEN [pos EXCEPT ![c] = @ + 1] ELSE pos
  /\ UNCHANGED <<conn, registered, client, overflowed, pushes, saving, saved, down, breaks>>
\* a disconnect message ends the loop
YieldDisconnect(c) ==
  /\ conn[c].at = "streaming" /\ queue[c] # <<>> /\ Next1(c) = Disconnect
  /\ Ends(c, "ending") /\ queue' = [queue EXCEPT ![c] = Tail(@)]
  /\ UNCHANGED <<registered, client, pos, overflowed, pushes, saving, saved, down, breaks>>
\* the finally clause; the client's stream is over, and it will connect again
Unregister(c) ==
  /\ conn[c].at = "ending" /\ Ends(c, "over")
  /\ registered' = registered \ Gone(c)
  /\ client' = IF Reads(c) THEN [client EXCEPT ![conn[c].client] = NoOne] ELSE client
  /\ UNCHANGED <<queue, pos, overflowed, pushes, saving, saved, down, breaks>>

\* the client's side of a connection breaks
Break(k) ==
  /\ client[k] # NoOne /\ breaks < MaxBreaks
  /\ client' = [client EXCEPT ![k] = NoOne] /\ breaks' = breaks + 1
  /\ UNCHANGED <<conn, registered, queue, pos, overflowed, pushes, saving, saved, down>>
\* the server finds out and cancels the response: a generator that never began has
\* no finally clause to run, and stays registered
Notice(c) ==
  /\ conn[c].at \in {"made", "streaming"} /\ ~Reads(c)
  /\ Ends(c, IF conn[c].at = "made" THEN "over" ELSE "ending")
  /\ UNCHANGED <<registered, queue, client, pos, overflowed, pushes, saving, saved, down, breaks>>

Connection(c) == Start(c) \/ Yield(c) \/ YieldDisconnect(c) \/ Unregister(c) \/ Notice(c)
Push == PushMessage \/ SendRequest \/ PushChatEvent \/ PushRoomEvent
Open(k, c) == ConnectMessages(k, c) \/ ConnectAgent(k, c) \/ ConnectMetadata(k, c) \/ ConnectChat(k, c)
Next == \/ \E k \in Clients : Break(k) \/ \E c \in Conns : Open(k, c)
        \/ \E c \in Conns : Connection(c)
        \/ Push \/ SaveEvent \/ Shutdown \/ ManagerCleanup
Spec == Init /\ [][Next]_vars
\* the event loop runs every generator, and a cancelled response ends
FairSpec == Spec /\ \A c \in Conns : WF_vars(Start(c)) /\ WF_vars(Yield(c) \/ YieldDisconnect(c) \/ Unregister(c))
--------------------------------------------------------------------------------
(* What a replaced connection is promised; what the newest is promised is in      *)
(* EventState.                                                                   *)

\* A connection that a newer one of its app replaced comes to its end
\* (sse_manager.py:166 "Queue full, will be disconnected anyway when we remove the
\* queue").
Replaced(c) == conn[c].at = "streaming" /\ ~Newest(c)
ReplacedEnds == \A c \in Conns : Replaced(c) ~> conn[c].at = "over"
================================================================================
