--------------------------- MODULE MCRoomLifecycle ---------------------------
(* Finite instances of RoomLifecycle for TLC. *)
EXTENDS RoomLifecycle, TLC

CONSTANTS r1, r2, t1, t2

\* both tracks belong to the first session
RoomOfFirst == [t \in Tracks |-> r1]

Ops == TrackOps \cup RoomOps
Once == [op \in Ops |-> 1]
\* what is retried while its first handler may still be running
Again == [op \in Ops |-> IF op \in {"completed", "derived"} THEN 2 ELSE 1]

================================================================================
