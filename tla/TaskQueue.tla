------------------------------- MODULE TaskQueue -------------------------------
(***************************************************************************)
(* What a Redis-backed task queue promises to the code around it: at least *)
(* once.  A submitted task can be fetched until one of its runs succeeded  *)
(* or it was put on the dead-letter queue; it may be run again after that. *)
(***************************************************************************)
CONSTANT Tasks

VARIABLES
    held,   \* tasks with an entry that some worker will be given
    done,   \* tasks one of whose runs succeeded
    dead    \* tasks on the dead-letter queue

vars == <<held, done, dead>>

Init == held = {} /\ done = {} /\ dead = {}

\* by a producer, or again: a retry, a redrive, or an entry given to two workers
Submit(t)   == t \in Tasks /\ held' = held \cup {t} /\ UNCHANGED <<done, dead>>
Complete(t) == t \in held \cup dead \cup done /\ done' = done \cup {t} /\ UNCHANGED <<held, dead>>
Bury(t)     == t \in held \cup dead \cup done /\ dead' = dead \cup {t} /\ UNCHANGED <<held, done>>
\* only what is done or dead-lettered is let go
Release(t)  == t \in done \cup dead /\ held' = held \ {t} /\ UNCHANGED <<done, dead>>
\* an operator's redrive: the task is held again before it leaves the dead letters
Exhume(t)   == t \in held \cup done /\ dead' = dead \ {t} /\ UNCHANGED <<held, done>>

Settle(t) == t \notin done \cup dead /\ (Complete(t) \/ Bury(t))

Next == \E t \in Tasks : Submit(t) \/ Complete(t) \/ Bury(t) \/ Release(t) \/ Exhume(t)

\* nothing is let go unsettled ...
Safety == Init /\ [][Next]_vars
\* ... and a held task is settled in the end
Spec == Safety /\ \A t \in Tasks : WF_vars(Settle(t))

================================================================================
