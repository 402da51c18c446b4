------------------------------ MODULE MCStreamTasks ------------------------------
(* Finite instances of the two users of the stream queue, checked in one run:       *)
(* `part` says whether the processor is any or the one of audio-processing-service. *)
EXTENDS DerivativeWorker

VARIABLE part

all == <<vars, reports, part>>

\* a processor that is any tells nobody of its failures
MCInit == \/ part = "derivative" /\ WorkerInit
          \/ part = "any" /\ Init /\ unheard = Tasks
             /\ posted = [w \in Workers |-> {}] /\ heard = [t \in Tasks |-> {}]
MCNext == /\ \/ part = "any" /\ Next /\ UNCHANGED reports
             \/ part = "derivative" /\ WorkerNext
          /\ UNCHANGED part

\* StreamQueue's fairness, of either service's steps
Either(A, B) == UNCHANGED part /\ ((part = "any" /\ A /\ UNCHANGED reports) \/ (part = "derivative" /\ B))
Consumes(w) == Either(ConsumerStep(w), ReadNext(w) \/ TaskStep(w, "consumer"))
Recovers(w) == Either(OrphanStep(w), Recover(w) \/ Claim(w) \/ TaskStep(w, "orphan"))

MCFairness ==
    /\ WF_all(UNCHANGED <<part, reports>> /\ \E m \in Ids : Ripen(m))
    /\ \A w \in Workers : /\ WF_all(Consumes(w)) /\ WF_all(Recovers(w))
                          /\ WF_all(UNCHANGED <<part, reports>> /\ StopStep(w))
                          /\ WF_all(UNCHANGED <<part, reports>> /\ Restart(w))

MCSpec == MCInit /\ [][MCNext]_all /\ MCFairness
================================================================================
