-------------------------------- MODULE MCJobs --------------------------------
(***************************************************************************)
(* Jobs for TLC: a behaviour is about several jobs in their queues, or about *)
(* the page of one job.                                                       *)
(***************************************************************************)
EXTENDS JobLogStream

VARIABLE part \* the question of this behaviour

vars == <<part, streamVars>>

Init == part \in {"queues", "page"} /\ StreamInit

QueuesPart == part = "queues" /\ JobStep /\ UNCHANGED <<part, pageVars>>

\* Bound: the page shows a job that is alone and in no queue.
PagePart ==
    /\ part = "page" /\ StreamNext /\ UNCHANGED part
    /\ made' <= 1 /\ \A k \in Keys : queues'[k] = <<>>

Next == QueuesPart \/ PagePart

Spec == Init /\ [][Next]_vars /\ JobFairness /\ StreamFairness

\* Every job ends, and the page of a job learns that it has.
JobsEndAndAreSeen == EveryJobEnds /\ PageLearnsTheEnd
=============================================================================
