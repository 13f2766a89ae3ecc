--------------------------- MODULE MCWorkerPool ---------------------------
(* Instances of WorkerPool for TLC.                                         *)
EXTENDS WorkerPool

MCUnits == IF Minions = {"m1"} THEN <<"m1">> ELSE <<"m1", "m2">>

\* One of two threads may serve low priority jobs.
NarrowMark == [c \in Categories |-> IF c = "HIGH" THEN 2 ELSE 1]
\* More slots than a behaviour can use up.
WideMark == [c \in Categories |-> 8]

\* What the implementations do with their own job.
NoOps == [j \in Jobs |-> {}]
Repeating == [j \in Jobs |-> {"Submit", "Reschedule"}]
Revoking == [j \in Jobs |-> {"Revoke"}]
Periodic == [j \in Jobs |-> {"Reschedule"}]
\* "x" submits itself, "y" reschedules itself as well.
Mixed == [j \in Jobs |-> IF j = "x" THEN {"Submit"} ELSE {"Submit", "Reschedule"}]
\* What they do with another job.
Submitting == [j \in Jobs |-> {"Submit"}]
=============================================================================
