----------------------------- MODULE JobQueue -----------------------------
(***************************************************************************)
(* The job queue and the threads around it: the resource monitor that      *)
(* posts the COM-RPC requests it reads from the channels, threads that     *)
(* insert jobs, threads that revoke them, and the minions.                 *)
(*                                                                         *)
(* A job may make an outgoing COM-RPC call that only returns after the     *)
(* callee has called back.  The monitor submits such a callback with high  *)
(* priority, since its channel has a call in progress; a first request has *)
(* low priority, and ThreadPool::Submit offers medium as well.             *)
(***************************************************************************)
EXTENDS CategoryQueue

CONSTANTS
    Inserters,      \* threads that do not belong to the pool
    Callback,       \* [Jobs -> Jobs \cup {NoJob}], the callback a job's call needs
    Priority,       \* [Jobs -> Categories], with which a job that is no callback comes
    Revocable       \* the jobs that are revoked

ASSUME RoleAssumption ==
    /\ Callback \in [Jobs -> Jobs \cup {NoJob}]
    /\ Priority \in [Jobs -> Categories]

Callbacks == {Callback[j] : j \in Jobs} \ {NoJob}
Requests == Jobs \ Callbacks

VARIABLES
    call,           \* how far the outgoing call of a job has got
    inserting,      \* the job an inserter is inside Insert with
    blocked         \* ... and whether it waits for its entry to leave the deque

vars == <<queueVars, call, inserting, blocked>>

Init ==
    /\ QueueInit
    /\ call = [j \in Jobs |-> "none"]
    /\ inserting = [i \in Inserters |-> NoJob]
    /\ blocked = [i \in Inserters |-> FALSE]

\* ThreadPool::Submit asserts that the queue does not hold the job.
Free(j) == ~HasEntry(j) /\ \A i \in Inserters : inserting[i] # j

\* InvokeServer::Procedure on the thread of the resource monitor.
Request(j) ==
    /\ j \in Requests /\ Free(j)
    /\ Post(j, Priority[j])
    /\ UNCHANGED <<call, inserting, blocked>>

\* Mutant of RequestBack: the priority is not raised.
RequestBackLow(j) ==
    /\ call[j] = "out" /\ Free(Callback[j])
    /\ Post(Callback[j], "LOW")
    /\ call' = [call EXCEPT ![j] = "called back"]
    /\ UNCHANGED <<inserting, blocked>>

\* The same on a channel that is occupied by the outgoing call of job j.
RequestBack(j) ==
    /\ call[j] = "out" /\ Free(Callback[j])
    /\ Post(Callback[j], "HIGH")
    /\ call' = [call EXCEPT ![j] = "called back"]
    /\ UNCHANGED <<inserting, blocked>>

\* ThreadPool::Submit on a thread that is not one of the pool.
InsertCall(i, j) ==
    /\ inserting[i] = NoJob /\ j \in Requests /\ Free(j)
    /\ inserting' = [inserting EXCEPT ![i] = j]
    /\ UNCHANGED <<queueVars, call, blocked>>

InsertTry(i) ==
    /\ inserting[i] # NoJob /\ ~blocked[i]
    /\ Insert(inserting[i], Priority[inserting[i]])
    /\ \/ /\ ready' = ready
          /\ blocked' = [blocked EXCEPT ![i] = TRUE]
          /\ UNCHANGED inserting
       \/ /\ ready' # ready
          /\ inserting' = [inserting EXCEPT ![i] = NoJob]
          /\ UNCHANGED blocked
    /\ UNCHANGED call

\* CategoryAdminType::AwaitQueuing returns.
InsertReturn(i) ==
    /\ blocked[i] /\ ~Contains(waiting[Priority[inserting[i]]], inserting[i])
    /\ inserting' = [inserting EXCEPT ![i] = NoJob]
    /\ blocked' = [blocked EXCEPT ![i] = FALSE]
    /\ UNCHANGED <<queueVars, call>>

\* ThreadPool::Revoke of a job that has not started.
Revoke(j) ==
    /\ j \in Revocable
    /\ RemoveEntry(j)
    /\ UNCHANGED <<call, inserting, blocked>>

\* Minion::Process.
MinionExtract(m) ==
    /\ Extract(m)
    /\ UNCHANGED <<call, inserting, blocked>>

MinionCall(m) ==
    /\ running[m] # NoJob
    /\ Callback[running[m].job] # NoJob /\ call[running[m].job] = "none"
    /\ call' = [call EXCEPT ![running[m].job] = "out"]
    /\ UNCHANGED <<queueVars, inserting, blocked>>

\* The job returns from its Dispatch; a callback that does lets its caller go on.
Returned(j) ==
    [k \in Jobs |-> CASE k = j -> "none"
                      [] Callback[k] = j -> "answered"
                      [] OTHER -> call[k]]

MinionComplete(m) ==
    /\ Completion(m)
    /\ Callback[running[m].job] = NoJob \/ call[running[m].job] = "answered"
    /\ call' = Returned(running[m].job)
    /\ UNCHANGED <<inserting, blocked>>

Minion(m) == MinionExtract(m) \/ MinionCall(m) \/ MinionComplete(m)
Inserter(i) == InsertTry(i) \/ InsertReturn(i)

Next ==
    \/ \E j \in Jobs : Request(j) \/ RequestBack(j) \/ Revoke(j)
    \/ \E i \in Inserters, j \in Jobs : InsertCall(i, j)
    \/ \E i \in Inserters : Inserter(i)
    \/ \E m \in Minions : Minion(m)

Spec == Init /\ [][Next]_vars

\* The minions run, a callee calls back, and a thread that waits is woken.  An
\* inserter may find the queue LIMITED again each time it is woken: there is no
\* strong fairness, and no promise that it ever gets in.
Fairness ==
    /\ \A m \in Minions : WF_vars(Minion(m))
    /\ \A j \in Jobs : WF_vars(RequestBack(j))
    /\ \A i \in Inserters : WF_vars(Inserter(i))

FairSpec == Spec /\ Fairness

-----------------------------------------------------------------------------
TypeOK ==
    /\ QueueTypeOK
    /\ call \in [Jobs -> {"none", "out", "called back", "answered"}]
    /\ inserting \in [Inserters -> Jobs \cup {NoJob}]
    /\ blocked \in [Inserters -> BOOLEAN]

\* A queued job is assigned to a minion or revoked: "it will assign the job to
\* a worker" (docs/utils/threading/worker-pool.md:115).
Served == \A j \in Jobs : (IsReady(j) \/ IsWaiting(j)) ~> ~(IsReady(j) \/ IsWaiting(j))

\* A job that waits for a callback gets it, although low priority jobs may hold
\* all the slots they can get: at least one thread is available for high
\* priority jobs (ThunderReleaseNotes_R5.3.md:40-42).
CalledBack == \A j \in Jobs : call[j] = "out" ~> call[j] = "none"

=============================================================================
