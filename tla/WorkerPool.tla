---------------------------- MODULE WorkerPool ----------------------------
(***************************************************************************)
(* The worker pool: jobs (ThreadPool::JobType and IWorkerPool::JobType),   *)
(* the minions that run them, the timer that submits them later, and       *)
(* WorkerPool::Revoke, which has to find out where a job is.               *)
(*                                                                         *)
(* A job has one atomic _state, and no lock: each method tries a chain of  *)
(* compare_exchange_strong, one after the other, until one succeeds.       *)
(* Every attempt is a step of its own, so other threads act between two    *)
(* attempts of a chain and between a chain and the queue.                  *)
(*                                                                         *)
(* All jobs are submitted with low priority, as JobType does.  Time is     *)
(* abstracted: a scheduled job may fire at any moment.  The pool is up and *)
(* running; its start and stop are not modelled.                           *)
(***************************************************************************)
EXTENDS CategoryQueue

CONSTANTS
    Users,          \* threads outside the pool that use jobs
    TimerThread,    \* the thread of TimerType
    Units,          \* the minions in the order of _units, the joined one last
    UserOps,        \* the operations that users call
    RunOps,         \* the operations that the implementation of each job calls on it
    OtherOps,       \* ... and on other jobs
    Careful,        \* jobs on which users take turns, and revoke before they submit again
    MaxRevokes      \* bound: number of Revoke and destructor calls

Actors == Users \cup Minions \cup {TimerThread}
Calls == {"Submit", "Reschedule", "Revoke", "Destroy"}

ASSUME ThreadAssumption ==
    /\ Users \cap Minions = {} /\ TimerThread \notin Users \cup Minions
    /\ MaxRevokes \in Nat
ASSUME OperationAssumption ==
    /\ UserOps \subseteq Calls
    /\ RunOps \in [Jobs -> SUBSET Calls] /\ OtherOps \in [Jobs -> SUBSET Calls]

VARIABLES
    state,      \* JobType::_state
    life,       \* of a job: "alive", "dying" (in its destructor) or "gone"
    asked,      \* since the last Revoke the job has been submitted (for Careful)
    thread,     \* where each thread is: operation, step, place in a chain, job
    current,    \* Minion::_currentRequest
    interest,   \* Minion::_interestCount: the threads that wait for the minion
    timer,      \* the number of entries for a job in TimerType::_pendingQueue
    revokes     \* the number of Revoke and destructor calls so far

vars == <<queueVars, state, life, asked, thread, current, interest, timer, revokes>>
poolVars == <<state, life, asked, current, interest, timer, revokes>>

\* The attempts of each method: the expected value and the one that replaces it.

\* Mutant of SubmitChain: Submit of an idle job only looks at the state.
SubmitChainLoads ==
    << <<"EXECUTING", "RESUBMIT">>, <<"SCHEDULE", "RESUBMIT">>, <<"IDLE", "IDLE">> >>

SubmitChain ==
    << <<"EXECUTING", "RESUBMIT">>, <<"SCHEDULE", "RESUBMIT">>, <<"IDLE", "SUBMITTED">> >>

RescheduleChain ==
    << <<"EXECUTING", "SCHEDULE">>, <<"RESUBMIT", "SCHEDULE">>,
       <<"SUBMITTED", "SCHEDULE">>, <<"IDLE", "SCHEDULE">> >>

\* Mutant of RevokeChain: a job that is queued is not looked for.
RevokeChainRunning ==
    << <<"REVOKING", "REVOKING">>, <<"EXECUTING", "REVOKING">>,
       <<"RESUBMIT", "REVOKING">>, <<"SCHEDULE", "REVOKING">> >>

\* RevokeRequired starts with a load, which succeeds when the value is REVOKING.
RevokeChain ==
    << <<"REVOKING", "REVOKING">>, <<"SUBMITTED", "REVOKING">>, <<"EXECUTING", "REVOKING">>,
       <<"RESUBMIT", "REVOKING">>, <<"SCHEDULE", "REVOKING">> >>

\* Mutant of ResubmitChain: it ends a revocation.
ResubmitChainResets ==
    << <<"EXECUTING", "IDLE">>, <<"RESUBMIT", "SUBMITTED">>, <<"REVOKING", "IDLE">> >>

ResubmitChain ==
    << <<"EXECUTING", "IDLE">>, <<"RESUBMIT", "SUBMITTED">>, <<"SCHEDULE", "SUBMITTED">> >>

Chain ==
    [ Submit |-> SubmitChain,
      Reschedule |-> RescheduleChain,
      RevokeRequired |-> RevokeChain,
      Revoked |-> << <<"REVOKING", "IDLE">> >>,
      Idle |-> << <<"IDLE", "SUBMITTED">> >>,
      Dispatch |-> << <<"SUBMITTED", "EXECUTING">> >>,
      Resubmit |-> ResubmitChain ]

States == {"IDLE", "SUBMITTED", "EXECUTING", "RESUBMIT", "SCHEDULE", "REVOKING"}
Steps == DOMAIN Chain \cup
    {"rest", "enqueue", "await", "schedule", "timer", "queue", "units", "wait",
     "run", "completion", "release", "drain"}

Resting == [op |-> "none", pc |-> "rest", at |-> 1, job |-> NoJob]

Init ==
    /\ QueueInit
    /\ state = [j \in Jobs |-> "IDLE"]
    /\ life = [j \in Jobs |-> "alive"]
    /\ asked = [j \in Jobs |-> FALSE]
    /\ thread = [a \in Actors |-> Resting]
    /\ current = [m \in Minions |-> NoJob]
    /\ interest = [m \in Minions |-> {}]
    /\ timer = [j \in Jobs |-> 0]
    /\ revokes = 0

At(a, step) == thread[a].pc = step
JobOf(a) == thread[a].job

\* The minion is inside the Dispatch of an implementation, or in a call it makes.
InDispatch(m) == At(m, "run") \/ thread[m].op # "none"

Go(a, step) == thread' = [thread EXCEPT ![a].pc = step, ![a].at = 1]
Further(a) == thread' = [thread EXCEPT ![a].at = @ + 1]

\* The operation is over: the caller is a user, the timer, or an implementation.
Return(a) ==
    thread' = [thread EXCEPT ![a] =
                IF a \in Minions
                THEN [op |-> "none", pc |-> "run", at |-> 1, job |-> current[a]]
                ELSE Resting]

-----------------------------------------------------------------------------
(* The calls.                                                               *)

\* Nobody but the implementation of the job itself is in a call on it.
Untouched(j) ==
    \A a \in Actors \ {TimerThread} :
        thread[a].op # "none" /\ JobOf(a) = j => a \in Minions /\ current[a] = j

FirstStep(op) == IF op \in {"Revoke", "Destroy"} THEN "RevokeRequired" ELSE op

Begin(a, op, j) ==
    /\ op \in {"Revoke", "Destroy"} => revokes < MaxRevokes
    /\ revokes' = IF op \in {"Revoke", "Destroy"} THEN revokes + 1 ELSE revokes
    /\ life' = IF op = "Destroy" THEN [life EXCEPT ![j] = "dying"] ELSE life
    /\ asked' = IF op \in {"Submit", "Reschedule"} THEN [asked EXCEPT ![j] = TRUE] ELSE asked
    /\ thread' = [thread EXCEPT ![a] = [op |-> op, pc |-> FirstStep(op), at |-> 1, job |-> j]]
    /\ UNCHANGED <<queueVars, state, current, interest, timer>>

\* The owner of a job destroys it when nobody else uses it any more.
MayCall(op, j) ==
    /\ life[j] = "alive"
    /\ op = "Destroy" => Untouched(j)

UserCall(u, op, j) ==
    /\ u \in Users /\ At(u, "rest") /\ op \in UserOps
    /\ MayCall(op, j)
    /\ j \in Careful => Untouched(j) /\ (op \in {"Submit", "Reschedule"} => ~asked[j])
    /\ Begin(u, op, j)

\* An implementation calls its own job, also while that is being destroyed, or
\* another one.
RunCall(m, op, j) ==
    /\ At(m, "run")
    /\ \/ /\ op \in RunOps[j] /\ j = current[m] /\ life[j] # "gone"
       \/ /\ op \in OtherOps[j] /\ j # current[m] /\ MayCall(op, j)
    /\ Begin(m, op, j)

-----------------------------------------------------------------------------
(* The chains.                                                              *)

\* A failed Revoke of the state ends the operation, except in Reschedule.
AfterRevoke(op) == IF op = "Reschedule" THEN "Idle" ELSE "return"

\* Where a thread goes when attempt i of a chain has succeeded, or none (i = 0).

\* Mutant of AfterSubmit: a job that is running is submitted at once.
AfterSubmitEager(i) == IF i \in {1, 3} THEN "enqueue" ELSE "return"

AfterSubmit(i) == IF i = 3 THEN "enqueue" ELSE "return"

\* Mutant of AfterResubmit: the answer of Resubmit is ignored.
AfterResubmitIdle(i) == "release"

AfterResubmit(i) ==
    CASE i = 2 -> "enqueue" [] i = 3 -> "schedule" [] OTHER -> "release"

Follow(op, chain, i) ==
    CASE chain = "Submit" -> AfterSubmit(i)
      [] chain = "Reschedule" -> IF i \in {3, 4} THEN "RevokeRequired" ELSE "return"
      [] chain = "RevokeRequired" -> IF i # 0 THEN "timer" ELSE AfterRevoke(op)
      [] chain = "Revoked" -> AfterRevoke(op)
      [] chain = "Idle" -> IF i = 1 THEN "schedule" ELSE "return"
      [] chain = "Dispatch" -> IF i = 1 THEN "run" ELSE "completion"
      [] chain = "Resubmit" -> AfterResubmit(i)

\* The end of a call: a Revoke forgets the submissions before it, and the
\* destructor of IWorkerPool::JobType is followed by the end of the job.
Finish(a, step) ==
    LET ends == step = "return"
        j == JobOf(a)
    IN  /\ IF ends THEN Return(a) ELSE Go(a, step)
        /\ asked' = IF ends /\ thread[a].op = "Revoke" THEN [asked EXCEPT ![j] = FALSE] ELSE asked
        /\ life' = IF ends /\ thread[a].op = "Destroy" THEN [life EXCEPT ![j] = "gone"] ELSE life

\* One compare_exchange_strong.
CompareExchange(a) ==
    LET chain == thread[a].pc
        i == thread[a].at
        j == JobOf(a)
    IN  /\ chain \in DOMAIN Chain
        /\ \/ /\ state[j] = Chain[chain][i][1]
              /\ state' = [state EXCEPT ![j] = Chain[chain][i][2]]
              /\ Finish(a, Follow(thread[a].op, chain, i))
           \/ /\ state[j] # Chain[chain][i][1]
              /\ i < Len(Chain[chain])
              /\ Further(a)
              /\ UNCHANGED <<state, life, asked>>
           \/ /\ state[j] # Chain[chain][i][1]
              /\ i = Len(Chain[chain])
              /\ Finish(a, Follow(thread[a].op, chain, 0))
              /\ UNCHANGED state
        /\ UNCHANGED <<queueVars, current, interest, timer, revokes>>

-----------------------------------------------------------------------------
(* ThreadPool::Submit and WorkerPool::Schedule.                             *)

\* A minion that resubmits its job goes on to release it, others return.
Handed(a) ==
    IF a \in Minions /\ thread[a].op = "none" THEN Go(a, "release") ELSE Return(a)

\* Threads of the pool never wait for the queue, all others do.
Enqueue(a) ==
    /\ At(a, "enqueue")
    /\ \/ /\ a \in Minions
          /\ Post(JobOf(a), "LOW")
          /\ Handed(a)
       \/ /\ a \notin Minions
          /\ Insert(JobOf(a), "LOW")
          /\ IF ready' = ready THEN Go(a, "await") ELSE Handed(a)
    /\ UNCHANGED poolVars

\* CategoryAdminType::AwaitQueuing.
Await(a) ==
    /\ At(a, "await") /\ ~IsWaiting(JobOf(a))
    /\ Return(a)
    /\ UNCHANGED <<queueVars, poolVars>>

\* The moment lies in the future, or it has passed.
Schedule(a) ==
    /\ At(a, "schedule")
    /\ \/ /\ timer' = [timer EXCEPT ![JobOf(a)] = @ + 1]
          /\ Handed(a)
       \/ /\ Go(a, "enqueue")
          /\ UNCHANGED timer
    /\ UNCHANGED <<queueVars, state, life, asked, current, interest, revokes>>

\* Mutant of Fire: it does not look whether there is an entry.
FireAnyway(j) ==
    /\ At(TimerThread, "rest")
    /\ timer' = [timer EXCEPT ![j] = @ - 1]
    /\ thread' = [thread EXCEPT ![TimerThread].pc = "enqueue", ![TimerThread].job = j]
    /\ UNCHANGED <<queueVars, state, life, asked, current, interest, revokes>>

\* TimerType::Process takes the entry out of its queue and, without the lock,
\* lets Timer::Timed submit the job.
Fire(j) ==
    /\ At(TimerThread, "rest") /\ timer[j] > 0
    /\ timer' = [timer EXCEPT ![j] = @ - 1]
    /\ thread' = [thread EXCEPT ![TimerThread].pc = "enqueue", ![TimerThread].job = j]
    /\ UNCHANGED <<queueVars, state, life, asked, current, interest, revokes>>

-----------------------------------------------------------------------------
(* WorkerPool::Revoke and ThreadPool::Revoke.                               *)

\* TimerType::Revoke.  It recognises an entry that is being fired by its
\* address, and WorkerPool passes a temporary: it does not wait for that one.
RevokeTimer(a) ==
    /\ At(a, "timer")
    /\ timer' = [timer EXCEPT ![JobOf(a)] = 0]
    /\ Go(a, "queue")
    /\ UNCHANGED <<queueVars, state, life, asked, current, interest, revokes>>

\* ThreadPool::Revoke of the queue: an entry that is there is gone.
RevokeQueue(a) ==
    /\ At(a, "queue")
    /\ \/ /\ RemoveEntry(JobOf(a))
          /\ Go(a, "Revoked")
       \/ /\ ~IsReady(JobOf(a)) /\ ~IsWaiting(JobOf(a))
          /\ Go(a, "units")
          /\ UNCHANGED queueVars
    /\ UNCHANGED poolVars

\* One unit of the loop.  A thread that comes across itself stops looking.
RevokeUnit(a) ==
    LET u == Units[thread[a].at]
    IN  /\ At(a, "units")
        /\ \/ /\ u # a /\ current[u] = JobOf(a)
              /\ interest' = [interest EXCEPT ![u] = @ \cup {a}]
              /\ thread' = [thread EXCEPT ![a].pc = "wait"]
           \/ /\ u # a /\ current[u] # JobOf(a)
              /\ IF thread[a].at = Len(Units) THEN Go(a, "Revoked") ELSE Further(a)
              /\ UNCHANGED interest
           \/ /\ u = a
              /\ Go(a, "Revoked")
              /\ UNCHANGED interest
        /\ UNCHANGED <<queueVars, state, life, asked, current, timer, revokes>>

\* Minion::Completed, once the event is set.
RevokeWait(a) ==
    LET u == Units[thread[a].at]
    IN  /\ At(a, "wait") /\ At(u, "drain")
        /\ interest' = [interest EXCEPT ![u] = @ \ {a}]
        /\ Go(a, "Revoked")
        /\ UNCHANGED <<queueVars, state, life, asked, current, timer, revokes>>

-----------------------------------------------------------------------------
(* Minion::Process.                                                         *)

MinionExtract(m) ==
    /\ At(m, "rest")
    /\ Extract(m)
    /\ current' = [current EXCEPT ![m] = Head(ready).job]
    /\ thread' = [thread EXCEPT ![m] =
                    [op |-> "none", pc |-> "Dispatch", at |-> 1, job |-> Head(ready).job]]
    /\ UNCHANGED <<state, life, asked, interest, timer, revokes>>

\* The implementation returns.
RunEnd(m) ==
    /\ At(m, "run")
    /\ Go(m, "completion")
    /\ UNCHANGED <<queueVars, poolVars>>

\* ThreadPool::Completed: first the queue, then the job.
MinionCompletion(m) ==
    /\ At(m, "completion")
    /\ Completion(m)
    /\ Go(m, "Resubmit")
    /\ UNCHANGED poolVars

\* Mutant of Release: the event is not set.
ReleaseSilently(m) ==
    /\ At(m, "release")
    /\ current' = [current EXCEPT ![m] = NoJob]
    /\ thread' = [thread EXCEPT ![m] = Resting]
    /\ UNCHANGED <<queueVars, state, life, asked, interest, timer, revokes>>

\* Under _adminLock the request is released; whoever waits for it is signalled,
\* and the minion goes on when all of them have noticed.
Release(m) ==
    /\ At(m, "release")
    /\ current' = [current EXCEPT ![m] = NoJob]
    /\ IF interest[m] = {} THEN thread' = [thread EXCEPT ![m] = Resting] ELSE Go(m, "drain")
    /\ UNCHANGED <<queueVars, state, life, asked, interest, timer, revokes>>

Drain(m) ==
    /\ At(m, "drain") /\ interest[m] = {}
    /\ thread' = [thread EXCEPT ![m] = Resting]
    /\ UNCHANGED <<queueVars, poolVars>>

-----------------------------------------------------------------------------
Advance(a) ==
    \/ CompareExchange(a)
    \/ Enqueue(a) \/ Await(a) \/ Schedule(a)
    \/ RevokeTimer(a) \/ RevokeQueue(a) \/ RevokeUnit(a) \/ RevokeWait(a)

MinionStep(m) == MinionExtract(m) \/ MinionCompletion(m) \/ Release(m) \/ Drain(m)

Next ==
    \/ \E u \in Users, op \in UserOps, j \in Jobs : UserCall(u, op, j)
    \/ \E m \in Minions, j \in Jobs : \E op \in RunOps[j] \cup OtherOps[j] : RunCall(m, op, j)
    \/ \E a \in Actors : Advance(a)
    \/ \E j \in Jobs : Fire(j)
    \/ \E m \in Minions : MinionStep(m) \/ RunEnd(m)

Spec == Init /\ [][Next]_vars

\* Threads are scheduled and the clock moves on.  Strong fairness of RunEnd says
\* that an implementation makes finitely many calls before it returns, that of
\* Fire that TimerType fires in the order of the times: no entry is passed over
\* for ever by entries for later times.
Fairness ==
    /\ \A a \in Actors : WF_vars(Advance(a))
    /\ \A m \in Minions : WF_vars(MinionStep(m)) /\ SF_vars(RunEnd(m))
    /\ \A j \in Jobs : SF_vars(Fire(j))

FairSpec == Spec /\ Fairness

-----------------------------------------------------------------------------
TypeOK ==
    /\ QueueTypeOK
    /\ state \in [Jobs -> States]
    /\ life \in [Jobs -> {"alive", "dying", "gone"}]
    /\ asked \in [Jobs -> BOOLEAN]
    /\ thread \in [Actors -> [op : Calls \cup {"none"}, pc : Steps, at : Nat \ {0},
                              job : Jobs \cup {NoJob}]]
    /\ current \in [Minions -> Jobs \cup {NoJob}]
    /\ interest \in [Minions -> SUBSET Actors]
    /\ timer \in [Jobs -> Nat]
    /\ revokes \in 0 .. MaxRevokes

\* Two minions never run the same job at the same time: the implementations are
\* written as if Dispatch were not reentrant.
OneRun ==
    \A m, n \in Minions :
        m # n /\ InDispatch(m) /\ InDispatch(n) => current[m] # current[n]

\* "A job should always be submitted only once" (WorkerPool.h:349): a thread that
\* is about to submit a job finds it neither in the timer nor in the queue.
SubmittedOnce ==
    \A a \in Actors : At(a, "enqueue") => timer[JobOf(a)] = 0 /\ ~HasEntry(JobOf(a))

\* A run begins only for a job that somebody has asked for since it was last
\* revoked, and never for one that its destructor has revoked: an entry that is left
\* in the queue, or with a minion that has just taken it, comes to nothing.
RunsWhenAsked ==
    [][\A m \in Minions : At(m, "Dispatch") /\ At(m, "run")' =>
          asked[JobOf(m)] /\ life[JobOf(m)] # "gone"]_vars

\* "The Revoke() method will either synchronously stop the potential run or wait for
\* the run to complete" (docs/utils/threading/worker-pool.md:191): nothing is left of
\* a job whose destructor has revoked it.
RevokeStops ==
    \A j \in Jobs : life[j] = "gone" =>
        /\ \A m \in Minions : InDispatch(m) => current[m] # j
        /\ ~HasEntry(j) /\ timer[j] = 0 /\ JobOf(TimerThread) # j

\* ASSERT(_state == IDLE) in ~JobType (ThreadPool.h:245).
DestroyedIdle == \A j \in Jobs : life[j] = "gone" => state[j] = "IDLE"

\* ASSERT(result == true) in JobType::Revoked (ThreadPool.h:337).
RevokedInTime == \A a \in Actors : At(a, "Revoked") => state[JobOf(a)] = "REVOKING"

\* No assertion of JobType fails: whoever revokes and destroys meanwhile, the
\* state is what the revoker has left.
JobAsserts == DestroyedIdle /\ RevokedInTime

\* A job that has been asked to run, or to run again, does so.
SubmitRuns ==
    \A j \in Jobs : state[j] \in {"SUBMITTED", "RESUBMIT", "SCHEDULE"} ~> state[j] = "EXECUTING"

\* Revoke and the destructor return.
RevokesReturn ==
    \A a \in Actors : thread[a].op \in {"Revoke", "Destroy"} ~> thread[a].op = "none"
=============================================================================
