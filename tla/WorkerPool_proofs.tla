------------------------- MODULE WorkerPool_proofs -------------------------
(***************************************************************************)
(* Machine-checked theorems about the worker pool, for every set of jobs   *)
(* and of threads, every number of minions and every choice of what users  *)
(* and implementations call.  TypeCorrect holds whatever they call.  The   *)
(* others are promises that do not hold when several threads revoke and    *)
(* submit one job at the same time: what the pool keeps as long as nobody  *)
(* revokes (OneRun, SubmittedOnce), and what it keeps when users take      *)
(* turns on each job (JobAsserts, RunsWhenAsked).                          *)
(***************************************************************************)
EXTENDS WorkerPool, CategoryQueue_proofs

-----------------------------------------------------------------------------
(* The types, whatever is called.                                           *)

\* A thread is in a chain at one of its attempts, and is about a job except
\* between two jobs; a minion keeps its job until it has released it.
ThreadShape(a) ==
    /\ thread[a].pc \in DOMAIN Chain => thread[a].at \in 1 .. Len(Chain[thread[a].pc])
    /\ thread[a].pc # "rest" => thread[a].job \in Jobs
    /\ a \in Minions /\ thread[a].pc \notin {"rest", "drain"} => current[a] \in Jobs

ThreadType ==
    [op : Calls \cup {"none"}, pc : Steps, at : Nat \ {0}, job : Jobs \cup {NoJob}]

ThreadsInv ==
    /\ thread \in [Actors -> ThreadType]
    /\ \A a \in Actors : ThreadShape(a)

JobsInv ==
    /\ state \in [Jobs -> States]
    /\ life \in [Jobs -> {"alive", "dying", "gone"}]
    /\ asked \in [Jobs -> BOOLEAN]

\* What the minions, the timer and the bound keep.
OthersInv ==
    /\ current \in [Minions -> Jobs \cup {NoJob}]
    /\ interest \in [Minions -> SUBSET Actors]
    /\ timer \in [Jobs -> Nat]
    /\ revokes \in 0 .. MaxRevokes

Inv == QueueInv /\ ThreadsInv /\ JobsInv /\ OthersInv

\* Every attempt expects a state and leaves one.
LEMMA ChainFacts ==
    ASSUME NEW c \in DOMAIN Chain
    PROVE  /\ c \in Steps
           /\ Len(Chain[c]) \in Nat \ {0}
           /\ \A i \in 1 .. Len(Chain[c]) : Chain[c][i][2] \in States
  <1>1. c \in Steps
    BY DEF Steps
  <1>2. DOMAIN Chain = {"Submit", "Reschedule", "RevokeRequired", "Revoked", "Idle",
                        "Dispatch", "Resubmit"}
    BY DEF Chain
  <1>3. /\ Len(Chain[c]) \in Nat \ {0}
        /\ \A i \in 1 .. Len(Chain[c]) : Chain[c][i][2] \in States
    <2>1. CASE c = "Submit"
      BY <2>1 DEF Chain, SubmitChain, States
    <2>2. CASE c = "Reschedule"
      BY <2>2 DEF Chain, RescheduleChain, States
    <2>3. CASE c = "RevokeRequired"
      BY <2>3 DEF Chain, RevokeChain, States
    <2>4. CASE c = "Revoked"
      BY <2>4 DEF Chain, States
    <2>5. CASE c = "Idle"
      BY <2>5 DEF Chain, States
    <2>6. CASE c = "Dispatch"
      BY <2>6 DEF Chain, States
    <2>7. CASE c = "Resubmit"
      BY <2>7 DEF Chain, ResubmitChain, States
    <2>. QED BY <1>2, <2>1, <2>2, <2>3, <2>4, <2>5, <2>6, <2>7
  <1>. QED BY <1>1, <1>3

\* A chain is followed by a step that is not between two jobs.
LEMMA FollowFacts ==
    ASSUME NEW op, NEW c \in DOMAIN Chain, NEW i \in Nat
    PROVE  Follow(op, c, i) \in (Steps \ {"rest", "drain"}) \cup {"return"}
  <1>1. DOMAIN Chain = {"Submit", "Reschedule", "RevokeRequired", "Revoked", "Idle",
                        "Dispatch", "Resubmit"}
    BY DEF Chain
  <1>. QED BY <1>1 DEF Follow, AfterRevoke, AfterSubmit, AfterResubmit, Steps

\* A thread that rests is about no job.
LEMMA RestingFacts == Resting \in ThreadType /\ Resting.pc = "rest" /\ "rest" \notin DOMAIN Chain
  <1>1. "rest" \in Steps
    BY DEF Steps
  <1>. QED BY <1>1 DEF Resting, ThreadType, Chain

LEMMA InitInv ==
    ASSUME Init
    PROVE  Inv
  <1>1. QueueInv
    BY QueueInitInv DEF Init
  <1>2. ThreadsInv
    BY RestingFacts DEF Init, ThreadsInv, ThreadShape
  <1>3. JobsInv
    BY DEF Init, JobsInv, States
  <1>4. OthersInv
    BY ThreadAssumption DEF Init, OthersInv
  <1>. QED BY <1>1, <1>2, <1>3, <1>4 DEF Inv

\* One thread changes, and of the minions at most this one its job.
LEMMA SetThread ==
    ASSUME Inv, NEW a \in Actors, NEW t \in ThreadType,
           thread' = [thread EXCEPT ![a] = t],
           t.pc \in DOMAIN Chain => t.at \in 1 .. Len(Chain[t.pc]),
           t.pc # "rest" => t.job \in Jobs,
           a \in Minions /\ t.pc \notin {"rest", "drain"} => current'[a] \in Jobs,
           \A m \in Minions : m # a => current'[m] = current[m]
    PROVE  ThreadsInv'
  <1>1. /\ thread \in [Actors -> ThreadType]
        /\ \A b \in Actors : ThreadShape(b)
    BY DEF Inv, ThreadsInv
  <1>2. /\ thread'[a] = t
        /\ \A b \in Actors : b # a => thread'[b] = thread[b]
        /\ thread' \in [Actors -> ThreadType]
    BY <1>1
  <1>3. ThreadShape(a)'
    BY <1>2 DEF ThreadShape
  <1>4. ASSUME NEW b \in Actors, b # a PROVE ThreadShape(b)'
    BY <1>1, <1>2, <1>4 DEF ThreadShape
  <1>. QED BY <1>2, <1>3, <1>4 DEF ThreadsInv

\* A thread moves to a step, in the same operation and about the same job.
LEMMA GoInv ==
    ASSUME Inv, NEW a \in Actors, NEW step \in Steps \ {"rest", "drain"},
           Go(a, step), thread[a].pc \notin {"rest", "drain"}, current' = current
    PROVE  ThreadsInv'
  <1>. DEFINE t == [op |-> thread[a].op, pc |-> step, at |-> 1, job |-> thread[a].job]
  <1>1. /\ thread \in [Actors -> ThreadType] /\ thread[a] \in ThreadType
        /\ ThreadShape(a)
    BY DEF Inv, ThreadsInv
  <1>2. thread' = [thread EXCEPT ![a] = t]
    <2>. DEFINE u == [op |-> thread[a].op, pc |-> step, at |-> thread[a].at,
                      job |-> thread[a].job]
    <2>1. [thread[a] EXCEPT !.pc = step] = u
      BY <1>1 DEF ThreadType
    <2>2. u \in ThreadType
      BY <1>1 DEF ThreadType
    <2>3. [u EXCEPT !.at = 1] = t
      OBVIOUS
    <2>4. thread' = [thread EXCEPT ![a] = [[thread[a] EXCEPT !.pc = step] EXCEPT !.at = 1]]
      BY <1>1 DEF Go
    <2>. HIDE DEF t, u
    <2>. QED BY <2>1, <2>3, <2>4
  <1>3. /\ t \in ThreadType /\ t.pc = step /\ t.at = 1 /\ t.job = thread[a].job
    BY <1>1 DEF ThreadType
  <1>4. step \in DOMAIN Chain => 1 \in 1 .. Len(Chain[step])
    BY ChainFacts
  <1>. HIDE DEF t
  <1>. QED BY <1>1, <1>2, <1>3, <1>4, SetThread DEF ThreadShape

\* A call returns to the implementation that made it, or to its thread.
LEMMA ReturnInv ==
    ASSUME Inv, NEW a \in Actors,
           Return(a), thread[a].pc \notin {"rest", "drain"}, current' = current
    PROVE  ThreadsInv'
  <1>1. ThreadShape(a) /\ NoJob \in Jobs \cup {NoJob}
    BY DEF Inv, ThreadsInv
  <1>2. CASE a \in Minions
    <2>. DEFINE t == [op |-> "none", pc |-> "run", at |-> 1, job |-> current[a]]
    <2>1. thread' = [thread EXCEPT ![a] = t]
      BY <1>2 DEF Return
    <2>2. current[a] \in Jobs
      BY <1>1, <1>2 DEF ThreadShape
    <2>3. /\ t \in ThreadType /\ t.pc = "run" /\ t.job = current[a]
      BY <2>2 DEF ThreadType, Steps
    <2>4. "run" \notin DOMAIN Chain
      BY DEF Chain
    <2>. HIDE DEF t
    <2>. QED BY <2>1, <2>2, <2>3, <2>4, SetThread
  <1>3. CASE a \notin Minions
    <2>1. thread' = [thread EXCEPT ![a] = Resting]
      BY <1>3 DEF Return
    <2>. QED BY <1>3, <2>1, RestingFacts, SetThread
  <1>. QED BY <1>2, <1>3

\* What a step that leaves the queue alone keeps of it.
LEMMA QueueKept ==
    ASSUME QueueInv, UNCHANGED queueVars
    PROVE  QueueInv'
  BY BoundedReading DEF queueVars, QueueInv, QueueTypeOK, WorkConserving

LEMMA BeginInv ==
    ASSUME Inv, NEW a \in Actors, NEW op \in Calls, NEW j \in Jobs, Begin(a, op, j),
           a \in Minions => current[a] \in Jobs
    PROVE  Inv'
  <1>. DEFINE t == [op |-> op, pc |-> FirstStep(op), at |-> 1, job |-> j]
  <1>1. QueueInv'
    BY QueueKept DEF Begin, Inv
  <1>2. ThreadsInv'
    <2>1. thread' = [thread EXCEPT ![a] = t] /\ current' = current
      BY DEF Begin
    <2>2. FirstStep(op) \in DOMAIN Chain
      BY DEF FirstStep, Calls, Chain
    <2>3. FirstStep(op) \in Steps /\ 1 \in 1 .. Len(Chain[FirstStep(op)])
      BY <2>2, ChainFacts
    <2>4. t \in ThreadType /\ t.pc = FirstStep(op) /\ t.at = 1 /\ t.job = j
      BY <2>3 DEF ThreadType
    <2>. HIDE DEF t
    <2>. QED BY <2>1, <2>2, <2>3, <2>4, SetThread
  <1>3. JobsInv'
    BY DEF Begin, Inv, JobsInv
  <1>4. OthersInv'
    BY ThreadAssumption DEF Begin, Inv, OthersInv
  <1>. QED BY <1>1, <1>2, <1>3, <1>4 DEF Inv

\* The end of a chain, whichever way it ends.
LEMMA FinishInv ==
    ASSUME Inv, NEW a \in Actors,
           NEW step \in (Steps \ {"rest", "drain"}) \cup {"return"}, Finish(a, step),
           thread[a].pc \notin {"rest", "drain"}, current' = current
    PROVE  /\ ThreadsInv'
           /\ life' \in [Jobs -> {"alive", "dying", "gone"}]
           /\ asked' \in [Jobs -> BOOLEAN]
  <1>1. CASE step = "return"
    <2>1. Return(a)
      BY <1>1 DEF Finish
    <2>. QED BY <2>1, ReturnInv DEF Finish, Inv, JobsInv
  <1>2. CASE step # "return"
    <2>1. Go(a, step)
      BY <1>2 DEF Finish
    <2>. QED BY <1>2, <2>1, GoInv DEF Finish, Inv, JobsInv
  <1>. QED BY <1>1, <1>2

LEMMA CompareExchangeInv ==
    ASSUME Inv, NEW a \in Actors, CompareExchange(a)
    PROVE  Inv'
  <1>. DEFINE chain == thread[a].pc
              i == thread[a].at
              j == thread[a].job
  <1>1. /\ chain \in DOMAIN Chain /\ chain \notin {"rest", "drain"}
        /\ thread[a] \in ThreadType /\ ThreadShape(a)
    BY DEF CompareExchange, Chain, Inv, ThreadsInv
  <1>2. /\ i \in 1 .. Len(Chain[chain]) /\ i \in Nat /\ j \in Jobs
        /\ a \in Minions => current[a] \in Jobs
    BY <1>1 DEF ThreadShape, ThreadType
  <1>3. QueueInv' /\ OthersInv' /\ current' = current
    <2>1. UNCHANGED <<queueVars, current, interest, timer, revokes>>
      BY DEF CompareExchange
    <2>. QED BY <2>1, QueueKept DEF Inv, OthersInv
  <1>4. CASE /\ state' = [state EXCEPT ![j] = Chain[chain][i][2]]
             /\ Finish(a, Follow(thread[a].op, chain, i))
    <2>1. state' \in [Jobs -> States]
      <3>1. Chain[chain][i][2] \in States
        BY <1>1, <1>2, ChainFacts
      <3>. QED BY <1>4, <3>1 DEF Inv, JobsInv
    <2>2. Follow(thread[a].op, chain, i) \in (Steps \ {"rest", "drain"}) \cup {"return"}
      BY <1>1, <1>2, FollowFacts
    <2>. QED BY <1>1, <1>3, <1>4, <2>1, <2>2, FinishInv DEF Inv, JobsInv
  <1>5. CASE /\ i < Len(Chain[chain]) /\ Further(a)
             /\ UNCHANGED <<state, life, asked>>
    <2>. DEFINE t == [op |-> thread[a].op, pc |-> chain, at |-> i + 1, job |-> j]
    <2>1. thread' = [thread EXCEPT ![a] = t]
      <3>1. [thread[a] EXCEPT !.at = i + 1] = t
        BY <1>1 DEF ThreadType
      <3>2. thread' = [thread EXCEPT ![a] = [thread[a] EXCEPT !.at = i + 1]]
        BY <1>5 DEF Further
      <3>. QED BY <3>1, <3>2, Zenon
    <2>2. t \in ThreadType /\ t.pc = chain /\ t.at = i + 1 /\ t.job = j
      BY <1>1, <1>2 DEF ThreadType
    <2>3. i + 1 \in 1 .. Len(Chain[chain])
      BY <1>1, <1>2, <1>5, ChainFacts
    <2>4. ThreadsInv'
      <3>. HIDE DEF t, chain, i, j
      <3>. QED BY <1>1, <1>2, <1>3, <2>1, <2>2, <2>3, SetThread
    <2>. QED BY <1>3, <1>5, <2>4 DEF Inv, JobsInv
  <1>6. CASE Finish(a, Follow(thread[a].op, chain, 0)) /\ UNCHANGED state
    <2>1. Follow(thread[a].op, chain, 0) \in (Steps \ {"rest", "drain"}) \cup {"return"}
      BY <1>1, FollowFacts
    <2>. QED BY <1>1, <1>3, <1>6, <2>1, FinishInv DEF Inv, JobsInv
  <1>. QED BY <1>4, <1>5, <1>6 DEF CompareExchange, JobOf

\* A job is handed to the queue or to the timer: its minion goes on to release
\* it, anyone else returns.
LEMMA HandedInv ==
    ASSUME Inv, NEW a \in Actors, Handed(a),
           thread[a].pc \notin {"rest", "drain"}, current' = current
    PROVE  ThreadsInv'
  <1>1. "release" \in Steps \ {"rest", "drain"}
    BY DEF Steps
  <1>. QED BY <1>1, GoInv, ReturnInv DEF Handed

LEMMA EnqueueInv ==
    ASSUME Inv, NEW a \in Actors, Enqueue(a)
    PROVE  Inv'
  <1>1. thread[a].pc = "enqueue" /\ thread[a].job \in Jobs
    BY DEF Enqueue, At, Inv, ThreadsInv, ThreadShape
  <1>2. "LOW" \in Categories /\ "await" \in Steps \ {"rest", "drain"}
    BY DEF Categories, Steps
  <1>3. JobsInv' /\ OthersInv' /\ current' = current
    BY DEF Enqueue, poolVars, Inv, JobsInv, OthersInv
  <1>4. QueueInv'
    BY <1>1, <1>2, PostInv, InsertInv DEF Enqueue, JobOf, Inv
  <1>5. ThreadsInv'
    BY <1>1, <1>2, <1>3, HandedInv, GoInv DEF Enqueue
  <1>. QED BY <1>3, <1>4, <1>5 DEF Inv

LEMMA AwaitInv ==
    ASSUME Inv, NEW a \in Actors, Await(a)
    PROVE  Inv'
  <1>1. thread[a].pc = "await"
    BY DEF Await, At
  <1>2. JobsInv' /\ OthersInv' /\ current' = current
    BY DEF Await, poolVars, Inv, JobsInv, OthersInv
  <1>3. QueueInv'
    BY QueueKept DEF Await, Inv
  <1>. QED BY <1>1, <1>2, <1>3, ReturnInv DEF Await, Inv

LEMMA ScheduleInv ==
    ASSUME Inv, NEW a \in Actors, Schedule(a)
    PROVE  Inv'
  <1>1. /\ thread[a].pc = "schedule"
        /\ "enqueue" \in Steps \ {"rest", "drain"}
    BY DEF Schedule, At, Steps
  <1>2. QueueInv' /\ JobsInv' /\ current' = current
    BY QueueKept DEF Schedule, Inv, JobsInv
  <1>3. OthersInv'
    BY DEF Schedule, Inv, OthersInv
  <1>4. ThreadsInv'
    BY <1>1, <1>2, HandedInv, GoInv DEF Schedule
  <1>. QED BY <1>2, <1>3, <1>4 DEF Inv

LEMMA FireInv ==
    ASSUME Inv, NEW j \in Jobs, Fire(j)
    PROVE  Inv'
  <1>. DEFINE old == thread[TimerThread]
              t == [op |-> old.op, pc |-> "enqueue", at |-> old.at, job |-> j]
  <1>1. TimerThread \in Actors /\ old \in ThreadType /\ TimerThread \notin Minions
    BY ThreadAssumption DEF Actors, Inv, ThreadsInv
  <1>2. QueueInv' /\ JobsInv' /\ current' = current
    BY QueueKept DEF Fire, Inv, JobsInv
  <1>3. OthersInv'
    BY DEF Fire, Inv, OthersInv
  <1>4. ThreadsInv'
    <2>. DEFINE u == [op |-> old.op, pc |-> "enqueue", at |-> old.at, job |-> old.job]
    <2>1. [old EXCEPT !.pc = "enqueue"] = u
      BY <1>1 DEF ThreadType
    <2>2. [u EXCEPT !.job = j] = t
      OBVIOUS
    <2>3. thread' = [thread EXCEPT ![TimerThread]
                                      = [[old EXCEPT !.pc = "enqueue"] EXCEPT !.job = j]]
      BY DEF Fire, Inv, ThreadsInv
    <2>4. thread' = [thread EXCEPT ![TimerThread] = t]
      <3>. HIDE DEF t, u, old
      <3>. QED BY <2>1, <2>2, <2>3
    <2>5. t \in ThreadType /\ t.pc = "enqueue" /\ t.job = j /\ "enqueue" \notin DOMAIN Chain
      BY <1>1 DEF ThreadType, Steps, Chain
    <2>. HIDE DEF t
    <2>. QED BY <1>1, <1>2, <2>4, <2>5, SetThread
  <1>. QED BY <1>2, <1>3, <1>4 DEF Inv

-----------------------------------------------------------------------------
(* The steps of Revoke.                                                     *)

LEMMA RevokeTimerInv ==
    ASSUME Inv, NEW a \in Actors, RevokeTimer(a)
    PROVE  Inv'
  <1>1. thread[a].pc = "timer" /\ "queue" \in Steps \ {"rest", "drain"}
    BY DEF RevokeTimer, At, Steps
  <1>2. QueueInv' /\ JobsInv' /\ current' = current
    BY QueueKept DEF RevokeTimer, Inv, JobsInv
  <1>3. OthersInv'
    BY DEF RevokeTimer, Inv, OthersInv
  <1>. QED BY <1>1, <1>2, <1>3, GoInv DEF RevokeTimer, Inv

LEMMA RevokeQueueInv ==
    ASSUME Inv, NEW a \in Actors, RevokeQueue(a)
    PROVE  Inv'
  <1>1. /\ thread[a].pc = "queue" /\ thread[a].job \in Jobs
        /\ {"Revoked", "units"} \subseteq Steps \ {"rest", "drain"}
    BY DEF RevokeQueue, At, Steps, Chain, Inv, ThreadsInv, ThreadShape
  <1>2. JobsInv' /\ OthersInv' /\ current' = current
    BY DEF RevokeQueue, poolVars, Inv, JobsInv, OthersInv
  <1>3. QueueInv'
    BY <1>1, RemoveEntryInv, QueueKept DEF RevokeQueue, JobOf, Inv
  <1>. QED BY <1>1, <1>2, <1>3, GoInv DEF RevokeQueue, Inv

LEMMA RevokeUnitInv ==
    ASSUME Inv, NEW a \in Actors, RevokeUnit(a)
    PROVE  Inv'
  <1>. DEFINE old == thread[a]
              u == Units[old.at]
  <1>1. /\ old.pc = "units" /\ old \in ThreadType /\ ThreadShape(a)
        /\ "Revoked" \in Steps \ {"rest", "drain"} /\ "wait" \in Steps
        /\ "units" \notin DOMAIN Chain /\ "wait" \notin DOMAIN Chain
    BY DEF RevokeUnit, At, Steps, Chain, Inv, ThreadsInv
  <1>2. QueueInv' /\ JobsInv' /\ current' = current
    BY QueueKept DEF RevokeUnit, Inv, JobsInv
  <1>3. OthersInv'
    <2>1. interest' = interest \/ interest' = [interest EXCEPT ![u] = @ \cup {a}]
      BY DEF RevokeUnit
    <2>. QED BY <2>1 DEF RevokeUnit, Inv, OthersInv
  <1>4. ASSUME NEW p \in {"units", "wait"}, NEW k \in Nat \ {0},
               thread' = [thread EXCEPT ![a] = [op |-> old.op, pc |-> p, at |-> k,
                                                job |-> old.job]]
        PROVE  ThreadsInv'
    <2>. DEFINE t == [op |-> old.op, pc |-> p, at |-> k, job |-> old.job]
    <2>1. t \in ThreadType /\ t.pc = p /\ t.job = old.job
      BY <1>1 DEF ThreadType
    <2>2. thread' = [thread EXCEPT ![a] = t]
      BY <1>4
    <2>. HIDE DEF t
    <2>. QED BY <1>1, <1>2, <2>1, <2>2, SetThread DEF ThreadShape
  <1>5. ASSUME thread' = [thread EXCEPT ![a].pc = "wait"]
        PROVE  ThreadsInv'
    <2>1. [old EXCEPT !.pc = "wait"]
             = [op |-> old.op, pc |-> "wait", at |-> old.at, job |-> old.job]
      BY <1>1 DEF ThreadType
    <2>2. thread' = [thread EXCEPT ![a] = [old EXCEPT !.pc = "wait"]]
      BY <1>5
    <2>3. old.at \in Nat \ {0}
      BY <1>1 DEF ThreadType
    <2>. QED BY <1>4, <2>1, <2>2, <2>3
  <1>6. ASSUME Further(a) PROVE ThreadsInv'
    <2>1. [old EXCEPT !.at = old.at + 1]
             = [op |-> old.op, pc |-> "units", at |-> old.at + 1, job |-> old.job]
      BY <1>1 DEF ThreadType
    <2>2. thread' = [thread EXCEPT ![a] = [old EXCEPT !.at = old.at + 1]]
      BY <1>6 DEF Further
    <2>3. old.at + 1 \in Nat \ {0}
      BY <1>1 DEF ThreadType
    <2>. QED BY <1>4, <2>1, <2>2, <2>3
  <1>7. ASSUME Go(a, "Revoked") PROVE ThreadsInv'
    BY <1>1, <1>2, <1>7, GoInv
  <1>8. ThreadsInv'
    BY <1>5, <1>6, <1>7 DEF RevokeUnit
  <1>. QED BY <1>2, <1>3, <1>8 DEF Inv

LEMMA RevokeWaitInv ==
    ASSUME Inv, NEW a \in Actors, RevokeWait(a)
    PROVE  Inv'
  <1>1. thread[a].pc = "wait" /\ "Revoked" \in Steps \ {"rest", "drain"}
    BY DEF RevokeWait, At, Steps, Chain
  <1>2. QueueInv' /\ JobsInv' /\ current' = current
    BY QueueKept DEF RevokeWait, Inv, JobsInv
  <1>3. OthersInv'
    BY DEF RevokeWait, Inv, OthersInv
  <1>. QED BY <1>1, <1>2, <1>3, GoInv DEF RevokeWait, Inv

-----------------------------------------------------------------------------
(* The steps of the minions.                                                *)

LEMMA MinionExtractInv ==
    ASSUME Inv, NEW m \in Minions, MinionExtract(m)
    PROVE  Inv'
  <1>. DEFINE j == Head(ready).job
              t == [op |-> "none", pc |-> "Dispatch", at |-> 1, job |-> j]
  <1>1. j \in Jobs
    <2>1. ready \in Seq(Entry) /\ ready # << >>
      BY DEF MinionExtract, Extract, Inv, QueueInv, QueueTypeOK
    <2>2. Head(ready) \in Entry
      BY <2>1, HeadTailProperties
    <2>. QED BY <2>2 DEF Entry
  <1>2. QueueInv'
    BY ExtractInv DEF MinionExtract, Inv
  <1>3. JobsInv'
    BY DEF MinionExtract, Inv, JobsInv
  <1>4. OthersInv' /\ current'[m] = j /\ \A n \in Minions : n # m => current'[n] = current[n]
    BY <1>1 DEF MinionExtract, Inv, OthersInv
  <1>5. ThreadsInv'
    <2>1. "Dispatch" \in DOMAIN Chain
      BY DEF Chain
    <2>2. "Dispatch" \in Steps /\ 1 \in 1 .. Len(Chain["Dispatch"])
      BY <2>1, ChainFacts
    <2>3. t \in ThreadType /\ t.pc = "Dispatch" /\ t.at = 1 /\ t.job = j
      BY <1>1, <2>2 DEF ThreadType
    <2>4. thread' = [thread EXCEPT ![m] = t] /\ m \in Actors
      BY DEF MinionExtract, Actors
    <2>. HIDE DEF t, j
    <2>. QED BY <1>1, <1>4, <2>1, <2>2, <2>3, <2>4, SetThread
  <1>. QED BY <1>2, <1>3, <1>4, <1>5 DEF Inv

LEMMA RunEndInv ==
    ASSUME Inv, NEW m \in Minions, RunEnd(m)
    PROVE  Inv'
  <1>1. /\ thread[m].pc = "run" /\ m \in Actors
        /\ "completion" \in Steps \ {"rest", "drain"}
    BY DEF RunEnd, At, Actors, Steps
  <1>2. QueueInv' /\ JobsInv' /\ OthersInv' /\ current' = current
    BY QueueKept DEF RunEnd, poolVars, Inv, JobsInv, OthersInv
  <1>. QED BY <1>1, <1>2, GoInv DEF RunEnd, Inv

LEMMA MinionCompletionInv ==
    ASSUME Inv, NEW m \in Minions, MinionCompletion(m)
    PROVE  Inv'
  <1>1. /\ thread[m].pc = "completion" /\ m \in Actors
        /\ "Resubmit" \in Steps \ {"rest", "drain"}
    BY DEF MinionCompletion, At, Actors, Steps, Chain
  <1>2. JobsInv' /\ OthersInv' /\ current' = current
    BY DEF MinionCompletion, poolVars, Inv, JobsInv, OthersInv
  <1>3. QueueInv'
    BY CompletionInv DEF MinionCompletion, Inv
  <1>. QED BY <1>1, <1>2, <1>3, GoInv DEF MinionCompletion, Inv

\* A minion is done with its job.
LEMMA RestInv ==
    ASSUME Inv, NEW m \in Minions, thread' = [thread EXCEPT ![m] = Resting],
           \A n \in Minions : n # m => current'[n] = current[n]
    PROVE  ThreadsInv'
  BY RestingFacts, SetThread DEF Actors

LEMMA ReleaseInv ==
    ASSUME Inv, NEW m \in Minions, Release(m)
    PROVE  Inv'
  <1>1. QueueInv' /\ JobsInv'
    BY QueueKept DEF Release, Inv, JobsInv
  <1>2. OthersInv' /\ \A n \in Minions : n # m => current'[n] = current[n]
    BY DEF Release, Inv, OthersInv
  <1>3. ThreadsInv'
    <2>. DEFINE old == thread[m]
                t == [op |-> old.op, pc |-> "drain", at |-> 1, job |-> old.job]
    <2>1. /\ m \in Actors /\ old \in ThreadType /\ ThreadShape(m)
          /\ old.pc = "release" /\ thread \in [Actors -> ThreadType]
      BY DEF Actors, Inv, ThreadsInv, Release, At
    <2>2. CASE Go(m, "drain")
      <3>1. t \in ThreadType /\ t.pc = "drain" /\ t.job = old.job /\ "drain" \notin DOMAIN Chain
        BY <2>1 DEF ThreadType, Steps, Chain
      <3>2. thread' = [thread EXCEPT ![m] = t]
        <4>. DEFINE u == [op |-> old.op, pc |-> "drain", at |-> old.at, job |-> old.job]
        <4>1. [old EXCEPT !.pc = "drain"] = u
          BY <2>1 DEF ThreadType
        <4>2. [u EXCEPT !.at = 1] = t
          OBVIOUS
        <4>3. thread' = [thread EXCEPT ![m] = [[old EXCEPT !.pc = "drain"] EXCEPT !.at = 1]]
          BY <2>1, <2>2 DEF Go
        <4>. HIDE DEF t, u, old
        <4>. QED BY <4>1, <4>2, <4>3
      <3>. HIDE DEF t
      <3>. QED BY <1>2, <2>1, <3>1, <3>2, SetThread DEF ThreadShape
    <2>. QED BY <1>2, <2>2, RestInv DEF Release
  <1>. QED BY <1>1, <1>2, <1>3 DEF Inv

LEMMA DrainInv ==
    ASSUME Inv, NEW m \in Minions, Drain(m)
    PROVE  Inv'
  <1>1. QueueInv' /\ JobsInv' /\ OthersInv' /\ current' = current
    BY QueueKept DEF Drain, poolVars, Inv, JobsInv, OthersInv
  <1>. QED BY <1>1, RestInv DEF Drain, Inv

-----------------------------------------------------------------------------
LEMMA NextInv ==
    ASSUME Inv, [Next]_vars
    PROVE  Inv'
  <1>1. ASSUME NEW u \in Users, NEW op \in UserOps, NEW j \in Jobs, UserCall(u, op, j)
        PROVE  Inv'
    <2>1. u \in Actors /\ u \notin Minions /\ op \in Calls
      BY ThreadAssumption, OperationAssumption DEF Actors
    <2>. QED BY <1>1, <2>1, BeginInv DEF UserCall
  <1>2. ASSUME NEW m \in Minions, NEW j \in Jobs, NEW op \in RunOps[j] \cup OtherOps[j],
               RunCall(m, op, j)
        PROVE  Inv'
    <2>1. m \in Actors /\ op \in Calls
      BY OperationAssumption DEF Actors
    <2>2. current[m] \in Jobs
      BY <1>2, <2>1 DEF RunCall, At, Inv, ThreadsInv, ThreadShape
    <2>. QED BY <1>2, <2>1, <2>2, BeginInv DEF RunCall
  <1>3. ASSUME NEW a \in Actors, Advance(a)
        PROVE  Inv'
    BY <1>3, CompareExchangeInv, EnqueueInv, AwaitInv, ScheduleInv, RevokeTimerInv,
       RevokeQueueInv, RevokeUnitInv, RevokeWaitInv DEF Advance
  <1>4. ASSUME NEW j \in Jobs, Fire(j)
        PROVE  Inv'
    BY <1>4, FireInv
  <1>5. ASSUME NEW m \in Minions, MinionStep(m) \/ RunEnd(m)
        PROVE  Inv'
    BY <1>5, MinionExtractInv, MinionCompletionInv, ReleaseInv, DrainInv, RunEndInv
       DEF MinionStep
  <1>6. CASE UNCHANGED vars
    <2>1. QueueInv'
      BY <1>6, QueueKept DEF vars, Inv
    <2>2. ThreadsInv'
      BY <1>6 DEF vars, Inv, ThreadsInv, ThreadShape
    <2>3. JobsInv' /\ OthersInv'
      BY <1>6 DEF vars, Inv, JobsInv, OthersInv
    <2>. QED BY <2>1, <2>2, <2>3 DEF Inv
  <1>. QED BY <1>1, <1>2, <1>3, <1>4, <1>5, <1>6 DEF Next

LEMMA Invariance == Spec => []Inv
  <1>1. Init => Inv
    BY InitInv
  <1>2. Inv /\ [Next]_vars => Inv'
    BY NextInv
  <1>. QED BY <1>1, <1>2, PTL DEF Spec

\* Whatever users, the timer and the implementations call, also Revoke and the
\* destructor at any moment, the state of the pool keeps its types: no attempt
\* goes past the end of its chain, and no count goes below zero.
THEOREM TypeCorrect == Spec => []TypeOK
  <1>1. Inv => TypeOK
    BY DEF Inv, QueueInv, ThreadsInv, ThreadType, JobsInv, OthersInv, TypeOK
  <1>. QED BY <1>1, Invariance, PTL

-----------------------------------------------------------------------------
(* Without revocations: a job that is on its way to a minion is in exactly  *)
(* one place, the hands of a thread, the timer or the queue, and its state  *)
(* is SUBMITTED; a job that runs is in none of them.                        *)

\* Users only submit; an implementation submits any job and reschedules its own.
NoRevocations ==
    /\ UserOps \subseteq {"Submit"}
    /\ \A j \in Jobs :
          RunOps[j] \subseteq {"Submit", "Reschedule"} /\ OtherOps[j] \subseteq {"Submit"}

Busy == {"EXECUTING", "RESUBMIT", "SCHEDULE"}

InHand(a, j) == thread[a].job = j /\ thread[a].pc \in {"enqueue", "schedule", "Dispatch"}

Runs(m, j) ==
    /\ current[m] = j
    /\ thread[m].op # "none" \/ thread[m].pc \in {"run", "completion", "Resubmit"}

Waits(j) == Contains(waiting["LOW"], j)
Pending(j) == IsReady(j) \/ Waits(j)

ReadyOnce(j) ==
    \A i, k \in DOMAIN ready : ready[i].job = j /\ ready[k].job = j => i = k
WaitsOnce(j) ==
    \A i, k \in DOMAIN waiting["LOW"] :
        waiting["LOW"][i] = j /\ waiting["LOW"][k] = j => i = k

QueuedOnce(j) == ReadyOnce(j) /\ WaitsOnce(j) /\ ~(IsReady(j) /\ Waits(j))
OnlyLow == \A c \in Categories : c # "LOW" => waiting[c] = << >>

OnePlace(j) ==
    /\ QueuedOnce(j)
    /\ timer[j] \in {0, 1}
    /\ timer[j] = 1 => ~Pending(j)
    /\ Pending(j) \/ timer[j] = 1 => state[j] = "SUBMITTED"
    /\ \A a \in Actors :
          InHand(a, j) => state[j] = "SUBMITTED" /\ timer[j] = 0 /\ ~Pending(j)
    /\ \A a, b \in Actors : InHand(a, j) /\ InHand(b, j) => a = b
    /\ \A m \in Minions : Runs(m, j) => state[j] \in Busy
    /\ \A m, n \in Minions : Runs(m, j) /\ Runs(n, j) => m = n

\* Where the threads can be: no step of a revocation is among them.
UserPlace(t) ==
    \/ t.op = "none" /\ t.pc = "rest"
    \/ t.op = "Submit" /\ t.pc \in {"Submit", "enqueue", "await"}

TimerPlace(t) == t.op = "none" /\ t.pc \in {"rest", "enqueue", "await"}

MinionPlace(t, j) ==
    \/ t.op = "Submit" /\ t.pc \in {"Submit", "enqueue"}
    \/ t.op = "Reschedule" /\ t.pc = "Reschedule" /\ t.job = j
    \/ t.op = "none" /\ t.pc \in {"rest", "drain"}
    \/ /\ t.op = "none" /\ t.job = j
       /\ t.pc \in {"Dispatch", "run", "completion", "Resubmit", "enqueue", "schedule",
                    "release"}

\* What a minion has extracted is the job it dispatches.
Extracted(t, j, r) ==
    r # NoJob => /\ r.job = j
                 /\ t.op # "none" \/ t.pc \in {"Dispatch", "run", "completion"}

Place(a) ==
    /\ a \in Users => UserPlace(thread[a])
    /\ a = TimerThread => TimerPlace(thread[a])
    /\ a \in Minions => /\ MinionPlace(thread[a], current[a])
                        /\ Extracted(thread[a], current[a], running[a])

PlacesInv ==
    /\ OnlyLow
    /\ \A j \in Jobs : OnePlace(j)
    /\ \A a \in Actors : Place(a)

LEMMA InitPlaces ==
    ASSUME Init
    PROVE  PlacesInv
  <1>1. OnlyLow
    BY DEF Init, QueueInit, OnlyLow
  <1>2. ASSUME NEW j \in Jobs PROVE OnePlace(j)
    <2>1. ready = << >> /\ waiting["LOW"] = << >> /\ timer[j] = 0
      BY <1>2 DEF Init, QueueInit, Categories
    <2>2. QueuedOnce(j) /\ ~Pending(j)
      BY <2>1 DEF QueuedOnce, ReadyOnce, WaitsOnce, Pending, IsReady, Waits, Contains
    <2>3. \A a \in Actors : thread[a] = Resting
      BY DEF Init
    <2>4. \A a \in Actors : ~InHand(a, j) /\ ~Runs(a, j)
      BY <2>3 DEF InHand, Runs, Resting
    <2>. QED BY <2>1, <2>2, <2>4 DEF OnePlace, Actors
  <1>3. ASSUME NEW a \in Actors PROVE Place(a)
    BY DEF Init, QueueInit, Place, UserPlace, TimerPlace, MinionPlace, Extracted, Resting,
           Actors
  <1>. QED BY <1>1, <1>2, <1>3 DEF PlacesInv

-----------------------------------------------------------------------------
(* What the methods of the queue do to the places.                          *)

LEMMA QueuedKept ==
    ASSUME UNCHANGED <<ready, waiting>>, NEW j
    PROVE  (QueuedOnce(j)' <=> QueuedOnce(j)) /\ (Pending(j)' <=> Pending(j))
           /\ (OnlyLow' <=> OnlyLow)
  BY DEF QueuedOnce, ReadyOnce, WaitsOnce, Pending, IsReady, Waits, Contains, OnlyLow

\* A job that is in the queue nowhere is admitted to one place.
LEMMA AdmitOnce ==
    ASSUME QueueInv, OnlyLow, NEW j \in Jobs, Admit(j, "LOW"), ~Pending(j)
    PROVE  /\ OnlyLow'
           /\ \A k \in Jobs : QueuedOnce(k) =>
                 QueuedOnce(k)' /\ (Pending(k)' => Pending(k) \/ k = j)
  <1>1. /\ ready \in Seq(Entry) /\ waiting \in [Categories -> Seq(Jobs)]
        /\ "LOW" \in Categories /\ waiting["LOW"] \in Seq(Jobs)
    BY DEF QueueInv, QueueTypeOK, Categories
  <1>2. CASE /\ waiting' = [waiting EXCEPT !["LOW"] = Append(@, j)]
             /\ UNCHANGED <<ready, used, running>>
    <2>. DEFINE w == waiting["LOW"]
    <2>1. /\ waiting'["LOW"] = Append(w, j)
          /\ DOMAIN w = 1 .. Len(w) /\ Len(w) \in Nat
          /\ DOMAIN Append(w, j) = 1 .. (Len(w) + 1)
          /\ \A i \in 1 .. Len(w) : Append(w, j)[i] = w[i]
          /\ Append(w, j)[Len(w) + 1] = j
      BY <1>1, <1>2
    <2>2. OnlyLow'
      BY <1>1, <1>2 DEF OnlyLow
    <2>3. \A k \in Jobs : (Waits(k)' <=> Waits(k) \/ k = j) /\ (IsReady(k)' <=> IsReady(k))
      BY <1>2, <2>1 DEF Waits, IsReady, Contains
    <2>4. \A k \in Jobs : WaitsOnce(k) => WaitsOnce(k)'
      BY <2>1 DEF WaitsOnce, Pending, Waits, Contains
    <2>5. \A k \in Jobs : ReadyOnce(k) => ReadyOnce(k)'
      BY <1>2 DEF ReadyOnce
    <2>. QED BY <2>2, <2>3, <2>4, <2>5 DEF QueuedOnce, Pending
  <1>3. CASE /\ ready' = Append(ready, [category |-> "LOW", job |-> j])
             /\ UNCHANGED <<waiting, running>>
    <2>. DEFINE e == [category |-> "LOW", job |-> j]
    <2>1. /\ ready' = Append(ready, e) /\ e.job = j
          /\ DOMAIN ready = 1 .. Len(ready) /\ Len(ready) \in Nat
          /\ DOMAIN Append(ready, e) = 1 .. (Len(ready) + 1)
          /\ \A i \in 1 .. Len(ready) : Append(ready, e)[i] = ready[i]
          /\ Append(ready, e)[Len(ready) + 1] = e
      BY <1>1, <1>3
    <2>. HIDE DEF e
    <2>2. OnlyLow'
      BY <1>3 DEF OnlyLow
    <2>3. \A k \in Jobs : (IsReady(k)' <=> IsReady(k) \/ k = j) /\ (Waits(k)' <=> Waits(k))
      BY <1>3, <2>1 DEF Waits, IsReady, Contains
    <2>4. \A k \in Jobs : ReadyOnce(k) => ReadyOnce(k)'
      BY <2>1 DEF ReadyOnce, Pending, IsReady
    <2>5. \A k \in Jobs : WaitsOnce(k) => WaitsOnce(k)'
      BY <1>3 DEF WaitsOnce
    <2>. QED BY <2>2, <2>3, <2>4, <2>5 DEF QueuedOnce, Pending
  <1>. QED BY <1>2, <1>3 DEF Admit

\* The first entry leaves the queue, and no second one of its job is behind it.
LEMMA ExtractOnce ==
    ASSUME QueueInv, OnlyLow, NEW m \in Minions, Extract(m)
    PROVE  /\ OnlyLow'
           /\ \A k \in Jobs : QueuedOnce(k) =>
                 /\ QueuedOnce(k)' /\ (Pending(k)' => Pending(k))
                 /\ k = Head(ready).job => Pending(k) /\ ~Pending(k)'
  <1>1. /\ ready # << >> /\ ready \in Seq(Entry)
        /\ ready' = Tail(ready) /\ waiting' = waiting
    BY DEF Extract, QueueInv, QueueTypeOK
  <1>2. /\ Len(ready) \in Nat \ {0} /\ DOMAIN ready = 1 .. Len(ready)
        /\ DOMAIN ready' = 1 .. (Len(ready) - 1)
        /\ \A i \in 1 .. (Len(ready) - 1) : ready'[i] = ready[i + 1]
        /\ Head(ready) = ready[1]
    BY <1>1, HeadTailProperties, EmptySeq, LenProperties
  <1>3. OnlyLow' /\ \A k \in Jobs : (Waits(k)' <=> Waits(k)) /\ (WaitsOnce(k) => WaitsOnce(k)')
    BY <1>1 DEF OnlyLow, Waits, WaitsOnce, Contains
  <1>4. ASSUME NEW k \in Jobs, ReadyOnce(k)
        PROVE  /\ ReadyOnce(k)' /\ (IsReady(k)' => IsReady(k))
               /\ k = Head(ready).job => IsReady(k) /\ ~IsReady(k)'
    <2>1. \A i \in 1 .. (Len(ready) - 1) : i + 1 \in 1 .. Len(ready) /\ i + 1 # 1
      BY <1>2
    <2>2. ReadyOnce(k)'
      BY <1>2, <1>4, <2>1 DEF ReadyOnce
    <2>3. IsReady(k)' => IsReady(k)
      BY <1>2, <2>1 DEF IsReady
    <2>4. k = Head(ready).job => IsReady(k) /\ ~IsReady(k)'
      BY <1>2, <1>4, <2>1 DEF IsReady, ReadyOnce
    <2>. QED BY <2>2, <2>3, <2>4
  <1>. QED BY <1>3, <1>4 DEF QueuedOnce, Pending

\* A completion moves an entry from the deque to the queue, or none.
LEMMA CompletionOnce ==
    ASSUME QueueInv, OnlyLow, NEW m \in Minions, Completion(m)
    PROVE  /\ OnlyLow'
           /\ \A k \in Jobs : QueuedOnce(k) =>
                 QueuedOnce(k)' /\ (Pending(k)' => Pending(k))
  <1>1. /\ ready \in Seq(Entry) /\ waiting \in [Categories -> Seq(Jobs)]
        /\ "LOW" \in Categories
    BY DEF QueueInv, QueueTypeOK, Categories
  <1>2. CASE UNCHANGED <<ready, waiting>>
    BY <1>2, QueuedKept
  <1>3. ASSUME NEW c \in Categories, waiting[c] # << >>,
               ready' = Append(ready, [category |-> c, job |-> Head(waiting[c])]),
               waiting' = [waiting EXCEPT ![c] = Tail(@)]
        PROVE  /\ OnlyLow'
               /\ \A k \in Jobs : QueuedOnce(k) =>
                     QueuedOnce(k)' /\ (Pending(k)' => Pending(k))
    <2>. DEFINE w == waiting["LOW"]
                e == [category |-> c, job |-> Head(w)]
    <2>1. c = "LOW"
      BY <1>3 DEF OnlyLow
    <2>2. /\ w \in Seq(Jobs) /\ w # << >> /\ waiting'["LOW"] = Tail(w)
          /\ ready' = Append(ready, e) /\ e.job = Head(w)
      BY <1>1, <1>3, <2>1
    <2>3. OnlyLow'
      BY <1>1, <1>3, <2>1 DEF OnlyLow
    <2>. HIDE DEF e
    <2>4. /\ Len(w) \in Nat \ {0} /\ DOMAIN w = 1 .. Len(w)
          /\ DOMAIN Tail(w) = 1 .. (Len(w) - 1)
          /\ \A i \in 1 .. (Len(w) - 1) : Tail(w)[i] = w[i + 1]
          /\ Head(w) = w[1]
          /\ Len(Tail(w)) = Len(w) - 1
      BY <2>2, HeadTailProperties, EmptySeq, LenProperties
    <2>5. /\ DOMAIN ready = 1 .. Len(ready) /\ Len(ready) \in Nat
          /\ DOMAIN Append(ready, e) = 1 .. (Len(ready) + 1)
          /\ \A i \in 1 .. Len(ready) : Append(ready, e)[i] = ready[i]
          /\ Append(ready, e)[Len(ready) + 1] = e
      BY <1>1
    <2>6. \A i \in 1 .. (Len(w) - 1) : i + 1 \in 1 .. Len(w) /\ i + 1 # 1
      BY <2>4
    <2>. HIDE DEF w
    <2>7. ASSUME NEW k \in Jobs, QueuedOnce(k)
          PROVE  QueuedOnce(k)' /\ (Pending(k)' => Pending(k))
      <3>1. Waits(k) <=> \E i \in 1 .. Len(w) : w[i] = k
        BY <2>4 DEF Waits, Contains, w
      <3>2. Waits(k)' <=> \E i \in 1 .. (Len(w) - 1) : w[i + 1] = k
        BY <2>2, <2>4 DEF Waits, Contains
      <3>3. IsReady(k)' <=> IsReady(k) \/ k = Head(w)
        BY <2>2, <2>5 DEF IsReady
      <3>4. \A i, n \in 1 .. Len(w) : w[i] = k /\ w[n] = k => i = n
        BY <2>4, <2>7 DEF QueuedOnce, WaitsOnce, w
      <3>5. Waits(k)' => Waits(k) /\ k # Head(w)
        BY <2>4, <2>6, <3>1, <3>2, <3>4
      <3>6. k = Head(w) => Waits(k)
        BY <2>4, <3>1
      <3>7. WaitsOnce(k)'
        <4>1. \A i, n \in 1 .. (Len(w) - 1) : w[i + 1] = k /\ w[n + 1] = k => i = n
          BY <2>4, <2>6, <3>4
        <4>. QED BY <2>2, <2>4, <4>1 DEF WaitsOnce
      <3>8. ReadyOnce(k)'
        <4>1. ReadyOnce(k) /\ (k = Head(w) => ~IsReady(k))
          BY <2>7, <3>6 DEF QueuedOnce
        <4>. QED BY <2>2, <2>5, <4>1 DEF ReadyOnce, IsReady
      <3>9. ~(IsReady(k)' /\ Waits(k)')
        BY <2>7, <3>3, <3>5 DEF QueuedOnce
      <3>. QED BY <3>3, <3>5, <3>6, <3>7, <3>8, <3>9 DEF QueuedOnce, Pending
    <2>. QED BY <2>3, <2>7
  <1>. QED BY <1>2, <1>3 DEF Completion, Promoted, CanPromote

-----------------------------------------------------------------------------
(* What a step of one thread does to the places.                            *)

OnlyThread(a) ==
    \A b \in Actors : b # a =>
        /\ thread'[b] = thread[b]
        /\ b \in Minions => current'[b] = current[b] /\ running'[b] = running[b]

LEMMA OthersKeep ==
    ASSUME NEW a \in Actors, OnlyThread(a), NEW b \in Actors, b # a
    PROVE  /\ \A k \in Jobs : InHand(b, k)' <=> InHand(b, k)
           /\ b \in Minions => \A k \in Jobs : Runs(b, k)' <=> Runs(b, k)
           /\ Place(b)' <=> Place(b)
  BY DEF OnlyThread, InHand, Runs, Place, UserPlace, TimerPlace, MinionPlace, Extracted

\* A job whose place does not change, or that ceases to be in the queue or to run.
LEMMA OnePlaceKept ==
    ASSUME NEW a \in Actors, OnlyThread(a), NEW k \in Jobs, OnePlace(k),
           state'[k] = state[k], timer'[k] = timer[k],
           QueuedOnce(k)', Pending(k)' => Pending(k),
           InHand(a, k)' => InHand(a, k),
           a \in Minions => (Runs(a, k)' => Runs(a, k))
    PROVE  OnePlace(k)'
  BY OthersKeep DEF OnePlace, Actors

\* A job whose minion is told to submit it again.
LEMMA OnePlaceBusy ==
    ASSUME NEW a \in Actors, OnlyThread(a), NEW k \in Jobs, OnePlace(k),
           state[k] \in Busy, state'[k] \in Busy, timer'[k] = timer[k],
           UNCHANGED <<ready, waiting>>,
           ~InHand(a, k)',
           a \in Minions => (Runs(a, k)' => Runs(a, k))
    PROVE  OnePlace(k)'
  <1>1. "SUBMITTED" \notin Busy
    BY DEF Busy
  <1>2. timer[k] = 0 /\ ~Pending(k) /\ \A b \in Actors : ~InHand(b, k)
    BY <1>1 DEF OnePlace
  <1>. QED BY <1>1, <1>2, OthersKeep, QueuedKept DEF OnePlace, Actors

\* A job that nobody has and that does not run, or the one that a minion runs,
\* comes into the hands of a thread, or of nobody.
LEMMA OnePlaceTaken ==
    ASSUME NEW a \in Actors, OnlyThread(a), NEW k \in Jobs, OnePlace(k),
           state[k] \notin Busy \/ (a \in Minions /\ Runs(a, k)),
           state[k] # "SUBMITTED",
           InHand(a, k)' => state'[k] = "SUBMITTED",
           timer'[k] = timer[k], UNCHANGED <<ready, waiting>>,
           a \in Minions => ~Runs(a, k)'
    PROVE  OnePlace(k)'
  <1>1. timer[k] = 0 /\ ~Pending(k) /\ \A b \in Actors : ~InHand(b, k)
    BY DEF OnePlace
  <1>2. \A b \in Minions : b # a => ~Runs(b, k)
    BY DEF OnePlace
  <1>. QED BY <1>1, <1>2, OthersKeep, QueuedKept DEF OnePlace, Actors

\* A minion dispatches the job it has in hand.
LEMMA OnePlaceDispatch ==
    ASSUME NEW a \in Actors, OnlyThread(a), NEW k \in Jobs, OnePlace(k),
           InHand(a, k), ~InHand(a, k)', state'[k] \in Busy,
           timer'[k] = timer[k], UNCHANGED <<ready, waiting>>
    PROVE  OnePlace(k)'
  <1>1. "SUBMITTED" \notin Busy
    BY DEF Busy
  <1>2. /\ timer[k] = 0 /\ ~Pending(k) /\ \A b \in Actors : b # a => ~InHand(b, k)
        /\ \A b \in Minions : ~Runs(b, k)
    BY <1>1 DEF OnePlace
  <1>. QED BY <1>2, OthersKeep, QueuedKept DEF OnePlace, Actors

\* A thread hands its job to the queue or to the timer.
LEMMA OnePlaceHanded ==
    ASSUME NEW a \in Actors, OnlyThread(a), NEW k \in Jobs, OnePlace(k),
           InHand(a, k), ~InHand(a, k)', state'[k] = state[k],
           timer'[k] \in {0, 1}, QueuedOnce(k)', timer'[k] = 1 => ~Pending(k)',
           a \in Minions => (Runs(a, k)' => Runs(a, k))
    PROVE  OnePlace(k)'
  <1>1. "SUBMITTED" \notin Busy
    BY DEF Busy
  <1>2. /\ state[k] = "SUBMITTED"
        /\ \A b \in Actors : b # a => ~InHand(b, k)
        /\ \A b \in Minions : ~Runs(b, k)
    BY <1>1 DEF OnePlace
  <1>. QED BY <1>2, OthersKeep DEF OnePlace, Actors

\* A thread takes a job out of the queue or of the timer.
LEMMA OnePlaceFetched ==
    ASSUME NEW a \in Actors, OnlyThread(a), NEW k \in Jobs, OnePlace(k),
           Pending(k) \/ timer[k] = 1, state'[k] = state[k],
           timer'[k] = 0, QueuedOnce(k)', ~Pending(k)',
           a \in Minions => ~Runs(a, k)'
    PROVE  OnePlace(k)'
  <1>1. "SUBMITTED" \notin Busy
    BY DEF Busy
  <1>2. /\ state[k] = "SUBMITTED"
        /\ \A b \in Actors : ~InHand(b, k)
        /\ \A b \in Minions : ~Runs(b, k)
    BY <1>1 DEF OnePlace
  <1>. QED BY <1>2, OthersKeep DEF OnePlace, Actors

LEMMA PlacesStep ==
    ASSUME PlacesInv, NEW a \in Actors, OnlyThread(a), OnlyLow', Place(a)',
           \A k \in Jobs : OnePlace(k)'
    PROVE  PlacesInv'
  BY OthersKeep DEF PlacesInv

\* Where a thread is after Go, Return and Handed.
LEMMA GoFacts ==
    ASSUME Inv, NEW a \in Actors, NEW step, Go(a, step)
    PROVE  /\ thread'[a].op = thread[a].op /\ thread'[a].job = thread[a].job
           /\ thread'[a].pc = step
           /\ \A b \in Actors : b # a => thread'[b] = thread[b]
  BY DEF Go, Inv, ThreadsInv, ThreadType

LEMMA ReturnFacts ==
    ASSUME Inv, NEW a \in Actors, Return(a)
    PROVE  /\ thread'[a].op = "none"
           /\ a \in Minions => thread'[a].pc = "run" /\ thread'[a].job = current[a]
           /\ a \notin Minions => thread'[a].pc = "rest"
           /\ \A b \in Actors : b # a => thread'[b] = thread[b]
  BY DEF Return, Inv, ThreadsInv, Resting

LEMMA BeginPlaces ==
    ASSUME Inv, PlacesInv, NEW a \in Actors, NEW op \in {"Submit", "Reschedule"},
           NEW j \in Jobs, Begin(a, op, j),
           a # TimerThread,
           a \in Users => op = "Submit",
           a \in Minions => /\ thread[a].pc = "run"
                            /\ op = "Reschedule" => j = current[a]
    PROVE  PlacesInv'
  <1>1. /\ thread'[a] = [op |-> op, pc |-> op, at |-> 1, job |-> j]
        /\ \A b \in Actors : b # a => thread'[b] = thread[b]
        /\ UNCHANGED <<ready, waiting, running, state, current, timer>>
    BY DEF Begin, FirstStep, Inv, ThreadsInv, queueVars
  <1>2. OnlyThread(a)
    BY <1>1 DEF OnlyThread
  <1>3. Place(a)'
    BY <1>1, ThreadAssumption
       DEF PlacesInv, Place, UserPlace, MinionPlace, Extracted
  <1>4. ASSUME NEW k \in Jobs PROVE OnePlace(k)'
    <2>1. OnePlace(k)
      BY DEF PlacesInv
    <2>2. ~InHand(a, k)'
      BY <1>1 DEF InHand
    <2>3. a \in Minions => (Runs(a, k)' => Runs(a, k))
      BY <1>1 DEF Runs
    <2>4. QueuedOnce(k)' /\ (Pending(k)' => Pending(k))
      BY <1>1, <2>1, QueuedKept DEF OnePlace
    <2>. QED BY <1>1, <1>2, <2>1, <2>2, <2>3, <2>4, OnePlaceKept
  <1>5. OnlyLow'
    BY <1>1, QueuedKept DEF PlacesInv
  <1>. QED BY <1>2, <1>3, <1>4, <1>5, PlacesStep

LEMMA AwaitPlaces ==
    ASSUME Inv, PlacesInv, NEW a \in Actors, Await(a)
    PROVE  PlacesInv'
  <1>1. /\ thread[a].pc = "await" /\ thread'[a].op = "none" /\ thread'[a].pc = "rest"
        /\ \A b \in Actors : b # a => thread'[b] = thread[b]
        /\ UNCHANGED <<ready, waiting, running, state, current, timer>>
        /\ a \notin Minions
    <2>1. a \notin Minions
      BY DEF Await, At, PlacesInv, Place, MinionPlace
    <2>. QED BY <2>1, ReturnFacts DEF Await, At, queueVars, poolVars
  <1>2. OnlyThread(a)
    BY <1>1 DEF OnlyThread
  <1>3. Place(a)'
    BY <1>1 DEF Place, UserPlace, TimerPlace
  <1>4. ASSUME NEW k \in Jobs PROVE OnePlace(k)'
    <2>1. OnePlace(k)
      BY DEF PlacesInv
    <2>2. ~InHand(a, k)'
      BY <1>1 DEF InHand
    <2>3. QueuedOnce(k)' /\ (Pending(k)' => Pending(k))
      BY <1>1, <2>1, QueuedKept DEF OnePlace
    <2>. QED BY <1>1, <1>2, <2>1, <2>2, <2>3, OnePlaceKept
  <1>5. OnlyLow'
    BY <1>1, QueuedKept DEF PlacesInv
  <1>. QED BY <1>2, <1>3, <1>4, <1>5, PlacesStep

\* The job is in the hands of nobody else, so the queue has no entry of the
\* job when it comes there.
LEMMA EnqueuePlaces ==
    ASSUME Inv, PlacesInv, NEW a \in Actors, Enqueue(a)
    PROVE  PlacesInv'
  <1>. DEFINE j == thread[a].job
  <1>1. /\ thread[a].pc = "enqueue" /\ j \in Jobs /\ InHand(a, j) /\ OnePlace(j)
        /\ UNCHANGED <<state, current, timer>>
    BY DEF Enqueue, At, poolVars, InHand, PlacesInv, Inv, ThreadsInv, ThreadShape
  <1>2. Admit(j, "LOW") /\ ~Pending(j) /\ running' = running
    <2>1. Admit(j, "LOW")
      BY DEF Enqueue, Post, Insert, JobOf
    <2>2. ~Pending(j)
      BY <1>1 DEF OnePlace
    <2>. QED BY <2>1, <2>2 DEF Admit
  <1>3. /\ OnlyLow'
        /\ \A k \in Jobs : QueuedOnce(k) =>
              QueuedOnce(k)' /\ (Pending(k)' => Pending(k) \/ k = j)
    <2>. HIDE DEF j
    <2>. QED BY <1>1, <1>2, AdmitOnce DEF Inv, PlacesInv
  <1>4. /\ \A b \in Actors : b # a => thread'[b] = thread[b]
        /\ \A k \in Jobs : ~InHand(a, k)'
        /\ a \in Minions => \A k \in Jobs : Runs(a, k)' => Runs(a, k)
        /\ Place(a)'
    <2>1. Place(a)
      BY DEF PlacesInv
    <2>2. CASE a \in Minions /\ thread[a].op = "none"
      <3>1. Go(a, "release")
        BY <2>2 DEF Enqueue, Handed
      <3>. QED BY <1>1, <1>2, <2>1, <2>2, <3>1, GoFacts, ThreadAssumption
           DEF InHand, Runs, Place, MinionPlace, Extracted
    <2>3. CASE a \in Minions /\ thread[a].op # "none"
      <3>1. Return(a)
        BY <2>3 DEF Enqueue, Handed
      <3>. QED BY <1>1, <1>2, <2>1, <2>3, <3>1, ReturnFacts, ThreadAssumption
           DEF InHand, Runs, Place, MinionPlace, Extracted
    <2>4. CASE a \notin Minions
      <3>1. Return(a) \/ Go(a, "await")
        BY <2>4 DEF Enqueue, Handed
      <3>. QED BY <1>1, <2>1, <2>4, <3>1, ReturnFacts, GoFacts
           DEF InHand, Place, UserPlace, TimerPlace
    <2>. QED BY <2>2, <2>3, <2>4
  <1>5. OnlyThread(a)
    BY <1>1, <1>2, <1>4 DEF OnlyThread
  <1>6. ASSUME NEW k \in Jobs PROVE OnePlace(k)'
    <2>1. OnePlace(k) /\ QueuedOnce(k)' /\ (Pending(k)' => Pending(k) \/ k = j)
      BY <1>3 DEF PlacesInv, OnePlace
    <2>2. CASE k = j
      <3>1. timer[k] = 0
        BY <1>1, <2>2 DEF OnePlace
      <3>. QED BY <1>1, <1>4, <1>5, <2>1, <2>2, <3>1, OnePlaceHanded
    <2>3. CASE k # j
      BY <1>1, <1>4, <1>5, <2>1, <2>3, OnePlaceKept
    <2>. QED BY <2>2, <2>3
  <1>. QED BY <1>3, <1>4, <1>5, <1>6, PlacesStep

\* Only a minion that resubmits its own job schedules it.
LEMMA SchedulePlaces ==
    ASSUME Inv, PlacesInv, NEW a \in Actors, Schedule(a)
    PROVE  PlacesInv'
  <1>. DEFINE j == thread[a].job
  <1>1. /\ thread[a].pc = "schedule" /\ j \in Jobs /\ InHand(a, j) /\ OnePlace(j)
        /\ UNCHANGED <<ready, waiting, running, state, current>>
        /\ Place(a)
    BY DEF Schedule, At, queueVars, InHand, PlacesInv, Inv, ThreadsInv, ThreadShape
  <1>2. a \in Minions /\ thread[a].op = "none" /\ thread[a].job = current[a]
    BY <1>1, ThreadAssumption DEF Place, UserPlace, TimerPlace, MinionPlace, Actors
  <1>3. OnlyLow'
    BY <1>1, QueuedKept DEF PlacesInv
  <1>4. timer[j] = 0 /\ ~Pending(j)
    BY <1>1 DEF OnePlace
  <1>5. CASE timer' = [timer EXCEPT ![j] = @ + 1] /\ Go(a, "release")
    <2>1. /\ timer'[j] = 1 /\ \A k \in Jobs : k # j => timer'[k] = timer[k]
      BY <1>1, <1>4, <1>5 DEF Inv, OthersInv
    <2>2. /\ \A b \in Actors : b # a => thread'[b] = thread[b]
          /\ \A k \in Jobs : ~InHand(a, k)' /\ ~Runs(a, k)'
          /\ Place(a)'
      BY <1>1, <1>2, <1>5, GoFacts, ThreadAssumption
         DEF InHand, Runs, Place, MinionPlace, Extracted
    <2>3. OnlyThread(a)
      BY <1>1, <2>2 DEF OnlyThread
    <2>4. ASSUME NEW k \in Jobs PROVE OnePlace(k)'
      <3>1. OnePlace(k) /\ QueuedOnce(k)' /\ (Pending(k)' <=> Pending(k))
        BY <1>1, QueuedKept DEF PlacesInv, OnePlace
      <3>2. CASE k = j
        BY <1>1, <1>4, <2>1, <2>2, <2>3, <3>1, <3>2, OnePlaceHanded
      <3>3. CASE k # j
        BY <1>1, <2>1, <2>2, <2>3, <3>1, <3>3, OnePlaceKept
      <3>. QED BY <3>2, <3>3
    <2>. QED BY <1>3, <2>2, <2>3, <2>4, PlacesStep
  <1>6. CASE Go(a, "enqueue") /\ UNCHANGED timer
    <2>1. /\ \A b \in Actors : b # a => thread'[b] = thread[b]
          /\ \A k \in Jobs : (InHand(a, k)' => InHand(a, k)) /\ ~Runs(a, k)'
          /\ Place(a)'
      BY <1>1, <1>2, <1>6, GoFacts, ThreadAssumption
         DEF InHand, Runs, Place, MinionPlace, Extracted
    <2>2. OnlyThread(a)
      BY <1>1, <2>1 DEF OnlyThread
    <2>3. ASSUME NEW k \in Jobs PROVE OnePlace(k)'
      <3>1. OnePlace(k) /\ QueuedOnce(k)' /\ (Pending(k)' <=> Pending(k))
        BY <1>1, QueuedKept DEF PlacesInv, OnePlace
      <3>. QED BY <1>1, <1>6, <2>1, <2>2, <3>1, OnePlaceKept
    <2>. QED BY <1>3, <2>1, <2>2, <2>3, PlacesStep
  <1>. QED BY <1>2, <1>5, <1>6 DEF Schedule, JobOf, Handed

LEMMA FirePlaces ==
    ASSUME Inv, PlacesInv, NEW j \in Jobs, Fire(j)
    PROVE  PlacesInv'
  <1>. DEFINE a == TimerThread
  <1>1. /\ a \in Actors /\ a \notin Minions /\ a \notin Users
        /\ Place(a) /\ OnePlace(j) /\ thread[a].pc = "rest"
        /\ UNCHANGED <<ready, waiting, running, state, current>>
    BY ThreadAssumption DEF Fire, At, Actors, queueVars, PlacesInv
  <1>2. /\ timer[j] = 1 /\ timer'[j] = 0
        /\ \A k \in Jobs : k # j => timer'[k] = timer[k]
    BY <1>1 DEF Fire, OnePlace, Inv, OthersInv
  <1>3. /\ thread'[a].op = thread[a].op /\ thread'[a].pc = "enqueue" /\ thread'[a].job = j
        /\ \A b \in Actors : b # a => thread'[b] = thread[b]
    BY <1>1 DEF Fire, Inv, ThreadsInv, ThreadType
  <1>4. OnlyThread(a)
    BY <1>1, <1>3 DEF OnlyThread
  <1>5. Place(a)'
    BY <1>1, <1>3 DEF Place, TimerPlace
  <1>6. ASSUME NEW k \in Jobs PROVE OnePlace(k)'
    <2>1. OnePlace(k) /\ QueuedOnce(k)' /\ (Pending(k)' <=> Pending(k))
      BY <1>1, QueuedKept DEF PlacesInv, OnePlace
    <2>2. CASE k = j
      <3>1. ~Pending(k)'
        BY <1>2, <2>1, <2>2 DEF OnePlace
      <3>. QED BY <1>1, <1>2, <1>4, <2>1, <2>2, <3>1, OnePlaceFetched
    <2>3. CASE k # j
      <3>1. ~InHand(a, k)'
        BY <1>3, <2>3 DEF InHand
      <3>. QED BY <1>1, <1>2, <1>4, <2>1, <2>3, <3>1, OnePlaceKept
    <2>. QED BY <2>2, <2>3
  <1>7. OnlyLow'
    BY <1>1, QueuedKept DEF PlacesInv
  <1>. QED BY <1>1, <1>4, <1>5, <1>6, <1>7, PlacesStep

-----------------------------------------------------------------------------
(* The minions.                                                             *)

LEMMA MinionExtractPlaces ==
    ASSUME Inv, PlacesInv, NEW a \in Minions, MinionExtract(a)
    PROVE  PlacesInv'
  <1>. DEFINE j == Head(ready).job
  <1>1. /\ a \in Actors /\ thread[a].pc = "rest" /\ Extract(a)
        /\ thread'[a] = [op |-> "none", pc |-> "Dispatch", at |-> 1, job |-> j]
        /\ \A b \in Actors : b # a => thread'[b] = thread[b]
        /\ UNCHANGED <<state, timer>>
    BY DEF MinionExtract, At, Actors, Inv, ThreadsInv
  <1>2. /\ j \in Jobs
        /\ current'[a] = j
        /\ \A b \in Minions : b # a => current'[b] = current[b]
        /\ running'[a] = Head(ready)
        /\ \A b \in Minions : b # a => running'[b] = running[b]
    <2>1. ready \in Seq(Entry) /\ ready # << >>
      BY DEF MinionExtract, Extract, Inv, QueueInv, QueueTypeOK
    <2>2. Head(ready) \in Entry
      BY <2>1, HeadTailProperties
    <2>3. j \in Jobs
      BY <2>2 DEF Entry
    <2>4. running' = [running EXCEPT ![a] = Head(ready)] /\ current' = [current EXCEPT ![a] = j]
      BY DEF MinionExtract, Extract
    <2>5. DOMAIN running = Minions /\ DOMAIN current = Minions
      BY DEF Inv, QueueInv, QueueTypeOK, OthersInv
    <2>. QED BY <2>3, <2>4, <2>5
  <1>3. OnlyThread(a)
    BY <1>1, <1>2 DEF OnlyThread
  <1>4. Place(a)'
    BY <1>1, <1>2, ThreadAssumption DEF Place, MinionPlace, Extracted
  <1>5. /\ OnlyLow'
        /\ \A k \in Jobs : QueuedOnce(k) =>
              /\ QueuedOnce(k)' /\ (Pending(k)' => Pending(k))
              /\ k = j => Pending(k) /\ ~Pending(k)'
    BY <1>1, ExtractOnce DEF Inv, PlacesInv
  <1>. HIDE DEF j
  <1>6. ASSUME NEW k \in Jobs PROVE OnePlace(k)'
    <2>1. /\ OnePlace(k) /\ QueuedOnce(k)' /\ (Pending(k)' => Pending(k))
          /\ k = j => Pending(k) /\ ~Pending(k)'
      BY <1>5 DEF PlacesInv, OnePlace
    <2>2. ~Runs(a, k)'
      BY <1>1 DEF Runs
    <2>3. CASE k = j
      <3>1. timer'[k] = 0
        BY <1>1, <2>1, <2>3 DEF OnePlace
      <3>. QED BY <1>1, <1>3, <2>1, <2>2, <2>3, <3>1, OnePlaceFetched
    <2>4. CASE k # j
      <3>1. ~InHand(a, k)'
        BY <1>1, <2>4 DEF InHand
      <3>. QED BY <1>1, <1>3, <2>1, <2>2, <2>4, <3>1, OnePlaceKept
    <2>. QED BY <2>3, <2>4
  <1>. QED BY <1>1, <1>3, <1>4, <1>5, <1>6, PlacesStep

LEMMA RunEndPlaces ==
    ASSUME Inv, PlacesInv, NEW a \in Minions, RunEnd(a)
    PROVE  PlacesInv'
  <1>1. /\ a \in Actors /\ thread[a].pc = "run" /\ Place(a) /\ Go(a, "completion")
        /\ UNCHANGED <<ready, waiting, running, state, current, timer>>
    BY DEF RunEnd, At, Actors, queueVars, poolVars, PlacesInv
  <1>2. /\ \A b \in Actors : b # a => thread'[b] = thread[b]
        /\ \A k \in Jobs : ~InHand(a, k)' /\ (Runs(a, k)' => Runs(a, k))
        /\ Place(a)'
    BY <1>1, GoFacts, ThreadAssumption DEF InHand, Runs, Place, MinionPlace, Extracted
  <1>3. OnlyThread(a)
    BY <1>1, <1>2 DEF OnlyThread
  <1>4. ASSUME NEW k \in Jobs PROVE OnePlace(k)'
    <2>1. OnePlace(k) /\ QueuedOnce(k)' /\ (Pending(k)' => Pending(k))
      BY <1>1, QueuedKept DEF PlacesInv, OnePlace
    <2>. QED BY <1>1, <1>2, <1>3, <2>1, OnePlaceKept
  <1>5. OnlyLow'
    BY <1>1, QueuedKept DEF PlacesInv
  <1>. QED BY <1>1, <1>2, <1>3, <1>4, <1>5, PlacesStep

LEMMA MinionCompletionPlaces ==
    ASSUME Inv, PlacesInv, NEW a \in Minions, MinionCompletion(a)
    PROVE  PlacesInv'
  <1>1. /\ a \in Actors /\ thread[a].pc = "completion" /\ Place(a)
        /\ Completion(a) /\ Go(a, "Resubmit")
        /\ UNCHANGED <<state, current, timer>>
    BY DEF MinionCompletion, At, Actors, poolVars, PlacesInv
  <1>2. /\ running'[a] = NoJob
        /\ \A b \in Minions : b # a => running'[b] = running[b]
    BY <1>1 DEF Completion, Inv, QueueInv, QueueTypeOK
  <1>3. /\ \A b \in Actors : b # a => thread'[b] = thread[b]
        /\ \A k \in Jobs : ~InHand(a, k)' /\ (Runs(a, k)' => Runs(a, k))
        /\ Place(a)'
    BY <1>1, <1>2, GoFacts, ThreadAssumption
       DEF InHand, Runs, Place, MinionPlace, Extracted
  <1>4. OnlyThread(a)
    BY <1>1, <1>2, <1>3 DEF OnlyThread
  <1>5. /\ OnlyLow'
        /\ \A k \in Jobs : QueuedOnce(k) => QueuedOnce(k)' /\ (Pending(k)' => Pending(k))
    BY <1>1, CompletionOnce DEF Inv, PlacesInv
  <1>6. ASSUME NEW k \in Jobs PROVE OnePlace(k)'
    <2>1. OnePlace(k) /\ QueuedOnce(k)' /\ (Pending(k)' => Pending(k))
      BY <1>5 DEF PlacesInv, OnePlace
    <2>. QED BY <1>1, <1>3, <1>4, <2>1, OnePlaceKept
  <1>. QED BY <1>1, <1>3, <1>4, <1>5, <1>6, PlacesStep

\* The job that a minion releases, it has already handed on.
LEMMA ReleasePlaces ==
    ASSUME Inv, PlacesInv, NEW a \in Minions, Release(a) \/ Drain(a)
    PROVE  PlacesInv'
  <1>1. /\ a \in Actors /\ thread[a].pc \in {"release", "drain"} /\ Place(a)
        /\ thread[a].op = "none" /\ running[a] = NoJob
        /\ UNCHANGED <<ready, waiting, running, state, timer>>
    <2>1. /\ a \in Actors /\ thread[a].pc \in {"release", "drain"} /\ Place(a)
          /\ UNCHANGED <<ready, waiting, running, state, timer>>
      BY DEF Release, Drain, At, Actors, queueVars, poolVars, PlacesInv
    <2>2. thread[a].op = "none"
      BY <2>1 DEF Place, MinionPlace
    <2>. QED BY <2>1, <2>2 DEF Place, Extracted
  <1>2. \A b \in Minions : b # a => current'[b] = current[b]
    BY DEF Release, Drain, poolVars, Inv, OthersInv
  <1>3. /\ thread'[a].op = "none" /\ thread'[a].pc \in {"rest", "drain"}
        /\ \A b \in Actors : b # a => thread'[b] = thread[b]
    <2>1. thread' = [thread EXCEPT ![a] = Resting] \/ Go(a, "drain")
      BY DEF Release, Drain
    <2>2. CASE thread' = [thread EXCEPT ![a] = Resting]
      BY <1>1, <2>2 DEF Resting, Inv, ThreadsInv
    <2>3. CASE Go(a, "drain")
      BY <1>1, <2>3, GoFacts
    <2>. QED BY <2>1, <2>2, <2>3
  <1>4. \A k \in Jobs : ~InHand(a, k)' /\ ~Runs(a, k)'
    BY <1>3 DEF InHand, Runs
  <1>5. Place(a)'
    BY <1>1, <1>3, ThreadAssumption DEF Place, MinionPlace, Extracted
  <1>6. OnlyThread(a)
    BY <1>1, <1>2, <1>3 DEF OnlyThread
  <1>7. ASSUME NEW k \in Jobs PROVE OnePlace(k)'
    <2>1. OnePlace(k) /\ QueuedOnce(k)' /\ (Pending(k)' => Pending(k))
      BY <1>1, QueuedKept DEF PlacesInv, OnePlace
    <2>. QED BY <1>1, <1>4, <1>6, <2>1, OnePlaceKept
  <1>8. OnlyLow'
    BY <1>1, QueuedKept DEF PlacesInv
  <1>. QED BY <1>1, <1>5, <1>6, <1>7, <1>8, PlacesStep

-----------------------------------------------------------------------------
(* The chains.                                                              *)

\* An attempt succeeds, the next one is due, or the chain ends without success.
LEMMA Attempt ==
    ASSUME Inv, NEW a \in Actors, CompareExchange(a),
           NEW c, c = thread[a].pc, NEW i, i = thread[a].at, NEW j, j = thread[a].job
    PROVE  /\ c \in DOMAIN Chain /\ i \in 1 .. Len(Chain[c]) /\ j \in Jobs
           /\ UNCHANGED <<ready, waiting, running, current, timer, interest>>
           /\ \A k \in Jobs : k # j => state'[k] = state[k]
           /\ \/ /\ state[j] = Chain[c][i][1] /\ state'[j] = Chain[c][i][2]
                 /\ Finish(a, Follow(thread[a].op, c, i))
              \/ /\ state[j] # Chain[c][i][1] /\ state' = state
                 /\ i < Len(Chain[c])
                 /\ thread'[a].op = thread[a].op /\ thread'[a].pc = c /\ thread'[a].job = j
                 /\ thread'[a].at = i + 1 /\ life' = life /\ asked' = asked
                 /\ \A b \in Actors : b # a => thread'[b] = thread[b]
              \/ /\ state[j] # Chain[c][i][1] /\ state' = state
                 /\ i = Len(Chain[c])
                 /\ Finish(a, Follow(thread[a].op, c, 0))
  <1>1. /\ c \in DOMAIN Chain /\ c # "rest" /\ ThreadShape(a)
        /\ thread \in [Actors -> ThreadType] /\ state \in [Jobs -> States]
    BY DEF CompareExchange, Chain, Inv, ThreadsInv, JobsInv
  <1>2. /\ i \in 1 .. Len(Chain[c]) /\ j \in Jobs
        /\ UNCHANGED <<ready, waiting, running, current, timer, interest>>
    BY <1>1 DEF ThreadShape, CompareExchange, queueVars
  <1>3. Further(a) =>
            /\ thread'[a].op = thread[a].op /\ thread'[a].pc = c /\ thread'[a].job = j
            /\ thread'[a].at = i + 1
            /\ \A b \in Actors : b # a => thread'[b] = thread[b]
    BY <1>1 DEF Further, ThreadType
  <1>4. \/ /\ state[j] = Chain[c][i][1] /\ state' = [state EXCEPT ![j] = Chain[c][i][2]]
           /\ Finish(a, Follow(thread[a].op, c, i))
        \/ /\ state[j] # Chain[c][i][1] /\ state' = state
           /\ i < Len(Chain[c]) /\ Further(a) /\ life' = life /\ asked' = asked
        \/ /\ state[j] # Chain[c][i][1] /\ state' = state
           /\ i = Len(Chain[c]) /\ Finish(a, Follow(thread[a].op, c, 0))
    BY DEF CompareExchange, JobOf
  <1>. QED BY <1>1, <1>2, <1>3, <1>4

\* What is left to show when a chain has moved its thread.
LEMMA ChainStep ==
    ASSUME Inv, PlacesInv, NEW a \in Actors, NEW j \in Jobs,
           UNCHANGED <<ready, waiting, running, current, timer>>,
           \A b \in Actors : b # a => thread'[b] = thread[b],
           Place(a)',
           OnlyThread(a) => OnePlace(j)',
           \A k \in Jobs : k # j =>
              /\ state'[k] = state[k]
              /\ InHand(a, k)' => InHand(a, k)
              /\ a \in Minions => (Runs(a, k)' => Runs(a, k))
    PROVE  PlacesInv'
  <1>1. OnlyThread(a)
    BY DEF OnlyThread
  <1>2. ASSUME NEW k \in Jobs, k # j PROVE OnePlace(k)'
    <2>1. OnePlace(k) /\ QueuedOnce(k)' /\ (Pending(k)' => Pending(k))
      BY QueuedKept DEF PlacesInv, OnePlace
    <2>. QED BY <1>1, <1>2, <2>1, OnePlaceKept
  <1>3. OnlyLow'
    BY QueuedKept DEF PlacesInv
  <1>. QED BY <1>1, <1>2, <1>3, PlacesStep

\* An attempt that fails, or a chain that ends without success, moves no job.
LEMMA NothingDone ==
    ASSUME Inv, PlacesInv, NEW a \in Actors,
           UNCHANGED <<ready, waiting, running, current, timer, state>>,
           \A b \in Actors : b # a => thread'[b] = thread[b],
           Place(a)',
           \A k \in Jobs :
              /\ InHand(a, k)' => InHand(a, k)
              /\ a \in Minions => (Runs(a, k)' => Runs(a, k))
    PROVE  PlacesInv'
  <1>1. OnlyThread(a)
    BY DEF OnlyThread
  <1>2. ASSUME NEW k \in Jobs PROVE OnePlace(k)'
    <2>1. OnePlace(k) /\ QueuedOnce(k)' /\ (Pending(k)' => Pending(k))
      BY QueuedKept DEF PlacesInv, OnePlace
    <2>. QED BY <1>1, <2>1, OnePlaceKept
  <1>3. OnlyLow'
    BY QueuedKept DEF PlacesInv
  <1>. QED BY <1>1, <1>2, <1>3, PlacesStep

LEMMA SubmitPlaces ==
    ASSUME Inv, PlacesInv, NEW a \in Actors, CompareExchange(a), thread[a].pc = "Submit",
           NEW j, j = thread[a].job, NEW i, i = thread[a].at
    PROVE  PlacesInv'
  <1>1. Place(a) /\ OnePlace(j) /\ j \in Jobs /\ i \in 1 .. 3 /\ thread[a].op = "Submit"
    <2>1. j \in Jobs /\ i \in 1 .. Len(Chain["Submit"])
      BY Attempt
    <2>2. Place(a) /\ OnePlace(j)
      BY <2>1 DEF PlacesInv
    <2>3. thread[a].op = "Submit"
      BY <2>2 DEF Place, UserPlace, TimerPlace, MinionPlace, Actors
    <2>. QED BY <2>1, <2>2, <2>3 DEF Chain, SubmitChain
  <1>2. /\ UNCHANGED <<ready, waiting, running, current, timer>>
        /\ \A k \in Jobs : k # j => state'[k] = state[k]
    BY Attempt
  <1>3. ASSUME Return(a)
        PROVE  /\ \A b \in Actors : b # a => thread'[b] = thread[b]
               /\ Place(a)'
               /\ \A k \in Jobs : ~InHand(a, k)'
               /\ a \in Minions => \A k \in Jobs : Runs(a, k)' => Runs(a, k)
    BY <1>1, <1>2, <1>3, ReturnFacts, ThreadAssumption
       DEF InHand, Runs, Place, UserPlace, TimerPlace, MinionPlace, Extracted
  <1>4. ASSUME state[j] = Chain["Submit"][i][1], state'[j] = Chain["Submit"][i][2],
               Finish(a, Follow("Submit", "Submit", i))
        PROVE  PlacesInv'
    <2>1. CASE i \in {1, 2}
      <3>1. state[j] \in Busy /\ state'[j] \in Busy
        BY <1>4, <2>1 DEF Chain, SubmitChain, Busy
      <3>2. Return(a)
        BY <1>4, <2>1 DEF Finish, Follow, AfterSubmit
      <3>3. OnlyThread(a) => OnePlace(j)'
        BY <1>1, <1>2, <1>3, <3>1, <3>2, OnePlaceBusy
      <3>. QED BY <1>1, <1>2, <1>3, <3>2, <3>3, ChainStep
    <2>2. CASE i = 3
      <3>1. state[j] = "IDLE" /\ state'[j] = "SUBMITTED"
        BY <1>4, <2>2 DEF Chain, SubmitChain
      <3>2. Go(a, "enqueue")
        BY <1>4, <2>2 DEF Finish, Follow, AfterSubmit
      <3>3. /\ \A b \in Actors : b # a => thread'[b] = thread[b]
            /\ Place(a)'
            /\ \A k \in Jobs : k # j => ~InHand(a, k)'
            /\ a \in Minions => \A k \in Jobs : Runs(a, k)' => Runs(a, k)
        BY <1>1, <1>2, <3>2, GoFacts, ThreadAssumption
           DEF InHand, Runs, Place, UserPlace, TimerPlace, MinionPlace, Extracted
      <3>4. a \in Minions => ~Runs(a, j)'
        BY <1>1, <3>1, <3>3 DEF OnePlace, Busy
      <3>5. OnlyThread(a) => OnePlace(j)'
        BY <1>1, <1>2, <3>1, <3>4, OnePlaceTaken DEF Busy
      <3>. QED BY <1>1, <1>2, <3>3, <3>5, ChainStep
    <2>. QED BY <1>1, <2>1, <2>2
  <1>5. ASSUME state' = state,
               thread'[a].op = thread[a].op, thread'[a].pc = "Submit", thread'[a].job = j,
               \A b \in Actors : b # a => thread'[b] = thread[b]
        PROVE  PlacesInv'
    <2>1. /\ Place(a)'
          /\ \A k \in Jobs : ~InHand(a, k)' /\ (Runs(a, k)' => Runs(a, k))
      BY <1>1, <1>2, <1>5 DEF InHand, Runs, Place, UserPlace, TimerPlace, MinionPlace, Extracted
    <2>. QED BY <1>2, <1>5, <2>1, NothingDone
  <1>6. ASSUME state' = state, Finish(a, Follow("Submit", "Submit", 0))
        PROVE  PlacesInv'
    <2>1. Return(a)
      BY <1>6 DEF Finish, Follow, AfterSubmit
    <2>. QED BY <1>2, <1>3, <1>6, <2>1, NothingDone
  <1>. QED BY <1>1, <1>4, <1>5, <1>6, Attempt

\* The job of a Reschedule runs, on the minion that reschedules it: only the
\* first two attempts can succeed.
LEMMA ReschedulePlaces ==
    ASSUME Inv, PlacesInv, NEW a \in Actors, CompareExchange(a),
           thread[a].pc = "Reschedule",
           NEW j, j = thread[a].job, NEW i, i = thread[a].at
    PROVE  PlacesInv'
  <1>1. /\ Place(a) /\ OnePlace(j) /\ j \in Jobs /\ i \in 1 .. 4
        /\ thread[a].op = "Reschedule" /\ a \in Minions /\ Runs(a, j)
    <2>1. j \in Jobs /\ i \in 1 .. Len(Chain["Reschedule"])
      BY Attempt
    <2>2. Place(a) /\ OnePlace(j)
      BY <2>1 DEF PlacesInv
    <2>3. thread[a].op = "Reschedule" /\ a \in Minions /\ current[a] = j
      BY <2>2 DEF Place, UserPlace, TimerPlace, MinionPlace, Actors
    <2>. QED BY <2>1, <2>2, <2>3 DEF Chain, RescheduleChain, Runs
  <1>2. /\ UNCHANGED <<ready, waiting, running, current, timer>>
        /\ \A k \in Jobs : k # j => state'[k] = state[k]
        /\ state[j] \in Busy
    BY <1>1, Attempt DEF OnePlace
  <1>3. ASSUME Return(a)
        PROVE  /\ \A b \in Actors : b # a => thread'[b] = thread[b]
               /\ Place(a)'
               /\ \A k \in Jobs : ~InHand(a, k)' /\ (Runs(a, k)' => Runs(a, k))
    BY <1>1, <1>2, <1>3, ReturnFacts, ThreadAssumption
       DEF InHand, Runs, Place, MinionPlace, Extracted
  <1>4. ASSUME state[j] = Chain["Reschedule"][i][1], state'[j] = Chain["Reschedule"][i][2],
               Finish(a, Follow("Reschedule", "Reschedule", i))
        PROVE  PlacesInv'
    <2>1. i \in {1, 2}
      BY <1>1, <1>2, <1>4 DEF Chain, RescheduleChain, Busy
    <2>2. state'[j] \in Busy
      BY <1>4, <2>1 DEF Chain, RescheduleChain, Busy
    <2>3. Return(a)
      BY <1>4, <2>1 DEF Finish, Follow
    <2>4. OnlyThread(a) => OnePlace(j)'
      BY <1>1, <1>2, <1>3, <2>2, <2>3, OnePlaceBusy
    <2>. QED BY <1>1, <1>2, <1>3, <2>3, <2>4, ChainStep
  <1>5. ASSUME state' = state,
               thread'[a].op = thread[a].op, thread'[a].pc = "Reschedule",
               thread'[a].job = j,
               \A b \in Actors : b # a => thread'[b] = thread[b]
        PROVE  PlacesInv'
    <2>1. /\ Place(a)'
          /\ \A k \in Jobs : ~InHand(a, k)' /\ (Runs(a, k)' => Runs(a, k))
      BY <1>1, <1>2, <1>5, ThreadAssumption
         DEF InHand, Runs, Place, MinionPlace, Extracted
    <2>. QED BY <1>2, <1>5, <2>1, NothingDone
  <1>6. ASSUME state' = state, Finish(a, Follow("Reschedule", "Reschedule", 0))
        PROVE  PlacesInv'
    <2>1. Return(a)
      BY <1>6 DEF Finish, Follow
    <2>. QED BY <1>2, <1>3, <1>6, <2>1, NothingDone
  <1>. QED BY <1>1, <1>4, <1>5, <1>6, Attempt

\* The job that a minion has taken out of the queue is SUBMITTED.
LEMMA DispatchPlaces ==
    ASSUME Inv, PlacesInv, NEW a \in Actors, CompareExchange(a),
           thread[a].pc = "Dispatch",
           NEW j, j = thread[a].job, NEW i, i = thread[a].at
    PROVE  PlacesInv'
  <1>1. /\ Place(a) /\ OnePlace(j) /\ j \in Jobs /\ i = 1
        /\ thread[a].op = "none" /\ a \in Minions /\ current[a] = j /\ InHand(a, j)
    <2>1. j \in Jobs /\ i \in 1 .. Len(Chain["Dispatch"])
      BY Attempt
    <2>2. Place(a) /\ OnePlace(j)
      BY <2>1 DEF PlacesInv
    <2>3. thread[a].op = "none" /\ a \in Minions /\ current[a] = j
      BY <2>2 DEF Place, UserPlace, TimerPlace, MinionPlace, Actors
    <2>. QED BY <2>1, <2>2, <2>3 DEF Chain, InHand
  <1>2. /\ UNCHANGED <<ready, waiting, running, current, timer>>
        /\ \A k \in Jobs : k # j => state'[k] = state[k]
        /\ state[j] = "SUBMITTED"
    BY <1>1, Attempt DEF OnePlace
  <1>3. state'[j] = "EXECUTING" /\ Finish(a, Follow("none", "Dispatch", 1))
    <2>1. Chain["Dispatch"][i][1] = "SUBMITTED" /\ Chain["Dispatch"][i][2] = "EXECUTING"
      BY <1>1 DEF Chain
    <2>2. /\ state[j] = Chain["Dispatch"][i][1] /\ state'[j] = Chain["Dispatch"][i][2]
          /\ Finish(a, Follow("none", "Dispatch", i))
      <3>1. \/ /\ state[j] = Chain["Dispatch"][i][1] /\ state'[j] = Chain["Dispatch"][i][2]
               /\ Finish(a, Follow(thread[a].op, "Dispatch", i))
            \/ state[j] # Chain["Dispatch"][i][1]
        BY Attempt
      <3>. QED BY <1>1, <1>2, <2>1, <3>1
    <2>. QED BY <1>1, <2>1, <2>2
  <1>4. Go(a, "run")
    BY <1>3 DEF Finish, Follow
  <1>5. /\ \A b \in Actors : b # a => thread'[b] = thread[b]
        /\ Place(a)'
        /\ \A k \in Jobs : ~InHand(a, k)' /\ (k # j => (Runs(a, k)' => Runs(a, k)))
    BY <1>1, <1>2, <1>4, GoFacts, ThreadAssumption
       DEF InHand, Runs, Place, MinionPlace, Extracted
  <1>6. OnlyThread(a) => OnePlace(j)'
    BY <1>1, <1>2, <1>3, <1>5, OnePlaceDispatch DEF Busy
  <1>. QED BY <1>1, <1>2, <1>5, <1>6, ChainStep

\* A minion that has run a job finds it busy, and lets it go or takes it in hand.
LEMMA ResubmitPlaces ==
    ASSUME Inv, PlacesInv, NEW a \in Actors, CompareExchange(a),
           thread[a].pc = "Resubmit",
           NEW j, j = thread[a].job, NEW i, i = thread[a].at
    PROVE  PlacesInv'
  <1>1. /\ Place(a) /\ OnePlace(j) /\ j \in Jobs /\ i \in 1 .. 3
        /\ thread[a].op = "none" /\ a \in Minions /\ current[a] = j
        /\ Runs(a, j) /\ running[a] = NoJob
    <2>1. j \in Jobs /\ i \in 1 .. Len(Chain["Resubmit"])
      BY Attempt
    <2>2. Place(a) /\ OnePlace(j)
      BY <2>1 DEF PlacesInv
    <2>3. thread[a].op = "none" /\ a \in Minions /\ current[a] = j
      BY <2>2 DEF Place, UserPlace, TimerPlace, MinionPlace, Actors
    <2>4. running[a] = NoJob
      BY <2>2, <2>3 DEF Place, Extracted
    <2>. QED BY <2>1, <2>2, <2>3, <2>4 DEF Chain, ResubmitChain, Runs
  <1>2. /\ UNCHANGED <<ready, waiting, running, current, timer>>
        /\ \A k \in Jobs : k # j => state'[k] = state[k]
        /\ state[j] \in Busy
    BY <1>1, Attempt DEF OnePlace
  <1>3. ASSUME NEW step \in {"enqueue", "schedule", "release"}, Go(a, step)
        PROVE  /\ \A b \in Actors : b # a => thread'[b] = thread[b]
               /\ Place(a)'
               /\ \A k \in Jobs : ~Runs(a, k)' /\ (k # j => ~InHand(a, k)')
               /\ step = "release" => ~InHand(a, j)'
    BY <1>1, <1>2, <1>3, GoFacts, ThreadAssumption
       DEF InHand, Runs, Place, MinionPlace, Extracted
  <1>4. ASSUME state[j] = Chain["Resubmit"][i][1], state'[j] = Chain["Resubmit"][i][2],
               Finish(a, Follow("none", "Resubmit", i))
        PROVE  PlacesInv'
    <2>1. CASE i = 1
      <3>1. Go(a, "release")
        BY <1>4, <2>1 DEF Finish, Follow, AfterResubmit
      <3>2. OnlyThread(a) => OnePlace(j)'
        BY <1>1, <1>2, <1>3, <3>1, OnePlaceTaken DEF Busy
      <3>. QED BY <1>1, <1>2, <1>3, <3>1, <3>2, ChainStep
    <2>2. CASE i \in {2, 3}
      <3>1. PICK step \in {"enqueue", "schedule"} : Go(a, step)
        BY <1>4, <2>2 DEF Finish, Follow, AfterResubmit
      <3>2. state'[j] = "SUBMITTED"
        BY <1>4, <2>2 DEF Chain, ResubmitChain
      <3>3. OnlyThread(a) => OnePlace(j)'
        BY <1>1, <1>2, <1>3, <3>1, <3>2, OnePlaceTaken DEF Busy
      <3>. QED BY <1>1, <1>2, <1>3, <3>1, <3>3, ChainStep
    <2>. QED BY <1>1, <2>1, <2>2
  <1>5. ASSUME state' = state,
               thread'[a].op = thread[a].op, thread'[a].pc = "Resubmit",
               thread'[a].job = j,
               \A b \in Actors : b # a => thread'[b] = thread[b]
        PROVE  PlacesInv'
    <2>1. /\ Place(a)'
          /\ \A k \in Jobs : ~InHand(a, k)' /\ (Runs(a, k)' => Runs(a, k))
      BY <1>1, <1>2, <1>5, ThreadAssumption
         DEF InHand, Runs, Place, MinionPlace, Extracted
    <2>. QED BY <1>2, <1>5, <2>1, NothingDone
  <1>6. ASSUME state' = state, Finish(a, Follow("none", "Resubmit", 0))
        PROVE  PlacesInv'
    <2>1. Go(a, "release")
      BY <1>6 DEF Finish, Follow, AfterResubmit
    <2>2. \A k \in Jobs : ~InHand(a, k)' /\ ~Runs(a, k)'
      BY <1>3, <2>1
    <2>. QED BY <1>2, <1>3, <1>6, <2>1, <2>2, NothingDone
  <1>. QED BY <1>1, <1>4, <1>5, <1>6, Attempt

-----------------------------------------------------------------------------
LEMMA NextPlaces ==
    ASSUME NoRevocations, Inv, PlacesInv, [Next]_vars
    PROVE  PlacesInv'
  <1>1. ASSUME NEW u \in Users, NEW op \in UserOps, NEW j \in Jobs, UserCall(u, op, j)
        PROVE  PlacesInv'
    <2>1. u \in Actors /\ u \notin Minions /\ u # TimerThread /\ op = "Submit"
      BY ThreadAssumption DEF Actors, NoRevocations
    <2>. QED BY <1>1, <2>1, BeginPlaces DEF UserCall
  <1>2. ASSUME NEW m \in Minions, NEW j \in Jobs, NEW op \in RunOps[j] \cup OtherOps[j],
               RunCall(m, op, j)
        PROVE  PlacesInv'
    <2>1. m \in Actors /\ m \notin Users /\ m # TimerThread
      BY ThreadAssumption DEF Actors
    <2>2. /\ op \in {"Submit", "Reschedule"} /\ thread[m].pc = "run"
          /\ op = "Reschedule" => j = current[m]
      BY <1>2 DEF RunCall, At, NoRevocations
    <2>. QED BY <1>2, <2>1, <2>2, BeginPlaces DEF RunCall
  <1>3. ASSUME NEW a \in Actors, Advance(a)
        PROVE  PlacesInv'
    <2>1. thread[a].pc \notin {"timer", "queue", "units", "wait",
                               "RevokeRequired", "Revoked", "Idle"}
      BY DEF PlacesInv, Place, UserPlace, TimerPlace, MinionPlace, Actors
    <2>2. CASE CompareExchange(a)
      <3>1. thread[a].pc \in {"Submit", "Reschedule", "Dispatch", "Resubmit"}
        BY <2>1, <2>2 DEF CompareExchange, Chain
      <3>. QED BY <2>2, <3>1, SubmitPlaces, ReschedulePlaces, DispatchPlaces, ResubmitPlaces
    <2>3. CASE Enqueue(a) \/ Await(a) \/ Schedule(a)
      BY <2>3, EnqueuePlaces, AwaitPlaces, SchedulePlaces
    <2>4. ~(RevokeTimer(a) \/ RevokeQueue(a) \/ RevokeUnit(a) \/ RevokeWait(a))
      BY <2>1 DEF RevokeTimer, RevokeQueue, RevokeUnit, RevokeWait, At
    <2>. QED BY <1>3, <2>2, <2>3, <2>4 DEF Advance
  <1>4. ASSUME NEW j \in Jobs, Fire(j)
        PROVE  PlacesInv'
    BY <1>4, FirePlaces
  <1>5. ASSUME NEW m \in Minions, MinionStep(m) \/ RunEnd(m)
        PROVE  PlacesInv'
    BY <1>5, MinionExtractPlaces, MinionCompletionPlaces, ReleasePlaces, RunEndPlaces
       DEF MinionStep
  <1>6. CASE UNCHANGED vars
    <2>1. UNCHANGED <<ready, waiting, running, state, thread, current, timer>>
      BY <1>6 DEF vars, queueVars
    <2>2. \A a \in Actors : Place(a)'
      BY <2>1 DEF PlacesInv, Place, UserPlace, TimerPlace, MinionPlace, Extracted
    <2>3. \A j \in Jobs : OnePlace(j)'
      BY <2>1, QueuedKept DEF PlacesInv, OnePlace, InHand, Runs
    <2>4. OnlyLow'
      BY <2>1, QueuedKept DEF PlacesInv
    <2>. QED BY <2>2, <2>3, <2>4 DEF PlacesInv
  <1>. QED BY <1>1, <1>2, <1>3, <1>4, <1>5, <1>6 DEF Next

LEMMA PlacesInvariance ==
    ASSUME NoRevocations
    PROVE  Spec => []PlacesInv
  <1>1. Init => PlacesInv
    BY InitPlaces
  <1>2. Inv /\ PlacesInv /\ [Next]_vars => PlacesInv'
    BY NextPlaces
  <1>. QED BY <1>1, <1>2, Invariance, PTL DEF Spec

\* As long as nobody revokes, no job ever runs on two minions at a time, however
\* submissions, reschedules, timers and completions interleave and whichever
\* attempts of the chains others come between.
THEOREM OneRunHolds ==
    ASSUME NoRevocations
    PROVE  Spec => []OneRun
  <1>1. PlacesInv /\ Inv => OneRun
    <2>. SUFFICES ASSUME PlacesInv, Inv, NEW m \in Minions, NEW n \in Minions,
                         InDispatch(m), InDispatch(n), current[m] = current[n]
                  PROVE  m = n
      BY DEF OneRun
    <2>1. m \in Actors /\ ThreadShape(m) /\ Place(m)
      BY DEF Actors, Inv, ThreadsInv, PlacesInv
    <2>2. current[m] \in Jobs
      BY <2>1, ThreadAssumption DEF InDispatch, At, ThreadShape, Place, MinionPlace
    <2>3. Runs(m, current[m]) /\ Runs(n, current[m])
      BY DEF Runs, InDispatch, At
    <2>. QED BY <2>2, <2>3 DEF PlacesInv, OnePlace
  <1>. QED BY <1>1, Invariance, PlacesInvariance, PTL

\* As long as nobody revokes, a thread that submits a job finds it in no other
\* place: the assertions on a job that is submitted twice never fail.
THEOREM SubmittedOnceHolds ==
    ASSUME NoRevocations
    PROVE  Spec => []SubmittedOnce
  <1>1. PlacesInv /\ Inv => SubmittedOnce
    <2>. SUFFICES ASSUME PlacesInv, Inv, NEW a \in Actors, At(a, "enqueue")
                  PROVE  timer[JobOf(a)] = 0 /\ ~HasEntry(JobOf(a))
      BY DEF SubmittedOnce
    <2>. DEFINE j == thread[a].job
    <2>1. thread[a].pc = "enqueue" /\ j \in Jobs /\ InHand(a, j)
      BY DEF At, Inv, ThreadsInv, ThreadShape, InHand
    <2>2. OnePlace(j) /\ timer[j] = 0 /\ ~Pending(j) /\ state[j] = "SUBMITTED"
      BY <2>1 DEF PlacesInv, OnePlace
    <2>3. ~IsReady(j)
      BY <2>2 DEF Pending
    <2>4. ~IsWaiting(j)
      <3>1. ASSUME NEW c \in Categories, Contains(waiting[c], j) PROVE FALSE
        <4>1. CASE c = "LOW"
          BY <2>2, <3>1, <4>1 DEF Pending, Waits
        <4>2. CASE c # "LOW"
          BY <3>1, <4>2 DEF PlacesInv, OnlyLow, Contains
        <4>. QED BY <4>1, <4>2
      <3>. QED BY <3>1 DEF IsWaiting
    <2>5. ASSUME NEW m \in Minions, running[m] # NoJob, running[m].job = j
          PROVE  FALSE
      <3>1. /\ m \in Actors /\ Place(m) /\ current[m] = j
            /\ thread[m].op # "none" \/ thread[m].pc \in {"Dispatch", "run", "completion"}
        BY <2>5 DEF PlacesInv, Place, Extracted, Actors
      <3>2. CASE thread[m].op # "none" \/ thread[m].pc \in {"run", "completion"}
        BY <2>2, <3>1, <3>2 DEF OnePlace, Runs, Busy
      <3>3. CASE thread[m].op = "none" /\ thread[m].pc = "Dispatch"
        <4>1. InHand(m, j)
          BY <3>1, <3>3, ThreadAssumption DEF Place, MinionPlace, InHand
        <4>. QED BY <2>1, <2>2, <3>1, <3>3, <4>1 DEF OnePlace
      <3>. QED BY <3>1, <3>2, <3>3
    <2>6. ~IsRunning(j)
      BY <2>5 DEF IsRunning, InProcess
    <2>. QED BY <2>2, <2>3, <2>4, <2>6 DEF HasEntry, JobOf
  <1>. QED BY <1>1, Invariance, PlacesInvariance, PTL

-----------------------------------------------------------------------------
(* Revocations by users that take turns.  With implementations that do not  *)
(* use their jobs, the state of a job says how far its user is: only a      *)
(* Submit leads out of IDLE, and only the user that has set REVOKING ends   *)
(* it, whatever the minions do meanwhile.                                   *)

\* Users submit, revoke and destroy, one after the other on each job, and
\* revoke before they submit again.
InTurns ==
    /\ Careful = Jobs
    /\ UserOps \subseteq {"Submit", "Revoke", "Destroy"}
    /\ \A j \in Jobs : RunOps[j] = {} /\ OtherOps[j] = {}

Calling(u, j) == thread[u].op # "none" /\ thread[u].job = j

\* The steps of a revocation between the attempt that begins it and Revoked.
RevokeSteps == {"timer", "queue", "units", "wait", "Revoked"}
Revoking(u, j) == Calling(u, j) /\ thread[u].pc \in RevokeSteps

\* What the attempts of RevokeRequired that failed have excluded.
Tried(u) ==
    /\ state[JobOf(u)] # "REVOKING"
    /\ thread[u].at >= 3 => state[JobOf(u)] # "SUBMITTED"
    /\ thread[u].at >= 4 => state[JobOf(u)] = "IDLE"

UserTurn(u) ==
    \/ thread[u].op = "none" /\ thread[u].pc = "rest"
    \/ /\ thread[u].op = "Submit" /\ life[JobOf(u)] = "alive"
       /\ \/ thread[u].pc = "Submit" /\ state[JobOf(u)] = "IDLE" /\ asked[JobOf(u)]
          \/ thread[u].pc \in {"enqueue", "await"}
    \/ /\ \/ thread[u].op = "Revoke" /\ life[JobOf(u)] = "alive"
          \/ thread[u].op = "Destroy" /\ life[JobOf(u)] = "dying"
       /\ \/ thread[u].pc = "RevokeRequired" /\ Tried(u)
          \/ thread[u].pc \in RevokeSteps /\ state[JobOf(u)] = "REVOKING"

MinionTurn(m) ==
    /\ thread[m].op = "none"
    /\ \/ thread[m].pc \in {"rest", "drain"}
       \/ /\ thread[m].pc \in {"Dispatch", "run", "completion", "Resubmit", "release"}
          /\ thread[m].job = current[m]

JobTurn(j) ==
    /\ state[j] \in {"IDLE", "SUBMITTED", "EXECUTING", "REVOKING"}
    /\ ~asked[j] \/ life[j] = "gone" => state[j] = "IDLE"
    /\ state[j] = "REVOKING" => \E u \in Users : Revoking(u, j)
    /\ \A u, v \in Users : Calling(u, j) /\ Calling(v, j) => u = v
    /\ timer[j] = 0

TurnsInv ==
    /\ thread[TimerThread] = Resting
    /\ \A u \in Users : UserTurn(u)
    /\ \A m \in Minions : MinionTurn(m)
    /\ \A j \in Jobs : JobTurn(j)

LEMMA InitTurns ==
    ASSUME Init
    PROVE  TurnsInv
  <1>1. \A a \in Actors : thread[a] = Resting
    BY DEF Init
  <1>2. \A a \in Actors : thread[a].op = "none" /\ thread[a].pc = "rest"
    BY <1>1 DEF Resting
  <1>3. \A j \in Jobs : JobTurn(j)
    BY <1>2 DEF Init, JobTurn, Calling, Actors
  <1>. QED BY <1>1, <1>2, <1>3 DEF TurnsInv, UserTurn, MinionTurn, Actors

\* Who is who, and where a thread is when it is about a job.
LEMMA Roles ==
    ASSUME Inv, TurnsInv
    PROVE  /\ TimerThread \in Actors \ (Users \cup Minions)
           /\ \A u \in Users : u \in Actors /\ u \notin Minions
           /\ \A m \in Minions : m \in Actors /\ m \notin Users
           /\ \A u \in Users : thread[u].op # "none" => JobOf(u) \in Jobs
  <1>1. ASSUME NEW u \in Users, thread[u].op # "none" PROVE JobOf(u) \in Jobs
    <2>1. thread[u].pc # "rest"
      BY <1>1 DEF TurnsInv, UserTurn, RevokeSteps
    <2>. QED BY <2>1 DEF Inv, ThreadsInv, ThreadShape, JobOf, Actors
  <1>. QED BY <1>1, ThreadAssumption DEF Actors

\* A user whose thread and whose job are left alone.
LEMMA UserTurnKept ==
    ASSUME Inv, TurnsInv, NEW u \in Users, thread'[u] = thread[u],
           \A k \in Jobs : Calling(u, k) =>
              state'[k] = state[k] /\ life'[k] = life[k] /\ asked'[k] = asked[k]
    PROVE  UserTurn(u)'
  <1>1. UserTurn(u) /\ (thread[u].op # "none" => JobOf(u) \in Jobs /\ Calling(u, JobOf(u)))
    BY Roles DEF TurnsInv, Calling, JobOf
  <1>. QED BY <1>1 DEF UserTurn, Tried, JobOf

\* A step of one thread that leaves the jobs alone.
LEMMA TurnsKept ==
    ASSUME Inv, TurnsInv, NEW a \in Actors, a # TimerThread,
           \A b \in Actors : b # a => thread'[b] = thread[b],
           \A m \in Minions : m # a => current'[m] = current[m],
           UNCHANGED <<state, life, asked, timer>>,
           a \in Minions => MinionTurn(a)',
           a \in Users => UserTurn(a)',
           a \in Users => \A k \in Jobs : /\ Calling(a, k)' => Calling(a, k)
                                          /\ Revoking(a, k) => Revoking(a, k)'
    PROVE  TurnsInv'
  <1>1. \A u \in Users : UserTurn(u)'
    BY UserTurnKept, Roles
  <1>2. \A m \in Minions : MinionTurn(m)'
    BY Roles DEF TurnsInv, MinionTurn
  <1>3. ASSUME NEW k \in Jobs PROVE JobTurn(k)'
    <2>1. \A u \in Users : /\ Calling(u, k)' => Calling(u, k)
                           /\ Revoking(u, k) => Revoking(u, k)'
      BY Roles DEF Calling, Revoking
    <2>2. JobTurn(k)
      BY DEF TurnsInv
    <2>. QED BY <2>1, <2>2 DEF JobTurn
  <1>. QED BY <1>1, <1>2, <1>3, Roles DEF TurnsInv

\* A step of one thread about one job; nobody else is calling it.
LEMMA TurnsMoved ==
    ASSUME Inv, TurnsInv, NEW a \in Actors, a # TimerThread, NEW j \in Jobs,
           \A b \in Actors : b # a => thread'[b] = thread[b],
           UNCHANGED <<current, timer>>,
           \A k \in Jobs : k # j =>
              state'[k] = state[k] /\ life'[k] = life[k] /\ asked'[k] = asked[k],
           \A u \in Users : u # a /\ Calling(u, j) => UserTurn(u)',
           a \in Minions => MinionTurn(a)',
           a \in Users => UserTurn(a)' /\ \A k \in Jobs : k # j => ~Calling(a, k) /\ ~Calling(a, k)',
           JobTurn(j)'
    PROVE  TurnsInv'
  <1>1. ASSUME NEW u \in Users PROVE UserTurn(u)'
    BY UserTurnKept, Roles
  <1>2. \A m \in Minions : MinionTurn(m)'
    BY Roles DEF TurnsInv, MinionTurn
  <1>3. ASSUME NEW k \in Jobs, k # j PROVE JobTurn(k)'
    <2>1. \A u \in Users : (Calling(u, k)' <=> Calling(u, k)) /\ (Revoking(u, k)' <=> Revoking(u, k))
      BY <1>3, Roles DEF Calling, Revoking
    <2>2. JobTurn(k)
      BY DEF TurnsInv
    <2>. QED BY <1>3, <2>1, <2>2 DEF JobTurn
  <1>. QED BY <1>1, <1>2, <1>3, Roles DEF TurnsInv

\* How the call of a user ends, or goes on.
LEMMA FinishFacts ==
    ASSUME Inv, TurnsInv, NEW a \in Users, NEW step, Finish(a, step)
    PROVE  /\ \A b \in Actors : b # a => thread'[b] = thread[b]
           /\ step # "return" =>
                /\ thread'[a].op = thread[a].op /\ thread'[a].job = thread[a].job
                /\ thread'[a].pc = step /\ life' = life /\ asked' = asked
           /\ step = "return" =>
                /\ thread'[a].op = "none" /\ thread'[a].pc = "rest"
                /\ \A k \in Jobs : k # JobOf(a) => life'[k] = life[k] /\ asked'[k] = asked[k]
                /\ \A k \in Jobs : k = JobOf(a) =>
                     /\ life'[k] = IF thread[a].op = "Destroy" THEN "gone" ELSE life[k]
                     /\ asked'[k] = IF thread[a].op = "Revoke" THEN FALSE ELSE asked[k]
  <1>1. a \in Actors /\ a \notin Minions
    BY Roles
  <1>2. CASE step # "return"
    BY <1>1, <1>2, GoFacts DEF Finish
  <1>3. CASE step = "return"
    <2>1. Return(a)
      BY <1>3 DEF Finish
    <2>2. life \in [Jobs -> {"alive", "dying", "gone"}] /\ asked \in [Jobs -> BOOLEAN]
      BY DEF Inv, JobsInv
    <2>3. /\ asked' = IF thread[a].op = "Revoke" THEN [asked EXCEPT ![JobOf(a)] = FALSE] ELSE asked
          /\ life' = IF thread[a].op = "Destroy" THEN [life EXCEPT ![JobOf(a)] = "gone"] ELSE life
      BY <1>3 DEF Finish
    <2>. QED BY <1>1, <1>3, <2>1, <2>2, <2>3, ReturnFacts
  <1>. QED BY <1>2, <1>3

\* Submit finds the job IDLE, so that only its third attempt succeeds.
LEMMA SubmitTurns ==
    ASSUME Inv, TurnsInv, NEW a \in Users, CompareExchange(a), thread[a].pc = "Submit",
           NEW j, j = thread[a].job, NEW i, i = thread[a].at
    PROVE  /\ TurnsInv' /\ j \in Jobs
           /\ \/ /\ state' = state /\ thread'[a].pc = "Submit"
              \/ /\ state'[j] = "SUBMITTED" /\ state[j] = "IDLE" /\ thread'[a].pc = "enqueue"
                 /\ thread'[a].job = j
  <1>1. /\ a \in Actors /\ a \notin Minions /\ a # TimerThread
        /\ thread[a].op = "Submit" /\ state[j] = "IDLE" /\ asked[j] /\ life[j] = "alive"
    BY Roles DEF TurnsInv, UserTurn, JobOf, RevokeSteps
  <1>2. /\ i \in 1 .. 3 /\ j \in Jobs
        /\ UNCHANGED <<ready, waiting, running, current, timer>>
        /\ \A k \in Jobs : k # j => state'[k] = state[k]
    BY <1>1, Attempt DEF Chain, SubmitChain
  <1>3. JobTurn(j) /\ Calling(a, j) /\ \A k \in Jobs : k # j => ~Calling(a, k)
    BY <1>1, <1>2 DEF TurnsInv, Calling
  <1>4. \A u \in Users : u # a => ~Calling(u, j)
    BY <1>2, <1>3 DEF JobTurn
  <1>5. state[j] = Chain["Submit"][i][1] <=> i = 3
    BY <1>1, <1>2 DEF Chain, SubmitChain
  <1>6. CASE state[j] = Chain["Submit"][i][1] /\ state'[j] = Chain["Submit"][i][2]
             /\ Finish(a, Follow(thread[a].op, "Submit", i))
    <2>1. state'[j] = "SUBMITTED" /\ Follow(thread[a].op, "Submit", i) = "enqueue"
      BY <1>5, <1>6 DEF Chain, SubmitChain, Follow, AfterSubmit
    <2>2. /\ thread'[a].op = "Submit" /\ thread'[a].job = j /\ thread'[a].pc = "enqueue"
          /\ life' = life /\ asked' = asked
          /\ \A b \in Actors : b # a => thread'[b] = thread[b]
      BY <1>1, <1>6, <2>1, FinishFacts
    <2>3. UserTurn(a)'
      BY <1>1, <2>2 DEF UserTurn, JobOf
    <2>4. \A u \in Users : /\ Calling(u, j)' <=> Calling(u, j)
                           /\ ~Revoking(u, j)'
      BY <1>1, <1>4, <2>2, Roles DEF Calling, Revoking, RevokeSteps
    <2>5. JobTurn(j)'
      BY <1>1, <1>2, <1>3, <2>1, <2>2, <2>4 DEF JobTurn
    <2>6. \A k \in Jobs : k # j => ~Calling(a, k)'
      BY <2>2 DEF Calling
    <2>. QED BY <1>1, <1>2, <1>3, <1>4, <2>1, <2>2, <2>3, <2>5, <2>6, TurnsMoved
  <1>7. CASE /\ state' = state /\ i < 3
             /\ thread'[a].op = thread[a].op /\ thread'[a].pc = "Submit" /\ thread'[a].job = j
             /\ life' = life /\ asked' = asked
             /\ \A b \in Actors : b # a => thread'[b] = thread[b]
    <2>1. UserTurn(a)'
      BY <1>1, <1>7 DEF UserTurn, JobOf
    <2>2. \A k \in Jobs : (Calling(a, k)' => Calling(a, k)) /\ ~Revoking(a, k)
      BY <1>1, <1>7 DEF Calling, Revoking, RevokeSteps
    <2>. QED BY <1>1, <1>2, <1>7, <2>1, <2>2, TurnsKept
  <1>. QED
    <2>1. Len(Chain["Submit"]) = 3
      BY DEF Chain, SubmitChain
    <2>2. \/ /\ state[j] = Chain["Submit"][i][1] /\ state'[j] = Chain["Submit"][i][2]
             /\ Finish(a, Follow(thread[a].op, "Submit", i))
          \/ /\ state[j] # Chain["Submit"][i][1] /\ state' = state /\ i < Len(Chain["Submit"])
             /\ thread'[a].op = thread[a].op /\ thread'[a].pc = "Submit" /\ thread'[a].job = j
             /\ thread'[a].at = i + 1 /\ life' = life /\ asked' = asked
             /\ \A b \in Actors : b # a => thread'[b] = thread[b]
          \/ /\ state[j] # Chain["Submit"][i][1] /\ state' = state /\ i = Len(Chain["Submit"])
             /\ Finish(a, Follow(thread[a].op, "Submit", 0))
      BY <1>1, Attempt
    <2>. QED BY <1>2, <1>5, <1>6, <1>7, <2>1, <2>2

\* RevokeRequired ends without success only when the job is IDLE.
LEMMA RevokeRequiredTurns ==
    ASSUME Inv, TurnsInv, NEW a \in Users, CompareExchange(a),
           thread[a].pc = "RevokeRequired",
           NEW j, j = thread[a].job, NEW i, i = thread[a].at
    PROVE  /\ TurnsInv' /\ j \in Jobs
           /\ \/ state' = state /\ thread'[a].pc \in {"RevokeRequired", "rest"}
              \/ /\ state'[j] = "REVOKING" /\ state[j] \in {"SUBMITTED", "EXECUTING"}
                 /\ thread'[a].pc = "timer"
  <1>1. /\ a \in Actors /\ a \notin Minions /\ a # TimerThread
        /\ thread[a].op \in {"Revoke", "Destroy"} /\ Tried(a)
        /\ life[j] = IF thread[a].op = "Destroy" THEN "dying" ELSE "alive"
    BY Roles DEF TurnsInv, UserTurn, JobOf, RevokeSteps
  <1>2. /\ i \in 1 .. 5 /\ j \in Jobs
        /\ UNCHANGED <<ready, waiting, running, current, timer>>
        /\ \A k \in Jobs : k # j => state'[k] = state[k]
    BY <1>1, Attempt DEF Chain, RevokeChain
  <1>3. JobTurn(j) /\ Calling(a, j) /\ \A k \in Jobs : k # j => ~Calling(a, k)
    BY <1>1, <1>2 DEF TurnsInv, Calling
  <1>4. \A u \in Users : u # a => ~Calling(u, j)
    BY <1>2, <1>3 DEF JobTurn
  <1>5. /\ Chain["RevokeRequired"][i][2] = "REVOKING"
        /\ Chain["RevokeRequired"][i][1] =
             CASE i = 1 -> "REVOKING" [] i = 2 -> "SUBMITTED" [] i = 3 -> "EXECUTING"
               [] i = 4 -> "RESUBMIT" [] i = 5 -> "SCHEDULE"
    BY <1>2 DEF Chain, RevokeChain
  <1>6. /\ state[j] \in {"IDLE", "SUBMITTED", "EXECUTING"}
        /\ i >= 3 => state[j] # "SUBMITTED"
        /\ i >= 4 => state[j] = "IDLE"
    BY <1>1, <1>3 DEF JobTurn, Tried, JobOf
  <1>7. CASE state[j] = Chain["RevokeRequired"][i][1]
             /\ state'[j] = Chain["RevokeRequired"][i][2]
             /\ Finish(a, Follow(thread[a].op, "RevokeRequired", i))
    <2>1. Follow(thread[a].op, "RevokeRequired", i) = "timer"
      BY <1>2 DEF Follow
    <2>2. state'[j] = "REVOKING" /\ state[j] \in {"SUBMITTED", "EXECUTING"}
      BY <1>2, <1>5, <1>6, <1>7
    <2>3. /\ thread'[a].op = thread[a].op /\ thread'[a].job = j /\ thread'[a].pc = "timer"
          /\ life' = life /\ asked' = asked
          /\ \A b \in Actors : b # a => thread'[b] = thread[b]
      BY <1>7, <2>1, FinishFacts
    <2>4. UserTurn(a)' /\ Revoking(a, j)'
      BY <1>1, <2>2, <2>3 DEF UserTurn, JobOf, RevokeSteps, Revoking, Calling
    <2>5. \A u \in Users : Calling(u, j)' <=> Calling(u, j)
      BY <2>3, Roles DEF Calling
    <2>6. asked[j] /\ life[j] # "gone"
      BY <1>1, <1>3, <2>2 DEF JobTurn
    <2>7. JobTurn(j)'
      BY <1>2, <1>3, <2>2, <2>3, <2>4, <2>5, <2>6 DEF JobTurn
    <2>8. \A k \in Jobs : k # j => ~Calling(a, k)'
      BY <2>3 DEF Calling
    <2>. QED BY <1>1, <1>2, <1>3, <1>4, <2>2, <2>3, <2>4, <2>7, <2>8, TurnsMoved
  <1>8. CASE /\ state[j] # Chain["RevokeRequired"][i][1] /\ state' = state /\ i < 5
             /\ thread'[a].op = thread[a].op /\ thread'[a].pc = "RevokeRequired"
             /\ thread'[a].job = j
             /\ thread'[a].at = i + 1 /\ life' = life /\ asked' = asked
             /\ \A b \in Actors : b # a => thread'[b] = thread[b]
    <2>1. Tried(a)'
      <3>1. /\ state[j] # "REVOKING"
            /\ i + 1 >= 3 => state[j] # "SUBMITTED"
            /\ i + 1 >= 4 => state[j] = "IDLE"
        BY <1>2, <1>5, <1>6, <1>8
      <3>. QED BY <1>8, <3>1 DEF Tried, JobOf
    <2>2. UserTurn(a)'
      BY <1>1, <1>8, <2>1 DEF UserTurn, JobOf
    <2>3. \A k \in Jobs : (Calling(a, k)' => Calling(a, k)) /\ ~Revoking(a, k)
      BY <1>1, <1>8 DEF Calling, Revoking, RevokeSteps
    <2>. QED BY <1>1, <1>2, <1>8, <2>2, <2>3, TurnsKept
  <1>9. CASE /\ state[j] # Chain["RevokeRequired"][i][1] /\ state' = state /\ i = 5
             /\ Finish(a, Follow(thread[a].op, "RevokeRequired", 0))
    <2>1. Follow(thread[a].op, "RevokeRequired", 0) = "return"
      BY <1>1 DEF Follow, AfterRevoke
    <2>2. state'[j] = "IDLE"
      BY <1>6, <1>9
    <2>3. /\ thread'[a].op = "none" /\ thread'[a].pc = "rest"
          /\ \A k \in Jobs : k # j => life'[k] = life[k] /\ asked'[k] = asked[k]
          /\ \A b \in Actors : b # a => thread'[b] = thread[b]
      BY <1>9, <2>1, FinishFacts DEF JobOf
    <2>4. UserTurn(a)' /\ \A k \in Jobs : ~Calling(a, k)'
      BY <2>3 DEF UserTurn, Calling
    <2>5. \A u \in Users : Calling(u, j)' => Calling(u, j)
      BY <2>3, <2>4, Roles, <1>2 DEF Calling
    <2>6. JobTurn(j)'
      BY <1>2, <1>3, <2>2, <2>5 DEF JobTurn
    <2>. QED BY <1>1, <1>2, <1>3, <1>4, <1>9, <2>3, <2>4, <2>6, TurnsMoved
  <1>. QED
    <2>1. Len(Chain["RevokeRequired"]) = 5
      BY DEF Chain, RevokeChain
    <2>2. \/ /\ state[j] = Chain["RevokeRequired"][i][1] /\ state'[j] = Chain["RevokeRequired"][i][2]
             /\ Finish(a, Follow(thread[a].op, "RevokeRequired", i))
          \/ /\ state[j] # Chain["RevokeRequired"][i][1] /\ state' = state /\ i < Len(Chain["RevokeRequired"])
             /\ thread'[a].op = thread[a].op /\ thread'[a].pc = "RevokeRequired" /\ thread'[a].job = j
             /\ thread'[a].at = i + 1 /\ life' = life /\ asked' = asked
             /\ \A b \in Actors : b # a => thread'[b] = thread[b]
          \/ /\ state[j] # Chain["RevokeRequired"][i][1] /\ state' = state /\ i = Len(Chain["RevokeRequired"])
             /\ Finish(a, Follow(thread[a].op, "RevokeRequired", 0))
      BY <1>1, Attempt
    <2>. QED BY <1>2, <1>7, <1>8, <1>9, <2>1, <2>2

\* Nobody else has changed REVOKING.
LEMMA RevokedTurns ==
    ASSUME Inv, TurnsInv, NEW a \in Users, CompareExchange(a), thread[a].pc = "Revoked",
           NEW j, j = thread[a].job
    PROVE  TurnsInv' /\ j \in Jobs /\ state'[j] = "IDLE" /\ thread'[a].pc = "rest"
  <1>1. /\ a \in Actors /\ a \notin Minions /\ a # TimerThread
        /\ thread[a].op \in {"Revoke", "Destroy"} /\ state[j] = "REVOKING"
        /\ thread[a].at \in 1 .. 1
    <2>1. thread[a].at \in 1 .. Len(Chain["Revoked"]) /\ Len(Chain["Revoked"]) = 1
      BY Roles DEF Inv, ThreadsInv, ThreadShape, Chain
    <2>. QED BY <2>1, Roles DEF TurnsInv, UserTurn, JobOf, RevokeSteps
  <1>2. /\ j \in Jobs /\ state'[j] = "IDLE" /\ Finish(a, "return")
        /\ UNCHANGED <<ready, waiting, running, current, timer>>
        /\ \A k \in Jobs : k # j => state'[k] = state[k]
    <2>1. /\ thread[a].at = 1
          /\ Chain["Revoked"][1][1] = "REVOKING" /\ Chain["Revoked"][1][2] = "IDLE"
      BY <1>1 DEF Chain
    <2>2. Follow(thread[a].op, "Revoked", 1) = "return"
      BY <1>1 DEF Follow, AfterRevoke
    <2>. QED BY <1>1, <2>1, <2>2, Attempt
  <1>3. JobTurn(j) /\ Calling(a, j) /\ \A k \in Jobs : k # j => ~Calling(a, k)
    BY <1>1, <1>2 DEF TurnsInv, Calling
  <1>4. \A u \in Users : u # a => ~Calling(u, j)
    BY <1>2, <1>3 DEF JobTurn
  <1>5. /\ thread'[a].op = "none" /\ thread'[a].pc = "rest"
        /\ \A k \in Jobs : k # j => life'[k] = life[k] /\ asked'[k] = asked[k]
        /\ \A b \in Actors : b # a => thread'[b] = thread[b]
    BY <1>2, FinishFacts DEF JobOf
  <1>6. UserTurn(a)' /\ \A k \in Jobs : ~Calling(a, k)'
    BY <1>5 DEF UserTurn, Calling
  <1>7. \A u \in Users : Calling(u, j)' => Calling(u, j)
    BY <1>2, <1>5, <1>6, Roles DEF Calling
  <1>8. JobTurn(j)'
    BY <1>2, <1>3, <1>7 DEF JobTurn
  <1>. QED BY <1>1, <1>2, <1>3, <1>4, <1>5, <1>6, <1>8, TurnsMoved

\* A minion finds its job SUBMITTED, or revoked.
LEMMA DispatchTurns ==
    ASSUME Inv, TurnsInv, NEW a \in Minions, CompareExchange(a), thread[a].pc = "Dispatch",
           NEW j, j = thread[a].job, NEW i, i = thread[a].at
    PROVE  /\ TurnsInv' /\ j \in Jobs /\ j = current[a]
           /\ \A k \in Jobs : k # j => state'[k] = state[k]
           /\ \/ state[j] = "SUBMITTED" /\ state'[j] = "EXECUTING" /\ thread'[a].pc = "run"
              \/ /\ state[j] # "SUBMITTED" /\ state' = state
                 /\ thread'[a].pc = "completion"
           /\ \A b \in Actors : b # a => thread'[b] = thread[b]
           /\ UNCHANGED <<ready, waiting, running, current, interest>>
  <1>0. a \in Actors
    BY Roles
  <1>1. /\ a \in Actors /\ a \notin Users /\ a # TimerThread
        /\ thread[a].op = "none" /\ j = current[a] /\ thread[a].at = 1
        /\ Chain["Dispatch"][1][1] = "SUBMITTED" /\ Chain["Dispatch"][1][2] = "EXECUTING"
        /\ Len(Chain["Dispatch"]) = 1
    <2>1. /\ thread[a].at \in 1 .. Len(Chain["Dispatch"]) /\ Len(Chain["Dispatch"]) = 1
          /\ Chain["Dispatch"][1][1] = "SUBMITTED" /\ Chain["Dispatch"][1][2] = "EXECUTING"
      BY Roles DEF Inv, ThreadsInv, ThreadShape, Chain
    <2>. QED BY <2>1, Roles DEF TurnsInv, MinionTurn
  <1>2. /\ j \in Jobs
        /\ UNCHANGED <<ready, waiting, running, current, timer, interest>>
        /\ \A k \in Jobs : k # j => state'[k] = state[k]
    BY ZenonT(30), <1>1, Attempt
  <1>3. \/ state[j] = "SUBMITTED" /\ state'[j] = "EXECUTING" /\ Finish(a, "run")
        \/ state[j] # "SUBMITTED" /\ state' = state /\ Finish(a, "completion")
    <2>1. /\ Follow(thread[a].op, "Dispatch", 1) = "run"
          /\ Follow(thread[a].op, "Dispatch", 0) = "completion"
      BY DEF Follow
    <2>2. \/ /\ state[j] = Chain["Dispatch"][i][1] /\ state'[j] = Chain["Dispatch"][i][2]
             /\ Finish(a, Follow(thread[a].op, "Dispatch", i))
          \/ /\ state[j] # Chain["Dispatch"][i][1] /\ state' = state /\ i < Len(Chain["Dispatch"])
             /\ thread'[a].op = thread[a].op /\ thread'[a].pc = "Dispatch" /\ thread'[a].job = j
             /\ thread'[a].at = i + 1 /\ life' = life /\ asked' = asked
             /\ \A b \in Actors : b # a => thread'[b] = thread[b]
          \/ /\ state[j] # Chain["Dispatch"][i][1] /\ state' = state /\ i = Len(Chain["Dispatch"])
             /\ Finish(a, Follow(thread[a].op, "Dispatch", 0))
      BY <1>0, Attempt
    <2>. QED BY <1>1, <2>1, <2>2
  <1>4. /\ life' = life /\ asked' = asked
        /\ thread'[a].op = "none" /\ thread'[a].job = j
        /\ \A b \in Actors : b # a => thread'[b] = thread[b]
        /\ thread'[a].pc \in {"run", "completion"}
        /\ state[j] = "SUBMITTED" => thread'[a].pc = "run"
        /\ state[j] # "SUBMITTED" => thread'[a].pc = "completion"
    BY <1>1, <1>3, GoFacts DEF Finish
  <1>5. MinionTurn(a)'
    BY <1>1, <1>2, <1>4 DEF MinionTurn
  <1>6. ASSUME NEW u \in Users, u # a, Calling(u, j) PROVE UserTurn(u)'
    <2>1. UserTurn(u) /\ thread'[u] = thread[u] /\ JobOf(u) = j
      BY <1>1, <1>4, <1>6, Roles DEF TurnsInv, Calling, JobOf
    <2>. QED BY <1>3, <1>4, <2>1 DEF UserTurn, Tried, JobOf
  <1>7. JobTurn(j)'
    <2>1. JobTurn(j) /\ \A u \in Users : /\ Calling(u, j)' <=> Calling(u, j)
                                         /\ Revoking(u, j)' <=> Revoking(u, j)
      BY <1>1, <1>2, <1>4, Roles DEF TurnsInv, Calling, Revoking
    <2>. QED BY <1>2, <1>3, <1>4, <2>1 DEF JobTurn
  <1>. QED BY <1>1, <1>2, <1>3, <1>4, <1>5, <1>6, <1>7, TurnsMoved

\* Nobody has asked for another run.
LEMMA ResubmitTurns ==
    ASSUME Inv, TurnsInv, NEW a \in Minions, CompareExchange(a), thread[a].pc = "Resubmit",
           NEW j, j = thread[a].job, NEW i, i = thread[a].at
    PROVE  /\ TurnsInv' /\ j \in Jobs /\ j = current[a]
           /\ \A k \in Jobs : k # j => state'[k] = state[k]
           /\ \/ state[j] = "EXECUTING" /\ state'[j] = "IDLE" /\ thread'[a].pc = "release"
              \/ state' = state /\ thread'[a].pc \in {"Resubmit", "release"}
           /\ \A b \in Actors : b # a => thread'[b] = thread[b]
           /\ UNCHANGED <<ready, waiting, running, current, interest>>
  <1>0. a \in Actors
    BY Roles
  <1>1. /\ a \in Actors /\ a \notin Users /\ a # TimerThread
        /\ thread[a].op = "none" /\ j = current[a]
    BY Roles DEF TurnsInv, MinionTurn
  <1>2. /\ j \in Jobs /\ i \in 1 .. Len(Chain["Resubmit"])
        /\ UNCHANGED <<ready, waiting, running, current, timer, interest>>
        /\ \A k \in Jobs : k # j => state'[k] = state[k]
    BY ZenonT(30), <1>1, Attempt
  <1>3. /\ Len(Chain["Resubmit"]) = 3
        /\ Chain["Resubmit"][1][1] = "EXECUTING" /\ Chain["Resubmit"][1][2] = "IDLE"
        /\ Chain["Resubmit"][2][1] = "RESUBMIT" /\ Chain["Resubmit"][3][1] = "SCHEDULE"
        /\ Follow(thread[a].op, "Resubmit", 1) = "release"
        /\ Follow(thread[a].op, "Resubmit", 0) = "release"
    BY DEF Chain, ResubmitChain, Follow, AfterResubmit
  <1>4. JobTurn(j) /\ state[j] \notin {"RESUBMIT", "SCHEDULE"}
    BY <1>2 DEF TurnsInv, JobTurn
  <1>5. \/ /\ state[j] = Chain["Resubmit"][i][1] /\ state'[j] = Chain["Resubmit"][i][2]
           /\ Finish(a, Follow(thread[a].op, "Resubmit", i))
        \/ /\ state[j] # Chain["Resubmit"][i][1] /\ state' = state /\ i < Len(Chain["Resubmit"])
           /\ thread'[a].op = thread[a].op /\ thread'[a].pc = "Resubmit" /\ thread'[a].job = j
           /\ thread'[a].at = i + 1 /\ life' = life /\ asked' = asked
           /\ \A b \in Actors : b # a => thread'[b] = thread[b]
        \/ /\ state[j] # Chain["Resubmit"][i][1] /\ state' = state /\ i = Len(Chain["Resubmit"])
           /\ Finish(a, Follow(thread[a].op, "Resubmit", 0))
    BY <1>0, Attempt
  <1>6. Finish(a, "release") =>
           /\ thread'[a].op = "none" /\ thread'[a].pc = "release" /\ thread'[a].job = j
           /\ life' = life /\ asked' = asked
           /\ \A b \in Actors : b # a => thread'[b] = thread[b]
    BY <1>1, GoFacts DEF Finish
  <1>7. /\ \/ state[j] = "EXECUTING" /\ state'[j] = "IDLE" /\ thread'[a].pc = "release"
           \/ state' = state /\ thread'[a].pc \in {"Resubmit", "release"}
        /\ life' = life /\ asked' = asked
        /\ thread'[a].op = "none" /\ thread'[a].job = j
        /\ \A b \in Actors : b # a => thread'[b] = thread[b]
    <2>1. i \in {1, 2, 3}
      BY <1>2, <1>3
    <2>2. state[j] = Chain["Resubmit"][i][1] => i = 1
      BY <1>3, <1>4, <2>1
    <2>. QED BY <1>1, <1>3, <1>5, <1>6, <2>2
  <1>8. MinionTurn(a)'
    BY <1>1, <1>2, <1>7 DEF MinionTurn
  <1>9. ASSUME NEW u \in Users, u # a, Calling(u, j) PROVE UserTurn(u)'
    <2>1. UserTurn(u) /\ thread'[u] = thread[u] /\ JobOf(u) = j
      BY <1>1, <1>7, <1>9, Roles DEF TurnsInv, Calling, JobOf
    <2>. QED BY <1>7, <2>1 DEF UserTurn, Tried, JobOf
  <1>10. JobTurn(j)'
    <2>1. \A u \in Users : /\ Calling(u, j)' <=> Calling(u, j)
                           /\ Revoking(u, j)' <=> Revoking(u, j)
      BY <1>1, <1>2, <1>7, Roles DEF Calling, Revoking
    <2>. QED BY <1>2, <1>4, <1>7, <2>1 DEF JobTurn
  <1>. QED BY <1>1, <1>2, <1>7, <1>8, <1>9, <1>10, TurnsMoved

\* A user takes his turn on a job.
LEMMA UserCallTurns ==
    ASSUME InTurns, Inv, TurnsInv, NEW a \in Users, NEW op \in UserOps, NEW j \in Jobs,
           UserCall(a, op, j)
    PROVE  /\ TurnsInv' /\ thread'[a].pc \in {"Submit", "RevokeRequired"}
           /\ \A b \in Actors : b # a => thread'[b] = thread[b]
           /\ UNCHANGED <<ready, waiting, running, current, interest, state>>
  <1>1. /\ a \in Actors /\ a \notin Minions /\ a # TimerThread
        /\ op \in {"Submit", "Revoke", "Destroy"} /\ life[j] = "alive"
        /\ op = "Submit" => ~asked[j]
        /\ thread[a].pc = "rest" /\ Begin(a, op, j)
    BY Roles DEF InTurns, UserCall, MayCall, At
  <1>2. \A u \in Users : ~Calling(u, j)
    <2>1. Untouched(j)
      BY DEF InTurns, UserCall
    <2>. QED BY <2>1, Roles DEF Untouched, Calling, JobOf
  <1>3. \A k \in Jobs : ~Calling(a, k)
    BY <1>1 DEF TurnsInv, UserTurn, Calling, RevokeSteps
  <1>4. /\ thread'[a] = [op |-> op, pc |-> FirstStep(op), at |-> 1, job |-> j]
        /\ \A b \in Actors : b # a => thread'[b] = thread[b]
        /\ UNCHANGED <<ready, waiting, running, state, current, interest, timer>>
    BY <1>1 DEF Begin, Inv, ThreadsInv, queueVars
  <1>5. /\ \A k \in Jobs : k # j => life'[k] = life[k] /\ asked'[k] = asked[k]
        /\ life'[j] = IF op = "Destroy" THEN "dying" ELSE "alive"
        /\ asked'[j] = (op = "Submit" \/ asked[j])
    BY <1>1 DEF Begin, Inv, JobsInv
  <1>6. /\ thread'[a].op = op /\ thread'[a].job = j /\ thread'[a].at = 1
        /\ thread'[a].pc = IF op = "Submit" THEN "Submit" ELSE "RevokeRequired"
    BY <1>1, <1>4 DEF FirstStep
  <1>7. JobTurn(j) /\ state[j] # "REVOKING"
    BY <1>2 DEF TurnsInv, JobTurn, Revoking
  <1>8. UserTurn(a)'
    <2>1. op # "Submit" => Tried(a)'
      BY <1>4, <1>6, <1>7 DEF Tried, JobOf
    <2>. QED BY <1>1, <1>4, <1>5, <1>6, <1>7, <2>1 DEF UserTurn, JobOf, JobTurn
  <1>9. JobTurn(j)'
    <2>1. \A u \in Users : Calling(u, j)' => u = a
      BY <1>2, <1>4, Roles DEF Calling
    <2>. QED BY <1>1, <1>4, <1>5, <1>7, <2>1 DEF JobTurn
  <1>10. \A k \in Jobs : k # j => ~Calling(a, k)'
    BY <1>6 DEF Calling
  <1>. QED BY <1>1, <1>2, <1>3, <1>4, <1>5, <1>6, <1>8, <1>9, <1>10, TurnsMoved

\* Who can take which step.
LEMMA AdvanceTurns ==
    ASSUME Inv, TurnsInv, NEW a \in Actors, Advance(a)
    PROVE  \/ /\ a \in Users
              /\ \/ CompareExchange(a) /\ thread[a].pc \in {"Submit", "RevokeRequired", "Revoked"}
                 \/ Enqueue(a) \/ Await(a)
                 \/ RevokeTimer(a) \/ RevokeQueue(a) \/ RevokeUnit(a) \/ RevokeWait(a)
           \/ /\ a \in Minions
              /\ CompareExchange(a) /\ thread[a].pc \in {"Dispatch", "Resubmit"}
  <1>1. CompareExchange(a) => thread[a].pc \in {"Submit", "Reschedule", "RevokeRequired", "Revoked",
                                               "Idle", "Dispatch", "Resubmit"}
    BY DEF CompareExchange, Chain
  <1>2. CASE a \in Users
    <2>1. thread[a].pc \in {"rest", "Submit", "enqueue", "await", "RevokeRequired", "timer",
                            "queue", "units", "wait", "Revoked"}
      BY <1>2 DEF TurnsInv, UserTurn, RevokeSteps
    <2>2. ~Schedule(a)
      BY <2>1 DEF Schedule, At
    <2>. QED BY <1>1, <1>2, <2>1, <2>2 DEF Advance
  <1>3. CASE a \notin Users
    <2>1. /\ thread[a].pc \in {"rest", "drain", "Dispatch", "run", "completion", "Resubmit", "release"}
          /\ a \notin Minions => thread[a].pc = "rest"
      BY <1>3 DEF TurnsInv, MinionTurn, Resting, Actors
    <2>2. ~(Enqueue(a) \/ Await(a) \/ Schedule(a) \/ RevokeTimer(a) \/ RevokeQueue(a)
            \/ RevokeUnit(a) \/ RevokeWait(a))
      BY <2>1 DEF Enqueue, Await, Schedule, RevokeTimer, RevokeQueue, RevokeUnit, RevokeWait, At
    <2>. QED BY <1>1, <2>1, <2>2, <1>3 DEF Advance
  <1>. QED BY <1>2, <1>3

\* The job goes to the queue, and the call returns.
LEMMA EnqueueTurns ==
    ASSUME Inv, TurnsInv, NEW a \in Users, Enqueue(a) \/ Await(a)
    PROVE  /\ TurnsInv'
           /\ thread'[a].pc \in {"await", "rest"}
           /\ \A b \in Actors : b # a => thread'[b] = thread[b]
           /\ UNCHANGED <<state, current, interest>>
  <1>1. /\ a \in Actors /\ a \notin Minions /\ a # TimerThread
        /\ thread[a].pc \in {"enqueue", "await"}
        /\ UNCHANGED <<state, life, asked, current, interest, timer>>
    BY Roles DEF Enqueue, Await, At, poolVars
  <1>2. UserTurn(a) /\ thread[a].op = "Submit"
    BY <1>1 DEF TurnsInv, UserTurn, RevokeSteps
  <1>3. Go(a, "await") \/ Return(a)
    BY <1>1 DEF Enqueue, Await, Handed
  <1>4. /\ \A b \in Actors : b # a => thread'[b] = thread[b]
        /\ \/ thread'[a].op = "none" /\ thread'[a].pc = "rest"
           \/ thread'[a].op = "Submit" /\ thread'[a].pc = "await" /\ thread'[a].job = thread[a].job
    BY <1>1, <1>2, <1>3, GoFacts, ReturnFacts
  <1>5. UserTurn(a)'
    BY <1>1, <1>2, <1>4 DEF UserTurn, JobOf, RevokeSteps
  <1>6. \A k \in Jobs : (Calling(a, k)' => Calling(a, k)) /\ ~Revoking(a, k)
    BY <1>1, <1>2, <1>4 DEF Calling, Revoking, RevokeSteps
  <1>. QED BY <1>1, <1>4, <1>5, <1>6, TurnsKept

\* A revocation goes on.
LEMMA RevokeStepTurns ==
    ASSUME Inv, TurnsInv, NEW a \in Users, thread[a].pc \in RevokeSteps,
           thread'[a].op = thread[a].op, thread'[a].job = thread[a].job,
           thread'[a].pc \in RevokeSteps,
           \A b \in Actors : b # a => thread'[b] = thread[b],
           UNCHANGED <<state, life, asked, current, timer>>
    PROVE  TurnsInv'
  <1>1. a \in Actors /\ a \notin Minions /\ a # TimerThread
    BY Roles
  <1>2. UserTurn(a)'
    BY DEF TurnsInv, UserTurn, JobOf, RevokeSteps
  <1>3. \A k \in Jobs : (Calling(a, k)' => Calling(a, k)) /\ (Revoking(a, k) => Revoking(a, k)')
    BY DEF Calling, Revoking
  <1>. QED BY <1>1, <1>2, <1>3, TurnsKept

LEMMA RevokeTurns ==
    ASSUME Inv, TurnsInv, NEW a \in Users,
           RevokeTimer(a) \/ RevokeQueue(a) \/ RevokeUnit(a) \/ RevokeWait(a)
    PROVE  /\ TurnsInv' /\ UNCHANGED <<state, current>>
           /\ \A b \in Actors : b # a => thread'[b] = thread[b]
           /\ thread'[a].op = thread[a].op /\ thread'[a].job = thread[a].job
           /\ Calling(a, thread[a].job) /\ thread[a].job \in Jobs
  <1>1. /\ a \in Actors /\ thread[a].pc \in {"timer", "queue", "units", "wait"}
        /\ UNCHANGED <<state, life, asked, current>>
    BY Roles DEF RevokeTimer, RevokeQueue, RevokeUnit, RevokeWait, At, poolVars
  <1>2. thread[a].op # "none" /\ thread[a].job \in Jobs
    BY <1>1, Roles DEF TurnsInv, UserTurn, JobOf
  <1>3. timer' = timer
    <2>1. timer \in [Jobs -> Nat] /\ timer[thread[a].job] = 0
      BY <1>2 DEF TurnsInv, JobTurn, Inv, OthersInv
    <2>2. timer' = timer \/ timer' = [timer EXCEPT ![thread[a].job] = 0]
      BY DEF RevokeTimer, RevokeQueue, RevokeUnit, RevokeWait, poolVars, JobOf
    <2>. QED BY <2>1, <2>2
  <1>4. /\ \A b \in Actors : b # a => thread'[b] = thread[b]
        /\ thread'[a].op = thread[a].op /\ thread'[a].job = thread[a].job
        /\ thread'[a].pc \in RevokeSteps
    <2>1. \/ \E step \in RevokeSteps : Go(a, step)
          \/ Further(a) /\ thread[a].pc = "units"
          \/ thread' = [thread EXCEPT ![a].pc = "wait"]
      BY DEF RevokeTimer, RevokeQueue, RevokeUnit, RevokeWait, RevokeSteps, At
    <2>2. thread \in [Actors -> ThreadType]
      BY DEF Inv, ThreadsInv
    <2>3. CASE \E step \in RevokeSteps : Go(a, step)
      BY <1>1, <2>3, GoFacts
    <2>4. CASE Further(a) /\ thread[a].pc = "units"
      BY <1>1, <2>2, <2>4 DEF Further, ThreadType, RevokeSteps
    <2>5. CASE thread' = [thread EXCEPT ![a].pc = "wait"]
      BY <1>1, <2>2, <2>5 DEF ThreadType, RevokeSteps
    <2>. QED BY <2>1, <2>3, <2>4, <2>5
  <1>5. thread[a].pc \in RevokeSteps
    BY <1>1 DEF RevokeSteps
  <1>. QED BY <1>1, <1>2, <1>3, <1>4, <1>5, RevokeStepTurns DEF Calling

\* What a minion does besides the chains does not touch the state of a job.
LEMMA MinionTurns ==
    ASSUME Inv, TurnsInv, NEW a \in Minions, MinionStep(a) \/ RunEnd(a)
    PROVE  /\ TurnsInv' /\ state' = state
           /\ \A b \in Actors : b # a => thread'[b] = thread[b]
           /\ \A b \in Minions : b # a => current'[b] = current[b]
  <1>1. /\ a \in Actors /\ a \notin Users /\ a # TimerThread
        /\ UNCHANGED <<state, life, asked, timer>>
    BY Roles DEF MinionStep, MinionExtract, MinionCompletion, Release, Drain, RunEnd, poolVars
  <1>2. \A m \in Minions : m # a => current'[m] = current[m]
    <2>1. current \in [Minions -> Jobs \cup {NoJob}]
      BY DEF Inv, OthersInv
    <2>2. current' = current \/ \E k : current' = [current EXCEPT ![a] = k]
      BY DEF MinionStep, MinionExtract, MinionCompletion, Release, Drain, RunEnd, poolVars
    <2>. QED BY <2>1, <2>2
  <1>3. /\ \A b \in Actors : b # a => thread'[b] = thread[b]
        /\ MinionTurn(a)'
    <2>1. CASE MinionExtract(a)
      <3>1. /\ thread'[a] = [op |-> "none", pc |-> "Dispatch", at |-> 1, job |-> Head(ready).job]
            /\ \A b \in Actors : b # a => thread'[b] = thread[b]
            /\ current'[a] = Head(ready).job
        BY <1>1, <2>1 DEF MinionExtract, Inv, ThreadsInv, OthersInv
      <3>. QED BY <3>1 DEF MinionTurn
    <2>2. CASE MinionCompletion(a) \/ RunEnd(a)
      <3>1. /\ thread[a].pc \in {"run", "completion"} /\ current' = current
            /\ \E step \in {"completion", "Resubmit"} : Go(a, step)
        BY <2>2 DEF MinionCompletion, RunEnd, At, poolVars
      <3>. QED BY <1>1, <3>1, GoFacts DEF TurnsInv, MinionTurn
    <2>3. CASE Release(a) \/ Drain(a)
      <3>1. thread[a].op = "none"
        BY DEF TurnsInv, MinionTurn
      <3>2. thread' = [thread EXCEPT ![a] = Resting] \/ Go(a, "drain")
        BY <2>3 DEF Release, Drain
      <3>. QED BY <1>1, <3>1, <3>2, GoFacts DEF MinionTurn, Resting, Inv, ThreadsInv
    <2>. QED BY <2>1, <2>2, <2>3 DEF MinionStep
  <1>. QED BY <1>1, <1>2, <1>3, TurnsKept

\* The timer has nothing to fire.
LEMMA NoOtherTurns ==
    ASSUME TurnsInv
    PROVE  \A j \in Jobs : ~Fire(j)
  BY DEF TurnsInv, JobTurn, Fire

LEMMA NextTurns ==
    ASSUME InTurns, Inv, TurnsInv, [Next]_vars
    PROVE  TurnsInv'
  <1>1. ASSUME NEW u \in Users, NEW op \in UserOps, NEW j \in Jobs, UserCall(u, op, j)
        PROVE  TurnsInv'
    BY <1>1, UserCallTurns
  <1>2. ASSUME NEW m \in Minions, NEW j \in Jobs, NEW op \in RunOps[j] \cup OtherOps[j]
        PROVE  FALSE
    BY <1>2 DEF InTurns
  <1>3. ASSUME NEW a \in Actors, Advance(a)
        PROVE  TurnsInv'
    BY <1>3, AdvanceTurns, SubmitTurns, RevokeRequiredTurns, RevokedTurns, EnqueueTurns,
       RevokeTurns, DispatchTurns, ResubmitTurns
  <1>4. \A j \in Jobs : ~Fire(j)
    BY NoOtherTurns
  <1>5. ASSUME NEW m \in Minions, MinionStep(m) \/ RunEnd(m)
        PROVE  TurnsInv'
    BY <1>5, MinionTurns
  <1>6. CASE UNCHANGED vars
    <2>1. UNCHANGED <<state, life, asked, thread, current, timer>>
      BY <1>6 DEF vars
    <2>. QED BY <2>1 DEF TurnsInv, UserTurn, MinionTurn, JobTurn, Tried, JobOf, Calling, Revoking
  <1>. QED BY <1>1, <1>2, <1>3, <1>4, <1>5, <1>6 DEF Next

LEMMA TurnsInvariance ==
    ASSUME InTurns
    PROVE  Spec => []TurnsInv
  <1>1. Init => TurnsInv
    BY InitTurns
  <1>2. Inv /\ TurnsInv /\ [Next]_vars => TurnsInv'
    BY NextTurns
  <1>. QED BY <1>1, <1>2, Invariance, PTL DEF Spec

\* With users that take turns no assertion of JobType fails, however many
\* minions there are: a thread that ends its revocation finds REVOKING as it
\* has left it (ThreadPool.h:337), and a job that is gone is IDLE for ever
\* (ThreadPool.h:245).
THEOREM JobAssertsHolds ==
    ASSUME InTurns
    PROVE  Spec => []JobAsserts
  <1>1. Inv /\ TurnsInv => JobAsserts
    <2>. SUFFICES ASSUME Inv, TurnsInv PROVE JobAsserts
      OBVIOUS
    <2>1. DestroyedIdle
      BY DEF DestroyedIdle, TurnsInv, JobTurn
    <2>2. ASSUME NEW a \in Actors, At(a, "Revoked") PROVE state[JobOf(a)] = "REVOKING"
      BY <2>2 DEF At, Actors, TurnsInv, UserTurn, MinionTurn, Resting, RevokeSteps
    <2>. QED BY <2>1, <2>2 DEF JobAsserts, RevokedInTime
  <1>. QED BY <1>1, Invariance, TurnsInvariance, PTL

\* Where a run begins: the minion has found its job SUBMITTED.
LEMMA RunBegins ==
    ASSUME Inv, TurnsInv, InTurns, [Next]_vars, NEW m \in Minions,
           At(m, "Dispatch"), At(m, "run")'
    PROVE  state[JobOf(m)] = "SUBMITTED" /\ JobOf(m) \in Jobs
  <1>0. m \in Actors /\ m \notin Users /\ m # TimerThread /\ thread[m].pc = "Dispatch"
        /\ thread'[m].pc = "run" /\ thread \in [Actors -> ThreadType]
    BY Roles DEF At, Inv, ThreadsInv
  <1>1. ASSUME NEW u \in Users, NEW op \in UserOps, NEW j \in Jobs, UserCall(u, op, j)
        PROVE  FALSE
    BY <1>0, <1>1 DEF UserCall, Begin
  <1>2. ASSUME NEW n \in Minions, NEW j \in Jobs, NEW op \in RunOps[j] \cup OtherOps[j]
        PROVE  FALSE
    BY <1>2 DEF InTurns
  <1>3. ASSUME NEW a \in Actors, a # m, Advance(a) PROVE FALSE
    <2>1. thread'[m] = thread[m]
      BY <1>0, <1>3 DEF Advance, CompareExchange, Finish, Enqueue, Await, Schedule, RevokeTimer,
         RevokeQueue, RevokeUnit, RevokeWait, Handed, Return, Go, Further
    <2>. QED BY <1>0, <2>1
  <1>4. CASE CompareExchange(m)
    BY <1>0, <1>4, DispatchTurns DEF JobOf
  <1>5. CASE Advance(m) /\ ~CompareExchange(m)
    BY <1>0, <1>5 DEF Advance, Enqueue, Await, Schedule, RevokeTimer, RevokeQueue, RevokeUnit,
       RevokeWait, At
  <1>6. \A j \in Jobs : ~Fire(j)
    BY NoOtherTurns
  <1>7. ASSUME NEW n \in Minions, MinionStep(n) \/ RunEnd(n) PROVE FALSE
    <2>1. n # m => thread'[m] = thread[m]
      BY <1>0, <1>7 DEF MinionStep, RunEnd, MinionExtract, MinionCompletion, Release, Drain, Go
    <2>2. n # m
      BY <1>0, <1>7 DEF MinionStep, RunEnd, MinionExtract, MinionCompletion, Release, Drain, At
    <2>. QED BY <1>0, <2>1, <2>2
  <1>8. CASE UNCHANGED vars
    BY <1>0, <1>8 DEF vars
  <1>. QED BY <1>1, <1>2, <1>3, <1>4, <1>5, <1>6, <1>7, <1>8 DEF Next

\* With users that take turns, and any number of minions, no run begins of a job
\* that was revoked and not submitted since, or that is gone, although a Revoke that
\* looks for it unit after unit (ThreadPool.h:735) may leave an entry behind.
THEOREM RunsWhenAskedHolds ==
    ASSUME InTurns
    PROVE  Spec => RunsWhenAsked
  <1>1. Inv /\ TurnsInv /\ [Next]_vars =>
          [\A m \in Minions : At(m, "Dispatch") /\ At(m, "run")' =>
              asked[JobOf(m)] /\ life[JobOf(m)] # "gone"]_vars
    BY RunBegins DEF TurnsInv, JobTurn
  <1>. QED BY <1>1, Invariance, TurnsInvariance, PTL DEF Spec, RunsWhenAsked

=============================================================================
