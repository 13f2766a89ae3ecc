------------------------- MODULE PluginLifecycle -------------------------
(***************************************************************************)
(* The life cycle of plugins in the Thunder daemon: Server::Service        *)
(* (Activate, Deactivate, Suspend, Resume, Hibernate, Unavailable and      *)
(* Evaluate), the edge triggered precondition and termination of a         *)
(* plugin, and the subsystem flags that tie plugins together.              *)
(*                                                                         *)
(* Several threads run these operations at the same time.  A thread that   *)
(* deactivates a plugin walks all plugins (ServiceMap::Evaluate) and may   *)
(* activate or deactivate others from inside that walk, so a thread keeps  *)
(* one activation frame per plugin; `stack' is the order of the calls.     *)
(*                                                                         *)
(* Locks: `lock' is Service::_adminLock, `qlock' is _queryInterfaceLock.   *)
(* A step is the code between two points at which another thread can run.  *)
(***************************************************************************)
EXTENDS Integers, Sequences, FiniteSets

CONSTANTS
    Plugins,        \* the services of the ServiceMap
    Order,          \* the order in which the ServiceMap enumerates them
    Clients,        \* threads that issue requests (Controller, JSON-RPC, COM-RPC)
    Worker,         \* the pool thread that runs the SubSystems evaluation job
    SubSystems,     \* ISubSystem::subsystem
    Platform,       \* the subsystems no plugin controls
    Preconditions,  \* [Plugins -> SUBSET SubSystems], all must be up
    Terminations,   \* [Plugins -> SUBSET SubSystems], the NOT_x entries
    Controls,       \* [Plugins -> SUBSET SubSystems], Metadata::Control
    Suspendable,    \* plugins that offer IStateControl
    AutoResume,     \* plugins configured "resumed"
    Hosted,         \* plugins that live in a process of their own
    Operations,     \* the kinds of request the clients issue
    Reasons,        \* the reasons they give
    MaxRequests,    \* bound: number of client requests in a behaviour
    MaxProcess,     \* bound: process identifiers per plugin
    NoPlugin, NoThread

Threads == Clients \cup {Worker}
Count == Len(Order)

\* IShell::reason: those of the clients, and those the daemon gives itself.
Reason == Reasons \cup {"SHUTDOWN", "CONDITIONS", "INITIALIZATION_FAILED", "INSTANTIATION_FAILED"}

ASSUME OrderAssumption ==
    /\ Order \in Seq(Plugins)
    /\ \A p \in Plugins : \E i \in 1..Count : Order[i] = p
ASSUME ThreadAssumption ==
    /\ Worker \notin Clients
    /\ NoThread \notin Threads
    /\ NoPlugin \notin Plugins
ASSUME ConditionAssumption ==
    /\ Preconditions \in [Plugins -> SUBSET SubSystems]
    /\ Terminations \in [Plugins -> SUBSET SubSystems]
    /\ Controls \in [Plugins -> SUBSET SubSystems]
    /\ Platform \subseteq SubSystems
ASSUME ReasonAssumption ==
    \* No caller in the framework or its plugins passes INITIALIZATION_FAILED.
    /\ "INITIALIZATION_FAILED" \notin Reasons
    /\ "REQUESTED" \in Reasons
ASSUME BoundAssumption == MaxRequests \in Nat /\ MaxProcess \in Nat

State == {"DEACTIVATED", "PRECONDITION", "ACTIVATION", "ACTIVATED",
          "DEACTIVATION", "HIBERNATED", "UNAVAILABLE"}

VARIABLES
    state,       \* IShell::state of each plugin
    reason,      \* _reason
    handler,     \* _handler # nullptr
    control,     \* _stateControl: "none", "suspended" or "resumed"
    preMet,      \* _precondition.IsMet()
    termMet,     \* _termination.IsMet()
    conn,        \* _connection: process identifier, 0 when nullptr
    lastId,      \* _lastId
    alive,       \* the processes of each plugin that still run
    lock, qlock, \* owner of each lock
    subsystems,  \* SystemInfo::_flags
    job,         \* state of the JobType<SubSystems::Job>
    announced,   \* the last IPlugin::INotification sent for each plugin
    frame,       \* frame[t][p]: thread t's activation record in plugin p
    stack,       \* the frames of each thread, innermost last
    todo,        \* todo[t][c]: services left in the walk started by frame c
    requests

service == <<state, reason, handler, control, announced>>
process == <<conn, lastId, alive>>
conditions == <<preMet, termMet>>
locks == <<lock, qlock>>
calls == <<frame, stack>>
vars == <<service, process, conditions, locks, calls, subsystems, job, todo, requests>>

-----------------------------------------------------------------------------
(* Activation records.                                                      *)

PC == {"idle", "activate", "load", "initialize", "activated", "initfailed",
       "reevaluate", "resume",
       "deactivate", "evaluate", "teardown", "finish"}

Blank == [pc |-> "idle", why |-> "REQUESTED", was |-> "DEACTIVATED", via |-> FALSE,
          outer |-> FALSE, subs |-> {}]

Top(t) == IF stack[t] = << >> THEN NoPlugin ELSE stack[t][Len(stack[t])]

Call(pc, why) == [Blank EXCEPT !.pc = pc, !.why = why]

Push(t, p, record) ==
    /\ frame' = [frame EXCEPT ![t][p] = record]
    /\ stack' = [stack EXCEPT ![t] = Append(@, p)]

Goto(t, p, pc) ==
    /\ frame' = [frame EXCEPT ![t][p].pc = pc]
    /\ UNCHANGED stack

Pop(t, p) ==
    /\ frame' = [frame EXCEPT ![t][p] = Blank]
    /\ stack' = [stack EXCEPT ![t] = SubSeq(@, 1, Len(@) - 1)]

\* Activate and Deactivate return to Resume, to the Evaluate that called
\* them (only Activate has code after it that matters), or to their caller.
Return(t, p) ==
    CASE frame[t][p].outer -> Goto(t, p, "resume")
      [] frame[t][p].via /\ ~frame[t][p].outer -> Goto(t, p, "reevaluate")
      [] OTHER -> Pop(t, p)

At(t, p, pc) == Top(t) = p /\ frame[t][p].pc = pc

\* Mutant of CanLock: Lock() is missing.
CanLockMissing(t, p) == TRUE

\* CriticalSection is a recursive mutex.
CanLock(t, p) == lock[p] \in {NoThread, t}
CanQueryLock(t, p) == qlock[p] \in {NoThread, t}

\* The owner once this frame has unlocked: Resume keeps its own outer lock.
Unlocked(t, p) == [lock EXCEPT ![p] = IF frame[t][p].outer THEN t ELSE NoThread]

-----------------------------------------------------------------------------
(* Condition and SystemInfo.                                                *)

\* STATE_AND: every masked flag is set.
PreCompliant(p, flags) == Preconditions[p] \subseteq flags

\* STATE_OR over NOT_x entries, so _events = 0: some masked flag is set.
TermCompliant(p, flags) == Terminations[p] = {} \/ Terminations[p] \cap flags # {}

\* JobType::Submit on the evaluation job.
Submitted == CASE job = "idle" -> "submitted"
               [] job = "executing" -> "resubmit"
               [] OTHER -> job

\* SystemInfo::Set: a plugin raises a subsystem it controls, from Initialize
\* or from any event it handles until Deinitialize is done; the platform
\* raises the others.  Lowering through Set is refused by the code.
Set(s) ==
    /\ s \notin subsystems
    /\ \/ s \in Platform
       \/ \E p \in Plugins : /\ s \in Controls[p]
                             /\ state[p] \in {"ACTIVATION", "ACTIVATED", "DEACTIVATION"}
    /\ subsystems' = subsystems \cup {s}
    /\ job' = Submitted
    /\ UNCHANGED <<service, process, conditions, locks, calls, todo, requests>>

-----------------------------------------------------------------------------
(* Activate.                                                                *)

\* The early returns, and Wakeup for a hibernated plugin, all under the lock.
ActivateEnter(t, p) ==
    /\ At(t, p, "activate")
    /\ CanLock(t, p)
    /\ IF state[p] \in {"DEACTIVATED", "PRECONDITION"}
       THEN /\ reason' = [reason EXCEPT ![p] = frame[t][p].why]
            /\ lock' = [lock EXCEPT ![p] = t]
            /\ Goto(t, p, "load")
            /\ UNCHANGED state
       ELSE /\ state' = [state EXCEPT ![p] = IF @ = "HIBERNATED" THEN "ACTIVATED" ELSE @]
            /\ Return(t, p)
            /\ UNCHANGED <<reason, lock>>
    /\ UNCHANGED <<handler, control, announced, process, conditions, qlock,
                   subsystems, job, todo, requests>>

\* AcquireInterfaces, unless a handler is already there: load the library or
\* start process id, then bring both conditions up to date with the flags.
AcquireInterfaces(p, id) ==
    /\ id \in IF p \in Hosted /\ ~handler[p]
              THEN (1..MaxProcess) \ (alive[p] \cup {lastId[p]}) ELSE {0}
    /\ handler' = [handler EXCEPT ![p] = TRUE]
    /\ preMet' = [preMet EXCEPT ![p] = IF handler[p] THEN @ ELSE PreCompliant(p, subsystems)]
    /\ termMet' = [termMet EXCEPT ![p] = IF handler[p] THEN @ ELSE TermCompliant(p, subsystems)]
    /\ conn' = [conn EXCEPT ![p] = IF id = 0 THEN @ ELSE id]

\* ReleaseInterfaces: drop the handler, remember the process it ran in.
ReleaseInterfaces(p) ==
    /\ handler' = [handler EXCEPT ![p] = FALSE]
    /\ lastId' = [lastId EXCEPT ![p] = IF conn[p] # 0 THEN conn[p] ELSE @]
    /\ conn' = [conn EXCEPT ![p] = 0]
    /\ UNCHANGED alive

\* Nothing could be instantiated.
ActivateLoadFailed(t, p) ==
    /\ At(t, p, "load")
    /\ CanQueryLock(t, p)
    /\ ~handler[p]
    /\ state' = [state EXCEPT ![p] = "DEACTIVATED"]
    /\ reason' = [reason EXCEPT ![p] = "INSTANTIATION_FAILED"]
    /\ lock' = Unlocked(t, p)
    /\ Return(t, p)
    /\ UNCHANGED <<handler, control, announced, process, conditions, qlock,
                   subsystems, job, todo, requests>>

\* The preconditions do not hold: wait for them.
ActivatePostponed(t, p, id) ==
    /\ At(t, p, "load")
    /\ CanQueryLock(t, p)
    /\ AcquireInterfaces(p, id)
    /\ ~preMet'[p]
    /\ state' = [state EXCEPT ![p] = "PRECONDITION"]
    /\ alive' = [alive EXCEPT ![p] = (@ \cup {id}) \ {0}]
    /\ lock' = Unlocked(t, p)
    /\ Return(t, p)
    /\ UNCHANGED <<reason, control, announced, lastId, qlock, subsystems, job, todo, requests>>

\* Kill what is left of the previous instance and call IPlugin::Initialize,
\* holding the query lock but not the service lock.
ActivateBegin(t, p, id) ==
    /\ At(t, p, "load")
    /\ CanQueryLock(t, p)
    /\ AcquireInterfaces(p, id)
    /\ preMet'[p]
    /\ state' = [state EXCEPT ![p] = "ACTIVATION"]
    /\ alive' = [alive EXCEPT ![p] = (@ \cup {id}) \ {0, lastId[p]}]
    /\ lastId' = [lastId EXCEPT ![p] = 0]
    /\ lock' = Unlocked(t, p)
    /\ qlock' = [qlock EXCEPT ![p] = t]
    /\ Goto(t, p, "initialize")
    /\ UNCHANGED <<reason, control, announced, subsystems, job, todo, requests>>

\* IPlugin::Initialize returns; an error is recorded before the lock is taken.
Initialized(t, p) ==
    /\ At(t, p, "initialize")
    /\ \/ Goto(t, p, "activated") /\ UNCHANGED reason
       \/ /\ Goto(t, p, "initfailed")
          /\ reason' = [reason EXCEPT ![p] = "INITIALIZATION_FAILED"]
    /\ UNCHANGED <<state, handler, control, announced, process, conditions, locks,
                   subsystems, job, todo, requests>>

ActivateDone(t, p) ==
    /\ At(t, p, "activated")
    /\ CanLock(t, p)
    /\ state' = [state EXCEPT ![p] = "ACTIVATED"]
    /\ qlock' = [qlock EXCEPT ![p] = NoThread]
    /\ announced' = [announced EXCEPT ![p] = "Activated"]
    /\ control' = [control EXCEPT ![p] = IF p \notin Suspendable THEN "none"
                                         ELSE IF p \in AutoResume THEN "resumed" ELSE "suspended"]
    /\ Return(t, p)
    /\ UNCHANGED <<reason, handler, process, conditions, lock, subsystems, job, todo, requests>>

\* Mutant of ActivateFailed: State(DEACTIVATED) is missing.
ActivateFailedStateKept(t, p) ==
    /\ At(t, p, "initfailed")
    /\ CanLock(t, p)
    /\ ReleaseInterfaces(p)
    /\ qlock' = [qlock EXCEPT ![p] = NoThread]
    /\ Return(t, p)
    /\ UNCHANGED <<state, reason, control, announced, conditions, lock, subsystems, job, todo, requests>>

ActivateFailed(t, p) ==
    /\ At(t, p, "initfailed")
    /\ CanLock(t, p)
    /\ ReleaseInterfaces(p)
    /\ state' = [state EXCEPT ![p] = "DEACTIVATED"]
    /\ qlock' = [qlock EXCEPT ![p] = NoThread]
    /\ Return(t, p)
    /\ UNCHANGED <<reason, control, announced, conditions, lock, subsystems, job, todo, requests>>

Activate(t, p) ==
    \/ ActivateEnter(t, p)
    \/ ActivateLoadFailed(t, p)
    \/ \E id \in 0..MaxProcess : ActivatePostponed(t, p, id) \/ ActivateBegin(t, p, id)
    \/ Initialized(t, p)
    \/ ActivateDone(t, p)
    \/ ActivateFailed(t, p)

-----------------------------------------------------------------------------
(* Deactivate.                                                              *)

Settled(why) == IF why = "CONDITIONS" THEN "PRECONDITION" ELSE "DEACTIVATED"

\* The early returns.
DeactivateRefused(t, p) ==
    /\ At(t, p, "deactivate")
    /\ CanLock(t, p)
    /\ \/ state[p] \in {"DEACTIVATION", "DEACTIVATED"}
       \/ state[p] = "ACTIVATION" /\ frame[t][p].why # "INITIALIZATION_FAILED"
    /\ Return(t, p)
    /\ UNCHANGED <<service, process, conditions, locks, subsystems, job, todo, requests>>

\* Mutant of DeactivateWaiting: it also takes a plugin that is initializing.
DeactivateWaitingTooMuch(t, p) ==
    /\ At(t, p, "deactivate")
    /\ CanLock(t, p)
    /\ state[p] \in {"PRECONDITION", "UNAVAILABLE", "ACTIVATION"}
    /\ reason' = [reason EXCEPT ![p] = frame[t][p].why]
    /\ state' = [state EXCEPT ![p] = Settled(frame[t][p].why)]
    /\ ReleaseInterfaces(p)
    /\ Return(t, p)
    /\ UNCHANGED <<control, announced, conditions, locks, subsystems, job, todo, requests>>

\* A plugin that is not running only gives up what it loaded.
DeactivateWaiting(t, p) ==
    /\ At(t, p, "deactivate")
    /\ CanLock(t, p)
    /\ state[p] \in {"PRECONDITION", "UNAVAILABLE"}
    /\ reason' = [reason EXCEPT ![p] = frame[t][p].why]
    /\ state' = [state EXCEPT ![p] = Settled(frame[t][p].why)]
    /\ ReleaseInterfaces(p)
    /\ Return(t, p)
    /\ UNCHANGED <<control, announced, conditions, locks, subsystems, job, todo, requests>>

\* Stop the subsystems the plugin controls (SystemInfo::Unset, which submits
\* no evaluation job), release the lock and start walking the services.
DeactivateBegin(t, p) ==
    /\ At(t, p, "deactivate")
    /\ CanLock(t, p)
    /\ \/ state[p] \in {"ACTIVATED", "HIBERNATED"}
       \/ state[p] = "ACTIVATION" /\ frame[t][p].why = "INITIALIZATION_FAILED"
    /\ reason' = [reason EXCEPT ![p] = frame[t][p].why]
    /\ state' = [state EXCEPT ![p] = "DEACTIVATION"]
    /\ subsystems' = subsystems \ Controls[p]
    /\ frame' = [frame EXCEPT ![t][p] =
                    [@ EXCEPT !.pc = "evaluate",
                              !.was = IF state[p] = "ACTIVATION" THEN "ACTIVATION" ELSE "ACTIVATED"]]
    /\ todo' = [todo EXCEPT ![t][p] = Count]
    /\ UNCHANGED <<handler, control, announced, process, conditions, locks, stack, job, requests>>

\* Mutant of DeactivateAnnounce: it asks State() instead of currentState,
\* which is DEACTIVATION by now.
DeactivateAnnounceStale(t, p) ==
    /\ At(t, p, "evaluate")
    /\ todo[t][p] = 0
    /\ control' = [control EXCEPT ![p] = "none"]
    /\ announced' = [announced EXCEPT ![p] = IF state[p] = "ACTIVATED" THEN "Deactivated" ELSE @]
    /\ Goto(t, p, "teardown")
    /\ UNCHANGED <<state, reason, handler, process, conditions, locks, subsystems, job, todo, requests>>

\* Mutant of DeactivateAnnounce: _stateControl is not released.
DeactivateAnnounceKept(t, p) ==
    /\ At(t, p, "evaluate")
    /\ todo[t][p] = 0
    /\ announced' = [announced EXCEPT ![p] = IF frame[t][p].was = "ACTIVATED" THEN "Deactivated" ELSE @]
    /\ Goto(t, p, "teardown")
    /\ UNCHANGED <<state, reason, handler, control, process, conditions, locks, subsystems, job, todo, requests>>

\* The walk is done: let go of IStateControl and tell the observers, all
\* without a lock.
DeactivateAnnounce(t, p) ==
    /\ At(t, p, "evaluate")
    /\ todo[t][p] = 0
    /\ control' = [control EXCEPT ![p] = "none"]
    /\ announced' = [announced EXCEPT ![p] = IF frame[t][p].was = "ACTIVATED" THEN "Deactivated" ELSE @]
    /\ Goto(t, p, "teardown")
    /\ UNCHANGED <<state, reason, handler, process, conditions, locks, subsystems, job, todo, requests>>

\* IPlugin::Deinitialize, under the query lock.
Deinitialize(t, p) ==
    /\ At(t, p, "teardown")
    /\ CanQueryLock(t, p)
    /\ qlock' = [qlock EXCEPT ![p] = t]
    /\ Goto(t, p, "finish")
    /\ UNCHANGED <<service, process, conditions, lock, subsystems, job, todo, requests>>

DeactivateDone(t, p) ==
    /\ At(t, p, "finish")
    /\ CanLock(t, p)
    /\ state' = [state EXCEPT ![p] = Settled(frame[t][p].why)]
    /\ ReleaseInterfaces(p)
    /\ qlock' = [qlock EXCEPT ![p] = NoThread]
    /\ Return(t, p)
    /\ UNCHANGED <<reason, control, announced, conditions, lock, subsystems, job, todo, requests>>

Deactivate(t, p) ==
    \/ DeactivateRefused(t, p)
    \/ DeactivateWaiting(t, p)
    \/ DeactivateBegin(t, p)
    \/ DeactivateAnnounce(t, p)
    \/ Deinitialize(t, p)
    \/ DeactivateDone(t, p)

-----------------------------------------------------------------------------
(* Evaluate: ServiceMap::Evaluate walks the services from the last to the   *)
(* first, Service::Evaluate acts on the edges of its two conditions.        *)

Walking(t) == todo[t][Top(t)] > 0 /\ (Top(t) # NoPlugin => frame[t][Top(t)].pc = "evaluate")
Next1(t) == Order[todo[t][Top(t)]]

PreEdge(q) == PreCompliant(q, subsystems) # preMet[q]
TermEdge(q) == TermCompliant(q, subsystems) # termMet[q]

EvaluateActivates(q) ==
    PreEdge(q) /\ state[q] = "PRECONDITION" /\ PreCompliant(q, subsystems)
EvaluateDeactivates(q) ==
    ~EvaluateActivates(q) /\ TermEdge(q) /\ state[q] = "ACTIVATED" /\ ~TermCompliant(q, subsystems)

\* Mutant of Evaluate: the walk does not get past a plugin it leaves alone
\* because its preconditions are not met.
EvaluateStuck(t) ==
    /\ Walking(t)
    /\ LET q == Next1(t) IN
       /\ CanLock(t, q)
       /\ preMet' = [preMet EXCEPT ![q] = PreCompliant(q, subsystems)]
       /\ termMet' = [termMet EXCEPT ![q] = IF EvaluateActivates(q) THEN @
                                            ELSE TermCompliant(q, subsystems)]
       /\ \/ /\ EvaluateActivates(q)
             /\ Push(t, q, [Call("activate", reason[q]) EXCEPT
                                !.via = TRUE, !.subs = subsystems, !.was = state[q]])
          \/ /\ EvaluateDeactivates(q)
             /\ Push(t, q, Call("deactivate", "CONDITIONS"))
          \/ /\ ~EvaluateActivates(q) /\ ~EvaluateDeactivates(q)
             /\ UNCHANGED calls
       /\ todo' = [todo EXCEPT ![t][Top(t)] = IF PreCompliant(q, subsystems) THEN @ - 1 ELSE @]
    /\ UNCHANGED <<service, process, locks, subsystems, job, requests>>

Evaluate(t) ==
    /\ Walking(t)
    /\ LET q == Next1(t) IN
       /\ CanLock(t, q)
       /\ preMet' = [preMet EXCEPT ![q] = PreCompliant(q, subsystems)]
       /\ termMet' = [termMet EXCEPT ![q] = IF EvaluateActivates(q) THEN @
                                            ELSE TermCompliant(q, subsystems)]
       /\ \/ /\ EvaluateActivates(q)
             /\ Push(t, q, [Call("activate", reason[q]) EXCEPT
                                !.via = TRUE, !.subs = subsystems, !.was = state[q]])
          \/ /\ EvaluateDeactivates(q)
             /\ Push(t, q, Call("deactivate", "CONDITIONS"))
          \/ /\ ~EvaluateActivates(q) /\ ~EvaluateDeactivates(q)
             /\ UNCHANGED calls
    /\ todo' = [todo EXCEPT ![t][Top(t)] = @ - 1]
    /\ UNCHANGED <<service, process, locks, subsystems, job, requests>>

\* Service::Evaluate after its Activate: the termination is brought up to
\* date with the flags read before the call.  The state read before the call
\* was PRECONDITION, so nothing is deactivated here.
Reevaluate(t, p) ==
    /\ At(t, p, "reevaluate")
    /\ CanLock(t, p)
    /\ termMet' = [termMet EXCEPT ![p] = TermCompliant(p, frame[t][p].subs)]
    /\ Pop(t, p)
    /\ UNCHANGED <<service, process, preMet, locks, subsystems, job, todo, requests>>

\* Mutant of JobStart: the walk starts one past the last service.
JobStartPastEnd ==
    /\ job = "submitted"
    /\ Top(Worker) = NoPlugin
    /\ job' = "executing"
    /\ todo' = [todo EXCEPT ![Worker][NoPlugin] = Count + 1]
    /\ UNCHANGED <<service, process, conditions, locks, calls, subsystems, requests>>

\* Mutant of JobDone: a resubmitted job never becomes idle again.
JobDoneStuck ==
    /\ job \in {"executing", "resubmit"}
    /\ Top(Worker) = NoPlugin
    /\ todo[Worker][NoPlugin] = 0
    /\ job' = IF job = "resubmit" THEN "resubmit" ELSE "idle"
    /\ UNCHANGED <<service, process, conditions, locks, calls, subsystems, todo, requests>>

\* The evaluation job on the worker pool: taken from the queue, and completed
\* (JobType::Dispatch and JobType::Resubmit).
JobStart ==
    /\ job = "submitted"
    /\ Top(Worker) = NoPlugin
    /\ job' = "executing"
    /\ todo' = [todo EXCEPT ![Worker][NoPlugin] = Count]
    /\ UNCHANGED <<service, process, conditions, locks, calls, subsystems, requests>>

JobDone ==
    /\ job \in {"executing", "resubmit"}
    /\ Top(Worker) = NoPlugin
    /\ todo[Worker][NoPlugin] = 0
    /\ job' = IF job = "resubmit" THEN "submitted" ELSE "idle"
    /\ UNCHANGED <<service, process, conditions, locks, calls, subsystems, todo, requests>>

-----------------------------------------------------------------------------
(* Client requests.                                                         *)

Issue(t, op) ==
    /\ op \in Operations
    /\ Top(t) = NoPlugin
    /\ requests < MaxRequests
    /\ requests' = requests + 1

RequestActivate(t, p, why) ==
    /\ Issue(t, "Activate")
    /\ Push(t, p, Call("activate", why))
    /\ UNCHANGED <<service, process, conditions, locks, subsystems, job, todo>>

RequestDeactivate(t, p, why) ==
    /\ Issue(t, "Deactivate")
    /\ Push(t, p, Call("deactivate", why))
    /\ UNCHANGED <<service, process, conditions, locks, subsystems, job, todo>>

\* Resume on a deactivated plugin activates it with its own lock held.
RequestResume(t, p, why) ==
    /\ Issue(t, "Resume")
    /\ CanLock(t, p)
    /\ \/ /\ state[p] = "DEACTIVATED"
          /\ lock' = [lock EXCEPT ![p] = t]
          /\ Push(t, p, [Call("activate", why) EXCEPT !.outer = TRUE])
          /\ UNCHANGED control
       \/ /\ state[p] = "ACTIVATED" /\ control[p] = "suspended"
          /\ control' = [control EXCEPT ![p] = "resumed"]
          /\ UNCHANGED <<lock, calls>>
    /\ UNCHANGED <<state, reason, handler, announced, process, conditions, qlock, subsystems, job, todo>>

Resumed(t, p) ==
    /\ At(t, p, "resume")
    /\ control' = [control EXCEPT ![p] = IF state[p] = "ACTIVATED" /\ @ = "suspended" THEN "resumed" ELSE @]
    /\ lock' = [lock EXCEPT ![p] = NoThread]
    /\ Pop(t, p)
    /\ UNCHANGED <<state, reason, handler, announced, process, conditions, qlock,
                   subsystems, job, todo, requests>>

\* Suspend (for a plugin whose start mode is not DEACTIVATED; for the others
\* it is Deactivate).
RequestSuspend(t, p) ==
    /\ Issue(t, "Suspend")
    /\ CanLock(t, p)
    /\ state[p] \in {"ACTIVATED", "PRECONDITION"} /\ control[p] = "resumed"
    /\ control' = [control EXCEPT ![p] = "suspended"]
    /\ UNCHANGED <<state, reason, handler, announced, process, conditions, locks, calls,
                   subsystems, job, todo>>

RequestHibernate(t, p) ==
    /\ Issue(t, "Hibernate")
    /\ CanLock(t, p)
    /\ state[p] = "ACTIVATED" /\ conn[p] # 0
    /\ state' = [state EXCEPT ![p] = "HIBERNATED"]
    /\ UNCHANGED <<reason, handler, control, announced, process, conditions, locks, calls,
                   subsystems, job, todo>>

RequestUnavailable(t, p, why) ==
    /\ Issue(t, "Unavailable")
    /\ CanLock(t, p)
    /\ state[p] = "DEACTIVATED"
    /\ state' = [state EXCEPT ![p] = "UNAVAILABLE"]
    /\ reason' = [reason EXCEPT ![p] = why]
    /\ announced' = [announced EXCEPT ![p] = "Unavailable"]
    /\ UNCHANGED <<handler, control, process, conditions, locks, calls, subsystems, job, todo>>

Request(t, p) ==
    \/ \E why \in Reasons : \/ RequestActivate(t, p, why)
                            \/ RequestDeactivate(t, p, why)
                            \/ RequestResume(t, p, why)
                            \/ RequestUnavailable(t, p, why)
    \/ RequestSuspend(t, p)
    \/ RequestHibernate(t, p)

\* A process that was told to terminate exits.
ProcessExit(p, id) ==
    /\ id \in alive[p] /\ id # conn[p]
    /\ alive' = [alive EXCEPT ![p] = @ \ {id}]
    /\ UNCHANGED <<service, conn, lastId, conditions, locks, calls, subsystems, job, todo, requests>>

-----------------------------------------------------------------------------
Init ==
    /\ state = [p \in Plugins |-> "DEACTIVATED"]
    /\ reason = [p \in Plugins |-> "SHUTDOWN"]
    /\ handler = [p \in Plugins |-> FALSE]
    /\ control = [p \in Plugins |-> "none"]
    /\ preMet = [p \in Plugins |-> Preconditions[p] = {}]
    /\ termMet = [p \in Plugins |-> Terminations[p] = {}]
    /\ conn = [p \in Plugins |-> 0]
    /\ lastId = [p \in Plugins |-> 0]
    /\ alive = [p \in Plugins |-> {}]
    /\ lock = [p \in Plugins |-> NoThread]
    /\ qlock = [p \in Plugins |-> NoThread]
    /\ subsystems = {}
    /\ job = "idle"
    /\ announced = [p \in Plugins |-> "none"]
    /\ frame = [t \in Threads |-> [p \in Plugins |-> Blank]]
    /\ stack = [t \in Threads |-> << >>]
    /\ todo = [t \in Threads |-> [c \in Plugins \cup {NoPlugin} |-> 0]]
    /\ requests = 0

Step(t) ==
    \/ \E p \in Plugins : \/ Activate(t, p)
                          \/ Deactivate(t, p)
                          \/ Reevaluate(t, p)
                          \/ Resumed(t, p)
    \/ Evaluate(t)

Quiescent ==
    /\ \A t \in Threads : Top(t) = NoPlugin /\ todo[t][NoPlugin] = 0
    /\ job = "idle"

\* The daemon rests once nothing is running and the clients are done.
Rest == Quiescent /\ UNCHANGED vars

Next ==
    \/ \E t \in Threads : Step(t)
    \/ \E t \in Clients, p \in Plugins : Request(t, p)
    \/ \E s \in SubSystems : Set(s)
    \/ JobStart \/ JobDone
    \/ \E p \in Plugins, id \in 1..MaxProcess : ProcessExit(p, id)
    \/ Rest

Spec == Init /\ [][Next]_vars

\* Threads that are not blocked keep running, and so does the worker pool.
\* Nothing obliges a client to issue a request or a plugin to raise a
\* subsystem.
FairSpec == /\ Spec
            /\ \A t \in Threads : WF_vars(Step(t))
            /\ WF_vars(JobStart) /\ WF_vars(JobDone)

-----------------------------------------------------------------------------
(* Properties.                                                              *)

FrameType == [pc : PC, why : Reason, was : State, via : BOOLEAN,
              outer : BOOLEAN, subs : SUBSET SubSystems]

\* Every variable keeps the type of the member of Service, SystemInfo or
\* JobType it stands for.
TypeOK ==
    /\ state \in [Plugins -> State]
    /\ reason \in [Plugins -> Reason]
    /\ handler \in [Plugins -> BOOLEAN]
    /\ control \in [Plugins -> {"none", "suspended", "resumed"}]
    /\ preMet \in [Plugins -> BOOLEAN]
    /\ termMet \in [Plugins -> BOOLEAN]
    /\ conn \in [Plugins -> 0..MaxProcess]
    /\ lastId \in [Plugins -> 0..MaxProcess]
    /\ alive \in [Plugins -> SUBSET (1..MaxProcess)]
    /\ lock \in [Plugins -> Threads \cup {NoThread}]
    /\ qlock \in [Plugins -> Threads \cup {NoThread}]
    /\ subsystems \in SUBSET SubSystems
    /\ job \in {"idle", "submitted", "executing", "resubmit"}
    /\ announced \in [Plugins -> {"none", "Activated", "Deactivated", "Unavailable"}]
    /\ frame \in [Threads -> [Plugins -> FrameType]]
    /\ stack \in [Threads -> Seq(Plugins)]
    /\ todo \in [Threads -> [Plugins \cup {NoPlugin} -> 0..Count]]
    /\ requests \in 0..MaxRequests

\* The part of Activate and of Deactivate in which the plugin's own code
\* runs without the service lock.
Raising == {"initialize", "activated", "initfailed"}
Lowering == {"evaluate", "teardown", "finish"}
InTransition(t, p) == frame[t][p].pc \in Raising \cup Lowering

\* Activate drops the service lock around Initialize, Deactivate drops it
\* around the walk and Deinitialize; still no two threads are ever inside
\* these calls for one plugin.
OneTransition ==
    \A p \in Plugins : \A t, u \in Threads :
        InTransition(t, p) /\ InTransition(u, p) => t = u

\* _handler is dereferenced without a check by Initialize, by the end of
\* Activate and by Deinitialize: it is there whenever they run, and whenever
\* the state lets requests through to the plugin.
HandlerAlive ==
    \A p \in Plugins :
        /\ state[p] \in {"ACTIVATED", "HIBERNATED"} => handler[p]
        /\ \A t \in Threads : InTransition(t, p) => handler[p]

\* The intermediate states are never left behind: a plugin is in ACTIVATION
\* or DEACTIVATION exactly while one thread works on it.
NeverAbandoned ==
    \A p \in Plugins :
        /\ state[p] = "ACTIVATION" <=> \E t \in Threads : frame[t][p].pc \in Raising
        /\ state[p] = "DEACTIVATION" <=> \E t \in Threads : frame[t][p].pc \in Lowering

\* Observers see Activated exactly while the plugin can be used: between the
\* end of Activate and the announcement by Deactivate, although the latter is
\* sent without a lock.
ObserversInStep ==
    \A p \in Plugins :
        announced[p] = "Activated" <=>
            \/ state[p] \in {"ACTIVATED", "HIBERNATED"}
            \/ \E t \in Threads : frame[t][p].pc = "evaluate"

\* IStateControl is held only for a plugin that runs, so Suspend and Resume
\* never use one of an instance that is gone.
StateControlAlive ==
    \A p \in Plugins : control[p] # "none" => handler[p] /\ announced[p] = "Activated"

\* Once every request and the evaluation job are done no lock is left taken.
LocksReleased == Quiescent => \A p \in Plugins : lock[p] = NoThread /\ qlock[p] = NoThread

\* Every request comes back: the locks a walk takes on other plugins, and the
\* two locks of one plugin, never leave a thread waiting for ever.
RequestsReturn == \A t \in Clients : Top(t) # NoPlugin ~> Top(t) = NoPlugin

\* The daemon settles once the clients stop: activations and deactivations do
\* not keep triggering each other through the subsystems, and no evaluation
\* is left behind in the worker pool.
Settles == <>[]Quiescent

-----------------------------------------------------------------------------
(* The contract this module implements.                                     *)

Phase(st) == CASE st = "ACTIVATION" -> "starting"
               [] st \in {"ACTIVATED", "HIBERNATED"} -> "up"
               [] st = "DEACTIVATION" -> "stopping"
               [] OTHER -> "down"

Contract == INSTANCE PluginContract WITH
    phase <- [p \in Plugins |-> Phase(state[p])],
    owner <- [p \in Plugins |-> {t \in Threads : InTransition(t, p)}],
    told <- [p \in Plugins |-> announced[p] = "Activated"]

\* Service::Activate and Service::Deactivate, interleaved in every way their
\* locks allow, keep the contract: a change has one owner, only the owner
\* completes it, and Activated and Deactivated reach the observers in turn.
ImplementsContract == Contract!Spec

-----------------------------------------------------------------------------
(* The inductive invariant behind these properties.                         *)

Busy(t, p) == frame[t][p].pc # "idle"

\* The stack of a thread lists the frames in use, each once, and every call
\* but the innermost is walking the services.
StackInv ==
    \A t \in Threads :
        /\ \A p \in Plugins : Busy(t, p) <=> \E i \in 1..Len(stack[t]) : stack[t][i] = p
        /\ \A i, j \in 1..Len(stack[t]) : stack[t][i] = stack[t][j] => i = j
        /\ \A i \in 1..(Len(stack[t]) - 1) : frame[t][stack[t][i]].pc = "evaluate"

\* Who owns a lock, as a function of the activation records.
LockInv ==
    \A t \in Threads, p \in Plugins :
        /\ frame[t][p].pc = "load" \/ frame[t][p].outer <=> lock[p] = t
        /\ frame[t][p].pc \in Raising \cup {"finish"} <=> qlock[p] = t
        /\ frame[t][p].outer => frame[t][p].pc \in Raising \cup {"activate", "load", "resume"}
        /\ frame[t][p].pc = "resume" => frame[t][p].outer

\* What a thread knows of the state of the plugin it works on.
FrameInv ==
    \A t \in Threads, p \in Plugins :
        /\ frame[t][p].pc = "load" => state[p] \in {"DEACTIVATED", "PRECONDITION"}
        /\ frame[t][p].pc = "deactivate" => frame[t][p].why # "INITIALIZATION_FAILED"
        /\ frame[t][p].pc = "evaluate" => frame[t][p].was = "ACTIVATED"

IInv == /\ TypeOK /\ StackInv /\ LockInv /\ FrameInv
        /\ OneTransition /\ NeverAbandoned /\ HandlerAlive
        /\ ObserversInStep /\ StateControlAlive

-----------------------------------------------------------------------------
(* What the documentation says and the code does not do.                    *)

\* docs/plugin/lifecycle.md: "As soon as the preconditions are met, then the
\* plugin will automatically move to the activated state": nobody waits in
\* PRECONDITION once the daemon rests with the preconditions fulfilled.
NobodyForgotten ==
    Quiescent => \A p \in Plugins : state[p] = "PRECONDITION" => ~(Preconditions[p] \subseteq subsystems)

\* docs/plugin/config.md: a termination "will cause the plugin to deactivate
\* if it's running": once the daemon rests no plugin is activated whose
\* termination, as Condition::Evaluate computes it, asks for the opposite.
TerminationEnforced ==
    Quiescent => \A p \in Plugins : state[p] = "ACTIVATED" => TermCompliant(p, subsystems)

\* docs/plugin/subsystems.md: "If either the Network or Internet subsystem are
\* deactivated whilst the plugin is active, the plugin will be deactivated".
TerminationEither ==
    Quiescent => \A p \in Plugins : state[p] = "ACTIVATED" => Terminations[p] \subseteq subsystems

\* The comments in Deactivate: plugins that depend on the subsystems of p are
\* deactivated before "finally" p is torn down.
DependantsFirst ==
    \A p, q \in Plugins : \A t \in Threads :
        /\ frame[t][p].pc = "finish"
        /\ Controls[p] \cap Terminations[q] # {}
        /\ Terminations[q] \cap subsystems = {}
        => state[q] # "ACTIVATED"

\* The comment in ReleaseInterfaces: a process of an earlier instance that is
\* still there "the next time we start this plugin" is killed, so only the
\* process of this instance is left when Initialize is called.
ProcessKilled ==
    \A p \in Plugins : \A t \in Threads :
        frame[t][p].pc = "initialize" => alive[p] \subseteq {conn[p]}
=============================================================================
