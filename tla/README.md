# Thunder: a TLA+ model of the plugin framework

This directory holds TLA+ specifications of the concurrent core of Thunder
(`Thunder/Source`), the TLC configurations that check them on small instances, and
proofs, checked by TLAPS, of what holds for every instance. Paths below are relative to
the repository; line numbers of every definition are in the `map` of `PROJECT.json`.

## 1. The system

Thunder is a daemon that hosts plugins. Clients reach plugins over JSON-RPC (HTTP and
web sockets) and COM-RPC (binary, over local sockets); plugins reach each other through
`IShell`, and may live in a process of their own. One pool of threads runs nearly all
work.

| component | state | operations | interacts with |
|---|---|---|---|
| Plugin life cycle, `Server::Service` (`Thunder/PluginServer.{h,cpp}`) | `IShell::state`, reason, handler and interfaces, connection and last process id, `_stateControl`, two locks | Activate, Deactivate, Resume, Suspend, Hibernate, Wakeup, Unavailable, Evaluate, Destroy | calls into the plugin without the service lock; lowers subsystems; announces to observers; recursion through the walk over all services |
| Subsystems and conditions, `SystemInfo`, `Condition` (`Thunder/SystemInfo.h`, `PluginServer.h`) | a flag per subsystem, two cached conditions per service | Set, Unset, Evaluate | a set flag submits the evaluation job; the job and every Deactivate walk the services and activate or deactivate them |
| Service administration, `ServiceMap`, `Notifiers` (`PluginServer.h`) | the map of services, notification sinks | Clone, Destroy, Register, Unregister, Notify, the walk | holds locks while it calls observers |
| Job queue, `CategoryQueueType` (`core/Queue.h`) | ready entries, a deque, count and mark per category, entries in process | Post, Insert, Extract, Completion, Remove | threads that submit, minions, threads that revoke |
| Worker pool, `ThreadPool`, `WorkerPool`, `JobType` (`core/ThreadPool.h`, `core/WorkerPool.h`) | one atomic state per job, the current request and the interested threads of each minion | Submit, Schedule, Reschedule, Revoke, Process, Completed, Resubmit | queue, timer, every user of jobs |
| Timer, `TimerType` (`core/Timer.h`) | entries in the order of their times, the one being fired | Schedule, Revoke, Process | submits to the pool from its own thread |
| COM-RPC invocation (`com/Administrator.h`) | none of its own | Procedure | submits a job per request, with high priority when the channel has an outgoing call |
| COM-RPC proxies (`com/Administrator.{h,cpp}`, `com/IUnknown.{h,cpp}`) | proxies per channel, a count in each; the references of a channel (`RecoverySet`) at the owner | AddRef, Release, Complete, RegisterInterface, DeleteChannel, Dangling | other processes, that may die; the minions that run their calls |
| Remote connections (`com/Communicator.{h,cpp}`) | the map of connections, processes being destructed | Create, Announce, Terminate, Destruct | processes; the life cycle |
| Request flow, `Channel`, `ThrottleQueueType` (`PluginServer.h`) | slots used and requests queued, per channel and per plugin | Push, Pop, Received, close | two throttles in a row, then the pool |
| IPC channels (`core/IPCConnector.h`, `core/Link.h`, `com/IUnknown.cpp`) | the outstanding call, its trigger, the message that is being read | Execute, Finalize, Abort, ReceivedMessage, ReportResponse, Shutdown | callers in any thread; the resource monitor; the process at the other end |
| Cyclic buffer, messaging (`core/CyclicBuffer.*`, `core/DoorBell.*`, `messaging/`) | head, tail and reservation in shared memory; the bell of the reader | Reserve, Write, Read, Flush, Ring, Wait | one writing process per buffer, one reader in another process |
| Controller (`Thunder/Controller.*`) | none of its own | a facade over all services | JSON-RPC and COM-RPC clients |
| Resource monitor, sockets (`core/ResourceMonitor.h`, `core/SocketPort.*`) | registered descriptors, buffers | poll, read, write, open, close | the thread that posts requests |
| Serialization (JSON, HTTP, web socket), cryptography, configuration, extensions | one stream or file | parse, format | none concurrent |
| `ThunderInterfaces`, `ThunderNanoServices`, `ThunderTools`, `Thunder/Tests`, review rules | | | definitions, plugins, generators, tests and texts around the framework |

What is hard in them, and what makes them right:

* **Life cycle.** Activate and Deactivate drop the service lock around the plugin's own
  code. Other threads may then activate, deactivate, suspend or evaluate the same
  plugin. Right means: one transition at a time; the handler is there whenever it is
  used; no intermediate state is left behind; observers hear Activated and Deactivated
  in turn; no lock is left taken or waited for in a circle.
* **Conditions.** A condition is cached and acted on when it *changes*. Right means: once
  the daemon rests, whoever can be active is, and whoever must not be active is not; the
  mutual activations come to rest.
* **Queue.** Low and medium priority jobs may only take so many slots. Right means: the
  slots are never oversubscribed, none is free while somebody waits for it, high
  priority callbacks get through, and threads that wait in Insert come back.
* **Jobs.** A job's state changes by chains of compare-and-exchange, in any thread,
  without a lock. Right means: never two runs at once, never twice in the queue or the
  timer, no submission lost, and nothing left of the job after Revoke.
* **Request flow.** Right means: every request is answered or dropped with its channel,
  and the two throttles hand on one request for each that ends.
* **Proxies.** References are counted in two processes, and moved by messages. Right means:
  no object is released while a remote reference exists, none stays when the channel is
  gone, and nobody works on a proxy that has been deleted.
* **Calls.** One call at a time is in progress on a channel, and its answer is known by its
  label only. Right means: a call that succeeds brings its own answer, and every call
  returns, whenever the channel closes.
* **Buffer.** Reader and writer share no lock. Right means: the reader gets whole messages
  in order, whatever is overwritten meanwhile and wherever the writer dies, and is woken.

## 2. The modules

| module | what it is |
|---|---|
| `PluginLifecycle` | services, conditions, subsystems, the walk and the evaluation job |
| `PluginContract` | what the life cycle promises; `PluginLifecycle` implements it |
| `PluginLifecycle_proofs` | its theorems, that it implements `PluginContract` among them |
| `CategoryQueue` | the queue: one operator per method under `_adminLock`; no behaviour of its own |
| `CategoryQueue_proofs`, `JobQueue_proofs` | what each of them keeps, and the theorems about `JobQueue` |
| `JobQueue` | the queue among the resource monitor, inserting threads, revokes, minions and callbacks |
| `WorkerPool` | jobs, minions, timer and Revoke, around the same queue |
| `WorkerPool_proofs` | its theorems, without revocations and with revocations in turns |
| `RequestFlow` | channels, the two throttles in a row, and the jobs of requests |
| `RequestAdmission` | what the throttles promise; `RequestFlow` implements it |
| `RequestFlow_proofs` | its theorems, that it implements `RequestAdmission` among them |
| `ProxyReferences` | the references to one object over one channel, at both ends |
| `SharedObject` | what they promise; `ProxyReferences` implements it |
| `ProxyReferences_proofs` | its theorems, that it implements `SharedObject` among them |
| `IpcCall` | one end of an IPC channel: calls, answers, time-outs, closing |
| `RemoteCall` | what a call promises; `IpcCall` implements it |
| `IpcCall_proofs` | its theorems, that it implements `RemoteCall` among them |
| `MessageBuffer` | the cyclic buffer, the entries of `MessageDataBuffer` and the doorbell |
| `LossyFifo` | what the buffer promises; `MessageBuffer` implements it |
| `MessageBuffer_proofs` | its theorems, that it implements `LossyFifo` among them |
| `MCPluginLifecycle`, `MCJobQueue`, `MCWorkerPool`, `MCRequestFlow`, `MCIpcCall` | the values of the constants for TLC |

The components meet where one is the environment of another. The minions of `RequestFlow`,
and the jobs of `ProxyReferences` and `IpcCall` that answer the other end, are jobs of
`WorkerPool` and take their turn in the `CategoryQueue`; a call and its callback in `JobQueue`
are a call of `IpcCall` and a request of the other end during it; a RELEASE in
`ProxyReferences` is a call of `IpcCall` that may fail. Each of the models states of the
others only what it uses: that a job is run, and that a call is answered or fails.

### PluginLifecycle

A thread may be inside several plugins at once, since the walk of `ServiceMap::Evaluate`
activates and deactivates other services from within `Deactivate`. `frame[t][p]` is the
activation record of thread `t` in service `p`, `stack[t]` the order of the calls and
`todo[t]` how far each walk is. A service appears at most once on a stack, because a
plugin in transition is passed over by the walk.

A step is the code between two points at which other threads can act: taking or dropping
`_adminLock` (`lock`) or `_queryInterfaceLock` (`qlock`), and calls into plugins.
`Activate` is `ActivateEnter` (early returns, wake-up), then `ActivateLoadFailed`,
`ActivatePostponed` or `ActivateBegin` (AcquireInterfaces and the precondition), the
plugin's `Initialized`, and `ActivateDone` or `ActivateFailed`. `Deactivate` is
`DeactivateRefused`, `DeactivateWaiting`, or `DeactivateBegin` (Unset of the subsystems),
`Evaluate` once per service, `DeactivateAnnounce`, `Deinitialize` and `DeactivateDone`.
`JobStart` and `JobDone` are the evaluation job on the pool thread, `Request...` the
operations of clients. `CriticalSection` is recursive, so `CanLock` admits the owner.

Abstractions. `Set` and the submission of the evaluation job are one step. The release of
the query lock is merged with the release of the service lock that follows it in the same
call. A plugin may set a subsystem it controls from Initialize until it is
deinitialized, a platform subsystem may come at any time, and none is lowered but by
Deactivate, as the code has it. Suspend is that of a plugin whose start mode is not
DEACTIVATED (for the others it is Deactivate). Hibernate is that of the default build. A
process that was told to end does so at some time. The bounds `MaxRequests` (requests of
clients in a behaviour) and `MaxProcess` (process identities of a plugin) are guards.

### PluginContract

What the rest of the daemon relies on: a plugin is down, starting, up or stopping; each
change has one owner from its first to its last step; observers are told Activated in the
step in which it is up, Deactivated before it is down, in turn and never for a start that
failed. The refinement maps the states, the threads inside a transition and the last
announcement of each plugin.

### CategoryQueue and JobQueue

The static priority queue of the default build (`__JOB_QUEUE_STATIC_PRIORITY__`). Every
method works under `_adminLock`, so it is one step. `used[c]` is `_submitted`, `Mark[c]`
the high-water mark; the mark of HIGH is the total, `8 * threadCount` in Thunder
(`PluginServer.h:167`). `Insert` is a step per round of its loop, and a thread whose
entry went to a deque waits in `AwaitQueuing` until it is no longer there. `ready` is
`_queue`, `running` is `_inProcess` indexed by the minion, `qstate` is `_state`, which
decides who waits.

`JobQueue` adds who calls. The resource monitor posts requests of COM-RPC channels; a
running job may make an outgoing call, during which its channel is in progress, so that
the callback is posted with high priority (`com/Administrator.h:529-536`); other threads
insert; some jobs are revoked. What a callee does is external: it calls back, and answers
once the callback is done.

### WorkerPool

A job's `_state` and no lock. `Chain` gives the attempts of each method, and one
compare-and-exchange is one step (`CompareExchange`), so that other threads act between two
attempts, and between the last attempt and what follows it: `Enqueue`, `Schedule`, or the
three places Revoke looks in (`RevokeTimer`, `RevokeQueue`, `RevokeUnit`, one unit of the
pool a step). `Follow` says what follows which attempt, also for the methods of
`IWorkerPool::JobType`, which call those of `ThreadPool::JobType` and the pool. Minions go
through `MinionExtract`, the attempt of `Dispatch`, the run of the implementation
(`RunEnd` ends it, `RunCall` is a call it makes), `MinionCompletion`, `Resubmit`,
`Release` and `Drain`. `Fire` is the timer thread taking an entry, with the submission a
later step of that thread.

Constants choose who does what: `UserOps` for threads outside the pool, `RunOps` for what
an implementation does with its own job, `OtherOps` with other jobs, and `Careful` the
jobs whose users take turns and revoke before they submit again. A destructor is only
called when nobody but the implementation of the job is in a call on it.

Abstractions. Time: a scheduled job fires at any moment, and the moment may already have
passed. All jobs have low priority, as `JobType` submits them. The pool runs; its start,
stop and join, and Disable and Flush of the queue, are left out. Assertions are those of
a release build: they do nothing, and the interesting ones are properties here.
The assignment of the proxy `_currentRequest` and the look into a deque in `AwaitQueuing`
are data races in the code; the models take them as atomic.

### RequestFlow and RequestAdmission

`phase[r]` says where the job of a request is: queued at its channel or its plugin, submitted
to the pool, or how far its `Dispatch` is. `Push` and `Pop` of `ThrottleQueueType` hold their
lock while they forward, so `Received`, `ServicePop` and `ChannelPop` are one step with all they
hand on (`PushService`). `Job::Completed` is several: the `Pop` of the plugin, the look-up of
the channel in the map (`FindChannel`), the `Pop` of the channel, and the release of the
reference to it, which may be the last (`ReleaseChannel`, `Destroyed`). `Close` and `Cleanup` are
the end of a channel, which may come between any two of them. A closed channel that is not
yet forgotten goes on handing out its queue, as in the code.

`RequestAdmission` has a line of requests per channel and plugin: they are admitted in the
order in which they came, and no more of a plugin or of a channel than its limit; the end
of a line is lost with its channel. A line is the set of those that wait and the pairs of who
stands in front of whom (`before`), so that two queues in a row can be mapped to it without
computing a sequence: `Ahead` is read off the two queues. Which job a minion takes is the business of
`CategoryQueue` and left open here.

### ProxyReferences and SharedObject

One object, one channel. At the owner: `count` is the object's own, `registered` that of the
channel's `RecoverySet`, `held` the references of jobs. At the user: `proxy` by number with
`_refCount`, `_mode`, `_remoteReferences`, whether it has its channel and whether its lock is
held, and `known`, the vector in `_channelProxyMap`. `Ask` to `Leave` are the user's threads: a
call that returns the object, `ProxyInstance`, `AddRef` (`Copy`) and the three parts of `Release`,
whose lock is held over the RELEASE call. `Receive` to `Clear` are the job that handles a
call at the owner; `Offer` to `Accept` a call of the owner with the object as a parameter,
with the two halves of `Complete` at its end (`CompleteRelease`, `CompleteMode`). `Close` may
come at any time and loses what is on its way; `Closed` is `DeleteChannel` at whichever side
runs the `Communicator` (`setup`), with `Dangling` for the proxies it reports.

A call of a release build is given up after `CommunicationTimeOut`, also by RELEASE
(`TimedOut`, `OfferTimedOut`). It stays under way: the other end handles it, and its answer comes
late. `Shutdown` then closes the channel if the caller's end is the `Communicator`'s, and nothing at a
client (`Shut`). An answer that finds no call in progress is dropped with the reference it
brings (`Unexpected`, counted in `lost`), or it is taken for that of the next call (`Mistaken`).
`call` therefore has a slot for each call under way, those that nobody waits for included.

Nothing in the model keeps the threads out of the windows the code leaves open. `slips` records
which of them a behaviour has been through: "gap", the last reference goes while `Complete` is
between its halves; "unregistered", a RELEASE finds fewer references registered than it gives
back; "unheard", the owner has given up the call whose response may tell it to count; "late", a
reference is registered for a channel that has been cleaned up. `Account` and `ImplementsSharing`
say what holds until one is hit (`Sound`), since the code counts wrong from then on, as
`ProxyGap`, `ProxyOvertaken`, `ProxyLate` and `ProxyLeak` show (section 3). How far that reaches is
a property of its own: for an object that is returned by calls, which is the common case,
`ReturnedSound` says that none of them is hit as long as the channel is open, whatever times out.
`NoneOnDeleted` holds whatever is hit, but for `Complete` in its gap.

`SharedObject`: an object lives as long as its process or, over an open channel, anybody in
the other process refers to it; until the trust in the counting is broken (`trusted`).

### IpcCall and RemoteCall

One end of a channel, that of a server or that of a client (`side`). `pc[c]` says where a call
is in `Execute` (`IPCChannelType`) and in `UnknownProxy::Invoke` around it; `outbound`, `callback`,
`abort` and `inbound` are the administration (`IPCFactory`), `queue` that of the serializer,
`reading` the message of which the deserializer has read the header. `Header` (with
`Element`) and `Payload` are two steps of the resource monitor, since a caller may time out
between them; `StateChange` (with `Abort`) is called on the way to closed, more than once. The
other end carries out calls, answers them, asks and closes.

An answer carries the label of its message, which is all by which `Element` finds the call.
Every call may time out, at either end (`Impatient`), and a late answer may be read at any
moment: before the next call, for which it is then taken, between `Finalize` and `Shutdown`, or
never, when `Shutdown` has closed the channel in time.

`RemoteCall`: a call that succeeds brings an answer to a call of its own kind that has been
carried out: its own, or one left behind by a call that was given up, or that itself got
another's. No answer is brought twice, and one that fails may or may not have been carried
out, now or later. That is less than one would like; what the release notes promise beyond it,
that a time-out closes the channel so that no later call suffers, fails in two ways (`CallLate`,
`CallGap`). Calls of a label that nobody gives up, all of a debug build among them, do bring
their own answers (`PatientAnswers` in the proofs).

### MessageBuffer and LossyFifo

A step is one load or store of shared memory, or a byte copied by the reader. The writer
goes through `Reserve`, `Assure`, `Forward` (from entry to entry), `MoveTail` (the exchange), the
two Writes and `Ring`; it stands for all threads of its process, which `_dataLock` serialises,
and may `Die` between any two steps. The reader goes through `LoadTail`, `LoadHead`, `PeekSize`,
`CheckTail`, `CopyByte` and `TakeEntry` (the exchange), and flushes when it does not know a
message (`FlushLoad`, `FlushStore`). A length that is read from bytes of which the writer has
overwritten some can be any number (`Peeked`). The tail has its index and the rounds it has
made, as the code packs them in one word; a spurious failure of the weak exchange repeats
the loop and is a stutter.

The doorbell is a datagram socket: `inflight` is a ring on its way, `event` the signal of the
reader, `bound` whether the reader has bound the socket yet.

`LossyFifo`: messages are taken in order, whole; the oldest may be dropped, or all. Messages
are numbered as they are written, so what is in the queue is a set of numbers (`Contents` in
`MessageBuffer`: the entries that begin between tail and head), and its first is the least.

## 3. What is checked

| run | instance | states | shows |
|---|---|---|---|
| `lifecycle` | plugins A and B, B depends on a subsystem A controls and is in a process of its own, a subsystem of the platform; two clients, 3 requests of any operation | 83 296 | `TypeOK`, `HandlerAlive`, `NeverAbandoned`, the inductive invariant `IInv` of the proofs, `StateControlAlive`, `ImplementsContract`; `RequestsReturn` and `Settles` under fairness |
| `queue` | 3 minions (2 for low priority), 6 jobs, 2 of them callbacks, an inserting thread, 2 jobs revoked | 21 224 | `TypeOK`, `ParallelBound`, `WorkConserving` |
| `queue_liveness` | 2 minions (1 for low priority), the same jobs, no revoke | 2 628 | `Served` (of what a thread waits for in Insert too), `CalledBack` |
| `pool_submit` | 2 users, 2 minions, the timer, 2 jobs that submit and reschedule themselves and submit each other | 298 978 | `TypeOK`, `OneRun`, `SubmittedOnce` |
| `pool_liveness` | 1 user, 2 minions (1 for low priority), 2 jobs that submit themselves, one also reschedules itself | 14 981 | `SubmitRuns` |
| `pool_revoke` | 2 users in turns, 2 minions, 2 jobs, 4 revokes and destructions | 2 058 870 | `JobAsserts` (`DestroyedIdle` and `RevokedInTime`), `RunsWhenAsked` |
| `pool_return` | 2 users that revoke as they like, a job that revokes itself, 1 minion | 18 736 | `RevokesReturn` |
| `flow` | 2 channels (2 slots and 1), 2 plugins (1 slot and no limit), 5 requests, 2 minions | 125 146 | `TypeOK`, `SlotAccount`, `NoIdleSlot`, `ImplementsAdmission`; `Answered` and `SlotsReturn` under fairness |
| `proxies` | 2 threads, 2 proxies, 2 calls under way, 2 calls or copies, the object returned or offered, either side the server | 182 187 | `TypeOK`, `Account`, `NoneOnDeleted`, `ReturnedSound`, `ImplementsSharing`; `Freed` under fairness |
| `call` | 2 calls of a method that may time out and an announcement, 1 request of the other end, either side | 525 928 | `TypeOK`, `OneOutbound`, `ImplementsCall`; `CallsReturn` under fairness |
| `buffer` | 7 bytes, entries of 3 and 4 bytes, 4 of them, the third of an unknown kind | 308 211 | `TypeOK`, `ImplementsFifo`, `NoNeedlessLoss`; `RingHeard` under fairness |

What these say together of the parts that are new: a slot of a plugin is never lost with a
channel that goes (`SlotAccount`, `SlotsReturn`), although the job of a request looks the
channel up between its two `Pop`s. The references that the owner counts for a peer are those
of the peer's proxies, of the messages on their way and of late answers that were dropped, at
every moment at which the channel is open, and are released exactly once when it is not
(`Account`), as long as none of the windows below has been hit. A trigger on the stack of a
caller is never used after the caller returned, also when the channel closes while the
answer is being read (`OneOutbound`). A reader that is overtaken by the writer does not
notice until it has copied, and still gives out nothing but whole messages
(`ImplementsFifo`): the mutant that compares the index of the tail without its rounds shows
how it could.

One more run ends in a violation, and is the finding in `PROJECT.json`:

* `forgotten` / `NobodyForgotten`. `Service::Evaluate` consumes the change of a
  precondition in every state. B is deactivated because A's subsystem goes down; while
  it is in DEACTIVATION the subsystem comes back and the evaluation job passes it over, but
  notes the change; B then lands in PRECONDITION with its preconditions met, and no later
  evaluation sees a change.

The same models show further disagreements of the code with its documentation, with a comment in
it, or with what its callers expect. Each has a configuration of its own, and the property
it names is violated there; they are not among the listed runs:

| configuration | property | what happens |
|---|---|---|
| `LifecycleTermination` | `TerminationEnforced` | the change of a termination is consumed in ACTIVATION; the plugin stays active without its subsystem (`PluginServer.h:1242`) |
| `LifecycleEither` | `TerminationEither` | with two terminations the plugin stays when one subsystem goes; `docs/plugin/subsystems.md:282` says "either" |
| `LifecycleDependants` | `DependantsFirst` | a dependant in ACTIVATION is passed over by the walk, and is active when the plugin it depends on is torn down (`PluginServer.cpp:590-592`) |
| `LifecycleProcess` | `ProcessKilled` | a postponed activation overwrites `_lastId`; an older process is never killed (`PluginServer.h:1658`) |
| `QueueLeak` | `Served` | `Remove` of a ready entry does not decrement `_submitted`: with one slot for its category, every later job of it waits for ever (`Queue.h:586`) |
| `PoolLost` | `SubmitRuns` | a Submit between the attempts `RESUBMIT -> SUBMITTED` and `SCHEDULE -> SUBMITTED` of `Resubmit` turns SCHEDULE into RESUBMIT; both fail, and only Revoke leads out of RESUBMIT (`ThreadPool.h:359`) |
| `PoolTimerGap` | `RevokeStops` | `TimerType::Revoke` is to wait for an entry that is being fired, but recognises it by an address that never matches; the job is submitted after its destructor has returned (`Timer.h:283`) |
| `PoolUnits` | `RevokeStops` | a minion keeps a job as its current request after it has run (`ThreadPool.h:503-511`); if the job, idle again, is submitted and run by another minion, `Revoke` stops at the first, which is done, and returns while the other runs (line 735). `docs/utils/threading/worker-pool.md:191` says that it stops the run or waits for it. Every daemon has several units |
| `PoolRevokers` | `RevokedInTime` | a second revoker is let in, and the first one's `Revoked` pulls the state from under it (`ThreadPool.h:368`, `ASSERT` at 337) |
| `CallLate` | `ClosedAfterTimeout` | `Shutdown` closes a `Communicator::Client`, which the channel of a client is not: after a time-out at a client the channel stays open (`IUnknown.cpp:188`), against `ReleaseNotes/ThunderReleaseNotes_R5.3.md:182` |
| `CallGap` | `OwnAnswer` | at a server the late answer may be read after `Execute` has unlocked the channel for the next call and before `Shutdown`, and is taken for that call's answer (`IUnknown.cpp:161`) |
| `ProxyGap` | `CompleteAlone` | a reference is dropped between the two halves of `Complete`, which then works on a deleted proxy (`IUnknown.h:388`), although a comment says that the lock of the Administrator prevents it (line 451) |
| `ProxyOvertaken` | `ReleasesRegistered` | a RELEASE is handled before the CACHED_ADDREF it is to undo, finds nothing registered (`IUnknown.cpp:93`), and the owner may destroy an object that is used |
| `ProxyLate` | `ReleasesRegistered` | a RELEASE that is handled after its channel has been cleaned up releases what is released already (`Administrator.h:473`) |
| `ProxyLeak` | `NothingOwed` | an object that is both offered and returned: a reference obtained while CACHED_ADDREF is pending is not among those the owner is told of in the end (`IUnknown.h:203`), against the comment in line 201 |
| `BufferFlush` | `ImplementsFifo` | `Flush` stores the head as the tail, without the rounds, while the writer goes on: messages that have been dropped are read again, or mixed (`CyclicBuffer.h:147`) |
| `BufferPartial` | `ImplementsFifo` | a message longer than the reader's buffer whose length field crosses the end moves the tail by what fits and not by its length (`CyclicBuffer.cpp:405`) |
| `BufferDrained` | `Drained` | a ring between the constructor's look at the buffer and the first bind of the socket is lost: what has been written stays unread until the next ring |

`pool_revoke` has users that take turns and jobs that do not submit themselves, since a second
revoker breaks `JobAsserts` (`PoolRevokers`); revokes that overlap, and a job that revokes itself,
are in `pool_return`, which asks only that they return. What does hold with several units is that no
run *begins* that nobody asked for (`RunsWhenAsked`).

Two larger instances without the liveness property pass as well and take longer than a run
should: `ProxyTakes` (three calls or copies, 1 433 905 states) and `CallAnnounced` (the
announcement may time out too, as `Acquire` may give it up; 1 077 438 states).

### Why the instances are large enough

*Life cycle.* Two plugins are what a dependency needs; the walk visits both, so frames nest
to the depth two, and with the pool thread three threads meet in one plugin. Three requests
suffice for a plugin to go up, down and up again under another. Every action fires in the
passing runs. *Queue.* More entries than slots in a category, so that deques fill; more
categories than one with waiting entries, so that `Completion` has to choose; more callers
that wait for a callback than low priority slots. *Pool.* Two minions are what a second
concurrent run needs, two jobs what a job that uses another needs. The narrow mark makes
entries wait, the wide mark (8 slots) is more than a behaviour can fill. `MaxRevokes` only
bounds revokes and destructions; submissions are not bounded. *Flow.* A channel with more
requests than slots that all meet in one plugin with one slot, so that both throttles queue
and a request waits in each of them in turn; a second channel that competes for the plugin,
and more jobs than minions. *Proxies.* Two threads are what one needs to
find a proxy that another is releasing, and two proxies let one be
released while another is in use; two takes let an object be obtained and copied, or obtained
again by another thread while it is released; the third, to offer it again while it is kept and
copied, is in `ProxyTakes`. Two calls under way are one that
was given up and the next, which its late answer may be taken for. *Calls.* Two calls of one label are what an answer needs to
be mistaken, a third of another label what `Element` has to tell apart. *Buffer.* Seven bytes
hold at most two entries, so that each further one overwrites; entries of two lengths start
everywhere, and cross the end both in the header and in the payload; four of them take the
tail round the buffer, which is when its index comes back.

`CHECK_DEADLOCK FALSE` stands where jobs may all be destroyed or the revokes used up, and where
all requests, calls, takes or entries of a behaviour have been made: the system then rests.

### Fairness

* Life cycle: weak fairness of the steps of each thread and of the evaluation job. A thread
  is only disabled while it waits for a lock. The plugin's Initialize and Deinitialize
  return. No client must request, no plugin must set a subsystem.
* Queue: weak fairness of minions, of threads in Insert, and of the callee that calls back.
  An inserting thread that finds the queue LIMITED has no promise, and none is checked.
* Pool: weak fairness of every thread. Strong fairness of `RunEnd`: an implementation makes
  finitely many calls before it returns. Strong fairness of `Fire`: the timer fires in the
  order of the times, so no entry is passed over for ever by entries for later times.
* Flow: weak fairness of the minions together. A behaviour has finitely many requests, so no
  job is passed over. Nothing has to be received, and no channel has to close.
* Proxies: weak fairness of threads and jobs, and of everybody letting go of what it refers
  to, without which nothing could be freed. Strong fairness of `SendRelease`: the channel is
  given to one call after the other, and the lock of `Execute` is not withheld for ever. No call
  has to time out. The channel need not close, but is cleaned up if it does.
* Calls: weak fairness of each caller, of the resource monitor, and of the other end, which
  answers what it has been asked. No call has to time out, and nobody has to close.
* Buffer: weak fairness of the reader and of the resource monitor of its process. The writer
  need not write, may stop anywhere, and so can overtake the reader again and again; the
  property only promises that the reader comes back.

## 4. What is proved

All theorems hold for every value of the constants that satisfies the named assumptions of
the module (any finite number of requests, any sets of plugins, threads and subsystems).
Those of the life cycle use `ThreadAssumption` (the pool thread is not a client, `NoThread` and
`NoPlugin` are nobody) and `ReasonAssumption` (nobody passes INITIALIZATION_FAILED to
Deactivate, which no caller in the framework or in its plugins does); the type invariant
uses the others as well.

* `PluginLifecycle_proofs`: `TypeCorrect`, and `Consistent`, the inductive invariant `IInv`. None
  of the safety properties is inductive alone. `OneTransition` fails inductively because a thread may
  be between reading the state and setting it; what excludes this is that such a thread
  owns a lock. `IInv` therefore adds `StackInv` (the stack and the frames agree, and every
  call but the innermost is walking), `LockInv` (who owns each lock, as a function of the
  frames) and `FrameInv` (what a frame knows of the state). It implies `OneTransitionHolds`,
  `HandlerAliveHolds`, `NeverAbandonedHolds`, `ObserversInStepHolds`, `StateControlAliveHolds`
  and `LocksReleasedHolds`. `OneTransition`, `ObserversInStep` and `LocksReleased` follow from
  `IInv`, which `lifecycle` checks, and are not checked once more. There is a step per action,
  and under it one per conjunct the action can disturb. `Refinement`: every step from a state of
  `IInv` is a step of `PluginContract` by the thread that takes it, or leaves phase, owner and announcement
  alone. `OneTransition` and `NeverAbandoned` are what makes the owner well defined.
* `CategoryQueue_proofs` and `JobQueue_proofs`: `TypeCorrect`, `BoundCorrect` and
  `ConservingCorrect`, from `MarkAssumption` (no mark is 0), `MinionAssumption` (finitely
  many minions, so that entries can be counted), `JobAssumption` and `RoleAssumption` (each
  job has a priority and at most one callback). The first module counts: an entry appended,
  extracted, removed or completed changes the number of entries of its category by at
  most one, and of no other (`AtAppend`, `AtTail`, `AtRemoveAt`, `HeldAdd`, `HeldRemove`).
  From that each method keeps `QueueInv`. The three parts of it need each other:
  `used` stays in Nat because the completed entry is counted in the bound, and
  `WorkConserving` survives a completion, which promotes one entry only, because before it
  no other category could have been promoted from. `JobQueue_proofs` adds that only a job
  with a callback waits for one. It has no bound on anything: any number of jobs, threads
  and slots.

* `RequestFlow_proofs`: `TypeCorrect`, `SlotAccountHolds`, `NoIdleSlotHolds` and `Refinement`, from
  `RouteAssumption` (every request has a channel and a plugin, and there are finitely many)
  and `SlotAssumption`. That a count equals the number of requests in certain phases is not
  inductive alone: `IInv` adds that each queue holds every request at most once, that it is
  one in the phase of that queue and of that channel or plugin (`Orderly`), and, since the count of
  a channel is not brought down once it is removed, only a bound for those. The steps that
  hand a slot on exchange one request for another (`Exchange`, `OrderlyHead`, `OrderlyTail`).
  `Refinement` is that of `RequestAdmission`. It needs the converse of `Orderly`: who is in the
  phase of a queue stands in that queue (`LinesInv`), so that nobody is lost between the two.
  `AppendLine` and `TailLine` say what appending and taking the first do to who stands in front
  of whom; then each action joins, admits, finishes or hangs up (`Joins`, `FrontAdmits`,
  `AnswerFinishes`, `DestroyedHangsUp`). The step to see is `ChannelPop` from one queue to the
  other: the request was behind those of its channel in the plugin's queue and in front of
  those in its own, and is so afterwards. `LinesOrderedHolds` says that the lines so mapped are
  strict total orders, and `NoOvertaking` that no step admits a request while one before it in
  its line waits.
* `IpcCall_proofs`: `TypeCorrect`, `OneOutboundHolds`, `Refinement` and `PatientAnswers`, from
  `CallAssumption` alone: any call may time out, at either end. `OneOutbound` becomes inductive with
  `Signals` (whose event may be set). `Refinement` is that of `RemoteCall`: while the link is open,
  what is under way anywhere (queue, other end, wire, the message being read) belongs to the call
  in progress or to one that was given up or got another's answer, each at one place (`UnderWay`,
  `Apart`); what a call has as its response was carried out, has its label, and is no other
  call's response (`Own`). `StepMaps` has one step per action. It holds for any number of calls and
  labels. `PatientAnswers` follows from the same invariant: a label of which no call is given up
  never has an answer without its call (`PatientOwn`).

* `WorkerPool_proofs`: `TypeCorrect`, whatever is called, and `OneRunHolds` and
  `SubmittedOnceHolds` as long as nobody revokes (`NoRevocations`: users and other
  implementations submit, an implementation submits and reschedules its own job). With two
  users that revoke, submit and reschedule one job at once TLC finds both broken. Assumptions:
  `ThreadAssumption`, `OperationAssumption` (who is who, and what is called) and those of the
  queue. Neither property is inductive: two minions could run a job that is in two places
  before. `OnePlace` says that a job on its way is in one place (the hands of a thread, the
  timer, `_queue` or a deque), and that its state is then SUBMITTED, while a job that runs is in
  none and is busy (EXECUTING, RESUBMIT or SCHEDULE). Each attempt of a chain moves a job from
  one place to one other (`OnePlaceTaken`, `OnePlaceDispatch`, `OnePlaceHanded`,
  `OnePlaceFetched`) or leaves it there, and `AdmitOnce`, `ExtractOnce` and `CompletionOnce` say
  it of the methods of the queue. It also shows why an implementation that reschedules itself
  never revokes: its state is busy, so the third and fourth attempt of Reschedule fail.
  With revocations, two more. `JobAssertsHolds` and `RunsWhenAskedHolds` assume `InTurns`: users
  submit, revoke and destroy, one at a time on each job, with a revoke before the next submission,
  and jobs do not use themselves; any number of users, jobs, minions and units. Then the state of
  a job tells how far its user is (`TurnsInv`): only a Submit leads out of IDLE, only a revoke
  sets REVOKING, each attempt that failed has excluded a state for good (`Tried`), and a job that
  nobody asks for is IDLE, so that the `Dispatch` of an entry that was left behind fails. These are the
  hypotheses of the run `pool_revoke`. They are sharp: `JobAsserts` fails with a second revoker
  (`PoolRevokers`) or with a job that submits itself. What cannot be had is `RevokeStops`, and with
  several units `OneRun` and `SubmittedOnce` fail under `InTurns` too, for the same reason as
  `RevokeStops`: a revoke that has returned too early lets the next submission meet the old run.
* `ProxyReferences_proofs`: `TypeCorrect`, `NoneOnDeletedHolds`, `AccountHolds`, `ReturnedSoundHolds`
  and `Refinement`, for any finite sets of threads and of calls under way, any number of proxies
  and takes, every role of the object and either side the server. They have no hypothesis but the
  assumptions of the module: every call may time out, every answer come late, the channel close
  and be cleaned up anywhere, and the properties themselves name the windows. The invariant comes
  in layers. What each proxy is (`ProxyInv`: absent, alive, being released, or finished after its
  channel), where a thread or a message can be (`PlaceInv`), that a call agrees with who waits
  for it (`CallInv`) and what is the case while an object is offered (`OfferInv`) hold whatever
  windows are hit, and give the first two theorems. The modes (`ModeInv`) and `Account` are
  kept until one is hit. `Account` is a sum over the proxies and one over the calls, which the
  model counts as the sizes of sets of pairs (`Total`), so that it changes with one proxy or
  one call by arithmetic on cardinalities (`PairsSplit`) and not by induction. A call that is
  given up moves what it brings from the thread to the message, a late answer to `lost` or to
  another call. `ReturnedSoundHolds` follows, since a RELEASE gives back what its message
  carries, which the account says is registered. `Refinement` maps who refers to the object to
  `SharedObject`; that the owner's count is zero exactly when nobody does is `Account` again.
* `MessageBuffer_proofs`: `TypeCorrect`, `NoNeedlessLossHolds` and `Refinement`, for a buffer of any
  size, entries of any lengths and any number of them, and a writer that may die between any two
  steps. `Assumed`: the reader knows every type of message and has room for the longest.
  `BufferFlush` and `BufferPartial` show what happens otherwise; run `buffer` checks the
  properties with one unknown message too. The inductive invariant says that the bytes between
  tail and head are whole entries in a row with increasing numbers (`Row`), that what the
  writer is writing lies in front of the head in free room (`WriterInv`), and that what the
  reader has found out of the first entry holds as long as the tail is the one it loaded
  (`ReaderInv`). The last needs that a tail never comes back: it only moves forward, by index or
  by round (`Before`), because a round is less than the number of the first entry. The rows are
  functions, and the lemmas about dropping the first entry and adding one say how they shift.
  `Refinement`: each exchange of the tail takes or drops the entries in front of it, each store of
  the head adds one, all else is a stutter. `ReadInOrder` follows: what the reader returned is a
  strictly increasing sequence of published entries.

Every invariant, action property and refinement of the passing runs is a theorem. Only
model-checked: liveness (`RequestsReturn`, `Settles`, `Served`, `CalledBack`,
`SubmitRuns`, `RevokesReturn`, `Answered`, `SlotsReturn`, `Freed`, `CallsReturn`, `RingHeard`), which
is out of the prover's reach, and the properties of the configurations that show disagreements.

## 5. What is not modelled

* *Life cycle*: clones and their destruction, the observers' own code and the notification
  lock, the build with hibernation support.
* *Pool*: its start and stop, the dynamic priority queue, WorkerPool::Reschedule of a plain
  `IDispatch`.
* *Request flow*: requests that `Received` answers without a plugin; subscriptions of web
  sockets; raw and text sockets, which pass no throttle; the deactivation of a plugin under a
  request. That two requests of one channel are answered in the order in which they end is
  left as the code has it, without a property.
* *Proxies*: composite objects, the check of the secure proxy stubs, delegated releases
  switched off, a channel's Id that is used again, and the deadlock of two processes that each
  hold the lock of a proxy over a RELEASE while all their minions wait for one. The process of the
  object has one call with the object as a parameter under way at a time.
* *IPC channels*: the asynchronous `Execute`, reopening a link, messages sent in part.
* *Remote connections*: the announcement, the map of connections and the escalating
  destruction of a process. Its end appears in `PluginLifecycle`, the time-out of `Acquire` in
  `IpcCall`.
* *Buffer and messaging*: `Lock` and `Alert`, a writer that restarts on the same file,
  `DataAvailable`, the control of message categories.
* Serialization, cryptography, configuration, extensions: sequential code on data, or system
  calls. The resource monitor and sockets appear as a thread and as the states of a link.
* Interfaces, plugins, generators, tests: not part of the running framework. They are most of
  the repository's lines.

## 6. What comes next

1. Clones: `Destroy`, `~Service` and the notification sinks with their lock, composed with
   the states of `PluginLifecycle`.
2. Remote connections: announcement, process and destruction, composed with `IpcCall`.
3. Proofs: those of the components above, once modelled; `TypeCorrect` of the buffer with
   messages of unknown type, which needs no order of the entries.
