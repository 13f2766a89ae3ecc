---------------------- MODULE PluginLifecycle_proofs ----------------------
(***************************************************************************)
(* Machine-checked proofs about PluginLifecycle, for every set of plugins, *)
(* every order of the ServiceMap, every number of client threads and every *)
(* choice of conditions: the types, the inductive invariant with the       *)
(* safety properties that follow from it, and that the life cycle          *)
(* implements PluginContract.                                              *)
(***************************************************************************)
EXTENDS PluginLifecycle, TLAPS

-----------------------------------------------------------------------------
(* The activation records and the call stacks keep their types.             *)

CallsType ==
    /\ frame \in [Threads -> [Plugins -> FrameType]]
    /\ stack \in [Threads -> Seq(Plugins)]

\* The innermost call of a thread is a plugin, or there is none.
LEMMA TopType ==
    ASSUME CallsType, NEW t \in Threads
    PROVE  /\ Top(t) \in Plugins \cup {NoPlugin}
           /\ Top(t) \in Plugins => stack[t] # << >>
           /\ Top(t) = NoPlugin => stack[t] = << >>
  <1>1. stack[t] \in Seq(Plugins)
    BY DEF CallsType
  <1>2. CASE stack[t] = << >>
    BY <1>2, ThreadAssumption DEF Top
  <1>3. CASE stack[t] # << >>
    <2>1. Len(stack[t]) \in 1..Len(stack[t])
      BY <1>1, <1>3
    <2>2. stack[t][Len(stack[t])] \in Plugins
      BY <1>1, <2>1
    <2>. QED BY <1>3, <2>2, ThreadAssumption DEF Top
  <1>. QED BY <1>2, <1>3

\* A call pushes a well-formed record.
LEMMA PushType ==
    ASSUME CallsType, NEW t \in Threads, NEW p \in Plugins, NEW r \in FrameType,
           Push(t, p, r)
    PROVE  CallsType'
  BY DEF CallsType, Push

\* A step inside a call only moves its program counter.
LEMMA GotoType ==
    ASSUME CallsType, NEW t \in Threads, NEW p \in Plugins, NEW pc \in PC,
           Goto(t, p, pc)
    PROVE  CallsType'
  <1>1. frame[t][p] \in FrameType
    BY DEF CallsType
  <1>2. [frame[t][p] EXCEPT !.pc = pc] \in FrameType
    BY <1>1 DEF FrameType
  <1>3. frame' = [frame EXCEPT ![t][p] = [frame[t][p] EXCEPT !.pc = pc]]
    BY DEF Goto
  <1>4. frame' \in [Threads -> [Plugins -> FrameType]]
    BY <1>2, <1>3 DEF CallsType
  <1>. QED BY <1>4 DEF CallsType, Goto

\* A return drops the innermost record.
LEMMA PopType ==
    ASSUME CallsType, NEW t \in Threads, NEW p \in Plugins, Top(t) = p, Pop(t, p)
    PROVE  CallsType'
  <1>1. Blank \in FrameType
    BY ReasonAssumption DEF Blank, FrameType, PC, State, Reason
  <1>2. frame' \in [Threads -> [Plugins -> FrameType]]
    BY <1>1 DEF CallsType, Pop
  <1>3. SubSeq(stack[t], 1, Len(stack[t]) - 1) \in Seq(Plugins)
    BY TopType DEF CallsType
  <1>4. stack' \in [Threads -> Seq(Plugins)]
    BY <1>3 DEF CallsType, Pop
  <1>. QED BY <1>2, <1>4 DEF CallsType

\* The three ways Activate and Deactivate return.
LEMMA ReturnType ==
    ASSUME CallsType, NEW t \in Threads, NEW p \in Plugins, Top(t) = p, Return(t, p)
    PROVE  CallsType'
  <1>1. "resume" \in PC /\ "reevaluate" \in PC
    BY DEF PC
  <1>2. CASE frame[t][p].outer
    BY <1>1, <1>2, GotoType DEF Return
  <1>3. CASE ~frame[t][p].outer /\ frame[t][p].via
    BY <1>1, <1>3, GotoType DEF Return
  <1>4. CASE ~frame[t][p].outer /\ ~frame[t][p].via
    BY <1>4, PopType DEF Return
  <1>. QED BY <1>2, <1>3, <1>4

-----------------------------------------------------------------------------
(* Type correctness.                                                        *)

\* The length of the walk.
LEMMA CountType == Count \in Nat /\ Count \in 0..Count
  BY OrderAssumption DEF Count

\* Initially every variable has its type.
LEMMA TypeInit == Init => TypeOK
  <1>1. Blank \in FrameType
    BY ReasonAssumption DEF Blank, FrameType, PC, State, Reason
  <1>. QED BY <1>1, CountType, BoundAssumption, ConditionAssumption
           DEF Init, TypeOK, State, Reason, Threads

\* What AcquireInterfaces leaves behind.
LEMMA AcquireType ==
    ASSUME TypeOK, NEW p \in Plugins, NEW id \in 0..MaxProcess, AcquireInterfaces(p, id)
    PROVE  /\ handler' \in [Plugins -> BOOLEAN]
           /\ preMet' \in [Plugins -> BOOLEAN]
           /\ termMet' \in [Plugins -> BOOLEAN]
           /\ conn' \in [Plugins -> 0..MaxProcess]
  BY DEF TypeOK, AcquireInterfaces, PreCompliant, TermCompliant

\* What ReleaseInterfaces leaves behind.
LEMMA ReleaseType ==
    ASSUME TypeOK, NEW p \in Plugins, ReleaseInterfaces(p)
    PROVE  /\ handler' \in [Plugins -> BOOLEAN]
           /\ lastId' \in [Plugins -> 0..MaxProcess]
           /\ conn' \in [Plugins -> 0..MaxProcess]
           /\ alive' \in [Plugins -> SUBSET (1..MaxProcess)]
  BY BoundAssumption DEF TypeOK, ReleaseInterfaces

\* Every step of Activate keeps the types.
LEMMA ActivateType ==
    ASSUME TypeOK, NEW t \in Threads, NEW p \in Plugins, Activate(t, p)
    PROVE  TypeOK'
  <1>1. CallsType
    BY DEF TypeOK, CallsType
  <1>2. frame[t][p] \in FrameType
    BY <1>1 DEF CallsType
  <1>3. {"load", "initialize", "activated", "initfailed"} \subseteq PC
    BY DEF PC
  <1>4. Unlocked(t, p) \in [Plugins -> Threads \cup {NoThread}]
    BY DEF TypeOK, Unlocked
  <1>5. CASE ActivateEnter(t, p)
    <2>1. CallsType'
      BY <1>1, <1>3, <1>5, GotoType, ReturnType DEF ActivateEnter, At
    <2>2. reason' \in [Plugins -> Reason]
      BY <1>2, <1>5 DEF TypeOK, ActivateEnter, FrameType
    <2>. QED BY <1>5, <2>1, <2>2
             DEF TypeOK, CallsType, ActivateEnter, State, process, conditions
  <1>6. CASE ActivateLoadFailed(t, p)
    <2>1. CallsType'
      BY <1>1, <1>6, ReturnType DEF ActivateLoadFailed, At
    <2>. QED BY <1>4, <1>6, <2>1
             DEF TypeOK, CallsType, ActivateLoadFailed, State, Reason, process, conditions
  <1>7. ASSUME NEW id \in 0..MaxProcess, ActivatePostponed(t, p, id)
        PROVE  TypeOK'
    <2>1. CallsType'
      BY <1>1, <1>7, ReturnType DEF ActivatePostponed, At
    <2>2. alive' \in [Plugins -> SUBSET (1..MaxProcess)]
      BY <1>7, BoundAssumption DEF TypeOK, ActivatePostponed
    <2>. QED BY <1>4, <1>7, <2>1, <2>2, AcquireType
             DEF TypeOK, CallsType, ActivatePostponed, State
  <1>8. ASSUME NEW id \in 0..MaxProcess, ActivateBegin(t, p, id)
        PROVE  TypeOK'
    <2>1. CallsType'
      BY <1>1, <1>3, <1>8, GotoType DEF ActivateBegin
    <2>2. alive' \in [Plugins -> SUBSET (1..MaxProcess)]
      BY <1>8, BoundAssumption DEF TypeOK, ActivateBegin
    <2>3. lastId' \in [Plugins -> 0..MaxProcess]
      BY <1>8, BoundAssumption DEF TypeOK, ActivateBegin
    <2>. QED BY <1>4, <1>8, <2>1, <2>2, <2>3, AcquireType
             DEF TypeOK, CallsType, ActivateBegin, State
  <1>9. CASE Initialized(t, p)
    <2>1. CallsType'
      BY <1>1, <1>3, <1>9, GotoType DEF Initialized
    <2>. QED BY <1>9, <2>1
             DEF TypeOK, CallsType, Initialized, Reason, process, conditions, locks
  <1>10. CASE ActivateDone(t, p)
    <2>1. CallsType'
      BY <1>1, <1>10, ReturnType DEF ActivateDone, At
    <2>. QED BY <1>10, <2>1
             DEF TypeOK, CallsType, ActivateDone, State, process, conditions
  <1>11. CASE ActivateFailed(t, p)
    <2>1. CallsType'
      BY <1>1, <1>11, ReturnType DEF ActivateFailed, At
    <2>. QED BY <1>11, <2>1, ReleaseType
             DEF TypeOK, CallsType, ActivateFailed, State, conditions
  <1>. QED BY <1>5, <1>6, <1>7, <1>8, <1>9, <1>10, <1>11 DEF Activate

\* Every step of Deactivate keeps the types.
LEMMA DeactivateType ==
    ASSUME TypeOK, NEW t \in Threads, NEW p \in Plugins, Deactivate(t, p)
    PROVE  TypeOK'
  <1>1. CallsType
    BY DEF TypeOK, CallsType
  <1>2. frame[t][p] \in FrameType
    BY <1>1 DEF CallsType
  <1>3. {"evaluate", "teardown", "finish"} \subseteq PC
    BY DEF PC
  <1>4. \A why : Settled(why) \in State
    BY DEF Settled, State
  <1>5. frame[t][p].why \in Reason
    BY <1>2 DEF FrameType
  <1>6. CASE DeactivateRefused(t, p)
    <2>1. CallsType'
      BY <1>1, <1>6, ReturnType DEF DeactivateRefused, At
    <2>. QED BY <1>6, <2>1
             DEF TypeOK, CallsType, DeactivateRefused, service, process, conditions, locks
  <1>7. CASE DeactivateWaiting(t, p)
    <2>1. CallsType'
      BY <1>1, <1>7, ReturnType DEF DeactivateWaiting, At
    <2>. QED BY <1>4, <1>5, <1>7, <2>1, ReleaseType
             DEF TypeOK, CallsType, DeactivateWaiting, conditions, locks
  <1>8. CASE DeactivateBegin(t, p)
    <2>1. [frame[t][p] EXCEPT !.pc = "evaluate",
                              !.was = IF state[p] = "ACTIVATION" THEN "ACTIVATION" ELSE "ACTIVATED"]
            \in FrameType
      BY <1>2, <1>3 DEF FrameType, State
    <2>2. CallsType'
      BY <1>1, <1>8, <2>1 DEF DeactivateBegin, CallsType
    <2>3. todo' \in [Threads -> [Plugins \cup {NoPlugin} -> 0..Count]]
      BY <1>8, CountType DEF TypeOK, DeactivateBegin
    <2>. QED BY <1>5, <1>8, <2>2, <2>3
             DEF TypeOK, CallsType, DeactivateBegin, State, process, conditions, locks
  <1>9. CASE DeactivateAnnounce(t, p)
    <2>1. CallsType'
      BY <1>1, <1>3, <1>9, GotoType DEF DeactivateAnnounce
    <2>. QED BY <1>9, <2>1
             DEF TypeOK, CallsType, DeactivateAnnounce, process, conditions, locks
  <1>10. CASE Deinitialize(t, p)
    <2>1. CallsType'
      BY <1>1, <1>3, <1>10, GotoType DEF Deinitialize
    <2>. QED BY <1>10, <2>1
             DEF TypeOK, CallsType, Deinitialize, service, process, conditions
  <1>11. CASE DeactivateDone(t, p)
    <2>1. CallsType'
      BY <1>1, <1>11, ReturnType DEF DeactivateDone, At
    <2>. QED BY <1>4, <1>11, <2>1, ReleaseType
             DEF TypeOK, CallsType, DeactivateDone, conditions
  <1>. QED BY <1>6, <1>7, <1>8, <1>9, <1>10, <1>11 DEF Deactivate

\* The service a walking thread is at is one of the ServiceMap.
LEMMA WalkType ==
    ASSUME TypeOK, NEW t \in Threads, Walking(t)
    PROVE  /\ Top(t) \in Plugins \cup {NoPlugin}
           /\ todo[t][Top(t)] \in 1..Count
           /\ Next1(t) \in Plugins
  <1>1. Top(t) \in Plugins \cup {NoPlugin}
    BY TopType DEF TypeOK, CallsType
  <1>2. todo[t][Top(t)] \in 1..Count
    BY <1>1, OrderAssumption DEF TypeOK, Walking, Count
  <1>3. Next1(t) \in Plugins
    BY <1>2, OrderAssumption DEF Next1, Count
  <1>. QED BY <1>1, <1>2, <1>3

\* A call made on behalf of a client or of the walk is well formed.
LEMMA CallType ==
    ASSUME NEW pc \in PC, NEW why \in Reason
    PROVE  /\ Call(pc, why) \in FrameType
           /\ Call(pc, why).pc = pc /\ Call(pc, why).why = why
           /\ Call(pc, why).was = "DEACTIVATED" /\ ~Call(pc, why).outer
           /\ [Call(pc, why) EXCEPT !.outer = TRUE] \in FrameType
           /\ [Call(pc, why) EXCEPT !.outer = TRUE].pc = pc
           /\ [Call(pc, why) EXCEPT !.outer = TRUE].outer
  BY DEF Call, Blank, FrameType, State

\* The walk and its calls keep the types.
LEMMA EvaluateType ==
    ASSUME TypeOK, NEW t \in Threads, Evaluate(t)
    PROVE  TypeOK'
  <1>1. CallsType
    BY DEF TypeOK, CallsType
  <1>2. Walking(t)
    BY DEF Evaluate
  <1> DEFINE q == Next1(t)
  <1>3. q \in Plugins /\ todo[t][Top(t)] \in 1..Count /\ Top(t) \in Plugins \cup {NoPlugin}
    BY <1>2, WalkType
  <1>4. todo' \in [Threads -> [Plugins \cup {NoPlugin} -> 0..Count]]
    <2>1. todo[t][Top(t)] - 1 \in 0..Count
      BY <1>3, CountType
    <2>. QED BY <1>3, <2>1 DEF TypeOK, Evaluate
  <1>5. preMet' \in [Plugins -> BOOLEAN] /\ termMet' \in [Plugins -> BOOLEAN]
    BY <1>3 DEF TypeOK, Evaluate, PreCompliant, TermCompliant
  <1>6. CallsType'
    <2>1. CASE Push(t, q, [Call("activate", reason[q]) EXCEPT
                                !.via = TRUE, !.subs = subsystems, !.was = state[q]])
      <3>1. reason[q] \in Reason /\ state[q] \in State /\ subsystems \in SUBSET SubSystems
        BY <1>3 DEF TypeOK
      <3>2. "activate" \in PC
        BY DEF PC
      <3>3. [Call("activate", reason[q]) EXCEPT !.via = TRUE, !.subs = subsystems, !.was = state[q]]
              \in FrameType
        BY <3>1, <3>2 DEF Call, Blank, FrameType
      <3>. QED BY <1>1, <1>3, <2>1, <3>3, PushType
    <2>2. CASE Push(t, q, Call("deactivate", "CONDITIONS"))
      <3>1. Call("deactivate", "CONDITIONS") \in FrameType
        BY DEF Call, Blank, FrameType, PC, Reason, State
      <3>. QED BY <1>1, <1>3, <2>2, <3>1, PushType
    <2>3. CASE UNCHANGED calls
      BY <1>1, <2>3 DEF calls, CallsType
    <2>. QED BY <2>1, <2>2, <2>3 DEF Evaluate
  <1>. QED BY <1>4, <1>5, <1>6 DEF TypeOK, CallsType, Evaluate, service, process, locks

\* A client's request keeps the types.
LEMMA RequestType ==
    ASSUME TypeOK, NEW t \in Clients, NEW p \in Plugins, Request(t, p)
    PROVE  TypeOK'
  <1>1. CallsType /\ t \in Threads
    BY DEF TypeOK, CallsType, Threads
  <1>2. "activate" \in PC /\ "deactivate" \in PC
    BY DEF PC
  <1>3. \A op : Issue(t, op) => requests' \in 0..MaxRequests
    BY BoundAssumption DEF TypeOK, Issue
  <1>4. ASSUME NEW why \in Reasons, RequestActivate(t, p, why)
        PROVE  TypeOK'
    <2>1. CallsType'
      BY <1>1, <1>2, <1>4, CallType, PushType DEF RequestActivate, Reason
    <2>. QED BY <1>3, <1>4, <2>1
             DEF TypeOK, CallsType, RequestActivate, service, process, conditions, locks
  <1>5. ASSUME NEW why \in Reasons, RequestDeactivate(t, p, why)
        PROVE  TypeOK'
    <2>1. CallsType'
      BY <1>1, <1>2, <1>5, CallType, PushType DEF RequestDeactivate, Reason
    <2>. QED BY <1>3, <1>5, <2>1
             DEF TypeOK, CallsType, RequestDeactivate, service, process, conditions, locks
  <1>6. ASSUME NEW why \in Reasons, RequestResume(t, p, why)
        PROVE  TypeOK'
    <2>1. CallsType'
      <3>1. CASE Push(t, p, [Call("activate", why) EXCEPT !.outer = TRUE])
        BY <1>1, <1>2, <3>1, CallType, PushType DEF Reason
      <3>2. CASE UNCHANGED calls
        BY <1>1, <3>2 DEF calls, CallsType
      <3>. QED BY <1>6, <3>1, <3>2 DEF RequestResume, calls
    <2>2. control' \in [Plugins -> {"none", "suspended", "resumed"}]
      BY <1>6 DEF TypeOK, RequestResume
    <2>3. lock' \in [Plugins -> Threads \cup {NoThread}]
      BY <1>1, <1>6 DEF TypeOK, RequestResume
    <2>. QED BY <1>3, <1>6, <2>1, <2>2, <2>3
             DEF TypeOK, CallsType, RequestResume, process, conditions
  <1>7. ASSUME NEW why \in Reasons, RequestUnavailable(t, p, why)
        PROVE  TypeOK'
    BY <1>3, <1>7 DEF TypeOK, RequestUnavailable, State, Reason, process, conditions, locks, calls
  <1>8. CASE RequestSuspend(t, p)
    BY <1>3, <1>8 DEF TypeOK, RequestSuspend, process, conditions, locks, calls
  <1>9. CASE RequestHibernate(t, p)
    BY <1>3, <1>9 DEF TypeOK, RequestHibernate, State, process, conditions, locks, calls
  <1>. QED BY <1>4, <1>5, <1>6, <1>7, <1>8, <1>9 DEF Request

\* Every step keeps the types.
LEMMA TypeNext == TypeOK /\ [Next]_vars => TypeOK'
  <1> SUFFICES ASSUME TypeOK, [Next]_vars PROVE TypeOK'
    OBVIOUS
  <1>1. CallsType /\ Worker \in Threads
    BY DEF TypeOK, CallsType, Threads
  <1>2. ASSUME NEW t \in Threads, NEW p \in Plugins, Reevaluate(t, p)
        PROVE  TypeOK'
    <2>1. CallsType'
      BY <1>1, <1>2, PopType DEF Reevaluate, At
    <2>. QED BY <1>2, <2>1
             DEF TypeOK, CallsType, Reevaluate, TermCompliant, service, process, locks
  <1>3. ASSUME NEW t \in Threads, NEW p \in Plugins, Resumed(t, p)
        PROVE  TypeOK'
    <2>1. CallsType'
      BY <1>1, <1>3, PopType DEF Resumed, At
    <2>. QED BY <1>3, <2>1 DEF TypeOK, CallsType, Resumed, process, conditions
  <1>4. ASSUME NEW s \in SubSystems, Set(s)
        PROVE  TypeOK'
    BY <1>4 DEF TypeOK, Set, Submitted, service, process, conditions, locks, calls
  <1>5. CASE JobStart
    <2>1. todo' \in [Threads -> [Plugins \cup {NoPlugin} -> 0..Count]]
      BY <1>1, <1>5, CountType DEF TypeOK, JobStart
    <2>. QED BY <1>5, <2>1
             DEF TypeOK, JobStart, service, process, conditions, locks, calls
  <1>6. CASE JobDone
    BY <1>6 DEF TypeOK, JobDone, service, process, conditions, locks, calls
  <1>7. ASSUME NEW p \in Plugins, NEW id \in 1..MaxProcess, ProcessExit(p, id)
        PROVE  TypeOK'
    BY <1>7 DEF TypeOK, ProcessExit, service, conditions, locks, calls
  <1>8. CASE UNCHANGED vars
    BY <1>8 DEF TypeOK, vars, service, process, conditions, locks, calls
  <1>. QED BY <1>2, <1>3, <1>4, <1>5, <1>6, <1>7, <1>8,
              ActivateType, DeactivateType, EvaluateType, RequestType
           DEF Next, Step, Rest

\* Every variable keeps the type of the member it stands for, for every set
\* of plugins and threads.
THEOREM TypeCorrect == Spec => []TypeOK
  BY TypeInit, TypeNext, PTL DEF Spec

-----------------------------------------------------------------------------
(* How a step changes the activation records.                               *)

\* Every record but that of thread t in plugin p is left alone.
OthersKept(t, p) ==
    \A u \in Threads, q \in Plugins : u # t \/ q # p => frame'[u][q] = frame[u][q]

\* Goto changes one program counter.
LEMMA GotoFrame ==
    ASSUME CallsType, NEW t \in Threads, NEW p \in Plugins, NEW pc \in PC, Goto(t, p, pc)
    PROVE  /\ OthersKept(t, p)
           /\ frame'[t][p].pc = pc
           /\ frame'[t][p].outer = frame[t][p].outer
           /\ frame'[t][p].why = frame[t][p].why
           /\ frame'[t][p].was = frame[t][p].was
  <1>1. frame[t][p] \in FrameType
    BY DEF CallsType
  <1> DEFINE r == [frame[t][p] EXCEPT !.pc = pc]
  <1>2. /\ r.pc = pc /\ r.outer = frame[t][p].outer
        /\ r.why = frame[t][p].why /\ r.was = frame[t][p].was
    BY <1>1 DEF FrameType
  <1>3. frame' = [frame EXCEPT ![t][p] = r]
    BY DEF Goto
  <1>4. frame'[t][p] = r /\ OthersKept(t, p)
    <2>. HIDE DEF r
    <2>. QED BY <1>3 DEF CallsType, OthersKept
  <1>. QED BY <1>2, <1>4

\* Push writes one record, Pop blanks one.
LEMMA PushPopFrame ==
    ASSUME CallsType, NEW t \in Threads, NEW p \in Plugins, NEW r
    PROVE  /\ Push(t, p, r) => OthersKept(t, p) /\ frame'[t][p] = r
           /\ Pop(t, p) => OthersKept(t, p) /\ frame'[t][p] = Blank
  BY DEF CallsType, OthersKept, Push, Pop

\* After a return the record is blank or at the code that follows the call;
\* Resume's outer lock is remembered.
LEMMA ReturnFrame ==
    ASSUME CallsType, NEW t \in Threads, NEW p \in Plugins, Return(t, p)
    PROVE  /\ OthersKept(t, p)
           /\ frame'[t][p].pc \in {"idle", "resume", "reevaluate"}
           /\ frame'[t][p].outer = frame[t][p].outer
           /\ frame[t][p].outer <=> frame'[t][p].pc = "resume"
           /\ Goto(t, p, "resume") \/ Goto(t, p, "reevaluate") \/ Pop(t, p)
  <1>1. "resume" \in PC /\ "reevaluate" \in PC
    BY DEF PC
  <1>2. Blank.pc = "idle" /\ Blank.outer = FALSE
    BY DEF Blank
  <1>3. frame[t][p].outer \in BOOLEAN
    BY DEF CallsType, FrameType
  <1>4. CASE frame[t][p].outer
    BY <1>1, <1>4, GotoFrame DEF Return
  <1>5. CASE ~frame[t][p].outer /\ frame[t][p].via
    BY <1>1, <1>5, GotoFrame DEF Return
  <1>6. CASE ~frame[t][p].outer /\ ~frame[t][p].via
    <2>1. Pop(t, p)
      BY <1>6 DEF Return
    <2>2. OthersKept(t, p) /\ frame'[t][p] = Blank
      BY <2>1, PushPopFrame
    <2>. QED BY <1>2, <1>3, <1>6, <2>1, <2>2
  <1>. QED BY <1>4, <1>5, <1>6

-----------------------------------------------------------------------------
(* The call stacks.                                                         *)

\* What the stack invariant says of the innermost call.
LEMMA StackTop ==
    ASSUME CallsType, StackInv, NEW t \in Threads, NEW q \in Plugins, Busy(t, q)
    PROVE  /\ Top(t) \in Plugins
           /\ q # Top(t) => frame[t][q].pc = "evaluate"
           /\ Busy(t, Top(t))
  <1>1. PICK i \in 1..Len(stack[t]) : stack[t][i] = q
    BY DEF StackInv
  <1>2. stack[t] \in Seq(Plugins) /\ stack[t] # << >>
    BY <1>1 DEF CallsType
  <1>3. Len(stack[t]) \in 1..Len(stack[t]) /\ Top(t) = stack[t][Len(stack[t])]
    BY <1>2 DEF Top
  <1>4. Top(t) \in Plugins /\ Busy(t, Top(t))
    BY <1>2, <1>3 DEF StackInv
  <1>5. ASSUME q # Top(t) PROVE frame[t][q].pc = "evaluate"
    <2>1. i \in 1..(Len(stack[t]) - 1)
      BY <1>1, <1>3, <1>5
    <2>. QED BY <1>1, <2>1 DEF StackInv
  <1>. QED BY <1>4, <1>5

\* A thread that is outside every call has no record in use.
LEMMA StackEmpty ==
    ASSUME CallsType, StackInv, NEW t \in Threads, Top(t) = NoPlugin, NEW q \in Plugins
    PROVE  ~Busy(t, q)
  BY StackTop, ThreadAssumption

\* A step inside the innermost call.
LEMMA StackStay ==
    ASSUME CallsType, StackInv, NEW t \in Threads, NEW p \in Plugins,
           Top(t) = p, Busy(t, p), frame'[t][p].pc # "idle",
           OthersKept(t, p), UNCHANGED stack
    PROVE  StackInv'
  <1>2. stack[t] \in Seq(Plugins) /\ Len(stack[t]) \in 1..Len(stack[t])
        /\ stack[t][Len(stack[t])] = p
    BY TopType DEF CallsType, Top
  <1>3. \A i \in 1..(Len(stack[t]) - 1) : stack[t][i] # p
    BY <1>2 DEF StackInv
  <1>4. \A u \in Threads, q \in Plugins : Busy(u, q)' <=> Busy(u, q)
    BY DEF OthersKept, Busy
  <1>5. \A u \in Threads : \A i \in 1..(Len(stack[u]) - 1) : frame'[u][stack[u][i]].pc = "evaluate"
    <2> SUFFICES ASSUME NEW u \in Threads, NEW i \in 1..(Len(stack[u]) - 1)
                 PROVE  frame'[u][stack[u][i]].pc = "evaluate"
      OBVIOUS
    <2>1. stack[u][i] \in Plugins
      BY DEF CallsType
    <2>2. u # t \/ stack[u][i] # p
      BY <1>3
    <2>. QED BY <2>1, <2>2 DEF OthersKept, StackInv
  <1>. QED BY <1>4, <1>5 DEF StackInv

\* In particular one that only moves the program counter.
LEMMA StackGoto ==
    ASSUME CallsType, StackInv, NEW t \in Threads, NEW p \in Plugins, NEW pc \in PC,
           Top(t) = p, Busy(t, p), pc # "idle", Goto(t, p, pc)
    PROVE  StackInv'
  <1>1. OthersKept(t, p) /\ frame'[t][p].pc = pc /\ stack' = stack
    BY GotoFrame DEF Goto
  <1>. QED BY <1>1, StackStay

\* The other threads' stacks are not touched.
LEMMA StackOther ==
    ASSUME CallsType, StackInv, NEW t \in Threads, NEW p \in Plugins, OthersKept(t, p),
           NEW u \in Threads, u # t, stack'[u] = stack[u]
    PROVE  /\ \A q \in Plugins : Busy(u, q)' <=> \E i \in 1..Len(stack'[u]) : stack'[u][i] = q
           /\ \A i, j \in 1..Len(stack'[u]) : stack'[u][i] = stack'[u][j] => i = j
           /\ \A i \in 1..(Len(stack'[u]) - 1) : frame'[u][stack'[u][i]].pc = "evaluate"
  <1>1. \A q \in Plugins : frame'[u][q] = frame[u][q]
    BY DEF OthersKept
  <1>2. \A i \in 1..(Len(stack[u]) - 1) : stack[u][i] \in Plugins
    BY DEF CallsType
  <1>3. \A q \in Plugins : Busy(u, q)' <=> Busy(u, q)
    BY <1>1 DEF Busy
  <1>4. \A i \in 1..(Len(stack[u]) - 1) : frame'[u][stack[u][i]].pc = "evaluate"
    BY <1>1, <1>2 DEF StackInv
  <1>. QED BY <1>3, <1>4 DEF StackInv

\* A call from a walk, or from no call at all.
LEMMA StackPush ==
    ASSUME CallsType, StackInv, NEW t \in Threads, NEW p \in Plugins, NEW r,
           ~Busy(t, p), r.pc # "idle",
           Top(t) = NoPlugin \/ frame[t][Top(t)].pc = "evaluate",
           Push(t, p, r)
    PROVE  StackInv'
  <1>1. OthersKept(t, p) /\ frame'[t][p] = r
    BY PushPopFrame
  <1> DEFINE s == stack[t]
  <1>2. s \in Seq(Plugins)
    BY DEF CallsType
  <1>3. stack'[t] = Append(s, p) /\ \A u \in Threads : u # t => stack'[u] = stack[u]
    BY DEF Push, CallsType
  <1>4. /\ Len(stack'[t]) = Len(s) + 1 /\ stack'[t][Len(s) + 1] = p
        /\ \A i \in 1..Len(s) : stack'[t][i] = s[i]
    BY <1>2, <1>3
  <1>5. Len(s) \in Nat /\ \A i \in 1..Len(s) : s[i] \in Plugins
    BY <1>2
  <1>6. \A i \in 1..Len(s) : s[i] # p
    BY DEF StackInv
  <1>7. \A i \in 1..Len(s) : frame[t][s[i]].pc = "evaluate"
    <2>1. CASE s = << >>
      BY <2>1
    <2>2. CASE s # << >>
      <3>1. Top(t) = s[Len(s)] /\ Len(s) \in 1..Len(s)
        BY <1>2, <2>2 DEF Top
      <3>2. frame[t][s[Len(s)]].pc = "evaluate"
        BY <1>5, <3>1, ThreadAssumption
      <3>. QED BY <1>5, <3>2 DEF StackInv
    <2>. QED BY <2>1, <2>2
  <1>. HIDE DEF s
  <1>8. ASSUME NEW u \in Threads
        PROVE  /\ \A q \in Plugins : Busy(u, q)' <=> \E i \in 1..Len(stack'[u]) : stack'[u][i] = q
               /\ \A i, j \in 1..Len(stack'[u]) : stack'[u][i] = stack'[u][j] => i = j
               /\ \A i \in 1..(Len(stack'[u]) - 1) : frame'[u][stack'[u][i]].pc = "evaluate"
    <2>1. CASE u # t
      BY <1>1, <1>3, <2>1, StackOther
    <2>2. CASE u = t
      <3>1. \A q \in Plugins : q # p => frame'[t][q] = frame[t][q]
        BY <1>1 DEF OthersKept
      <3>2. \A q \in Plugins : Busy(t, q) <=> \E i \in 1..Len(s) : s[i] = q
        BY DEF StackInv, s
      <3>3. \A i, j \in 1..Len(s) : s[i] = s[j] => i = j
        BY DEF StackInv, s
      <3>4. \A q \in Plugins : Busy(t, q)' <=> q = p \/ Busy(t, q)
        BY <1>1, <3>1 DEF Busy
      <3>5. \A q \in Plugins : Busy(t, q)' <=> \E i \in 1..(Len(s) + 1) : stack'[t][i] = q
        BY <1>4, <1>5, <3>2, <3>4
      <3>6. \A i, j \in 1..(Len(s) + 1) : stack'[t][i] = stack'[t][j] => i = j
        BY <1>4, <1>5, <1>6, <3>3
      <3>7. \A i \in 1..Len(s) : frame'[t][stack'[t][i]].pc = "evaluate"
        BY <1>4, <1>5, <1>6, <1>7, <3>1
      <3>. QED BY <1>4, <1>5, <2>2, <3>5, <3>6, <3>7
    <2>. QED BY <2>1, <2>2
  <1>. QED BY <1>8 DEF StackInv

\* A return from the innermost call.
LEMMA StackPop ==
    ASSUME CallsType, StackInv, NEW t \in Threads, NEW p \in Plugins,
           Top(t) = p, Pop(t, p)
    PROVE  StackInv'
  <1>1. OthersKept(t, p) /\ frame'[t][p] = Blank /\ Blank.pc = "idle"
    BY PushPopFrame DEF Blank
  <1> DEFINE s == stack[t]
             n == Len(stack[t]) - 1
  <1>2. s \in Seq(Plugins) /\ s # << >> /\ s[n + 1] = p
    BY TopType DEF CallsType, Top
  <1>3. n \in Nat /\ Len(s) = n + 1 /\ \A i \in 1..(n + 1) : s[i] \in Plugins
    BY <1>2
  <1>4. stack'[t] = SubSeq(s, 1, n) /\ \A u \in Threads : u # t => stack'[u] = stack[u]
    BY DEF Pop, CallsType
  <1>5. Len(stack'[t]) = n /\ \A i \in 1..n : stack'[t][i] = s[i]
    BY <1>2, <1>3, <1>4
  <1>6. /\ \A q \in Plugins : Busy(t, q) <=> \E i \in 1..(n + 1) : s[i] = q
        /\ \A i, j \in 1..(n + 1) : s[i] = s[j] => i = j
        /\ \A i \in 1..n : frame[t][s[i]].pc = "evaluate"
    BY <1>3 DEF StackInv
  <1>. HIDE DEF s, n
  <1>7. \A i \in 1..n : s[i] # p
    BY <1>2, <1>3, <1>6
  <1>8. ASSUME NEW u \in Threads
        PROVE  /\ \A q \in Plugins : Busy(u, q)' <=> \E i \in 1..Len(stack'[u]) : stack'[u][i] = q
               /\ \A i, j \in 1..Len(stack'[u]) : stack'[u][i] = stack'[u][j] => i = j
               /\ \A i \in 1..(Len(stack'[u]) - 1) : frame'[u][stack'[u][i]].pc = "evaluate"
    <2>1. CASE u # t
      BY <1>1, <1>4, <2>1, StackOther
    <2>2. CASE u = t
      <3>1. \A q \in Plugins : q # p => frame'[t][q] = frame[t][q]
        BY <1>1 DEF OthersKept
      <3>2. \A q \in Plugins : Busy(t, q)' <=> q # p /\ Busy(t, q)
        BY <1>1, <3>1 DEF Busy
      <3>3. \A q \in Plugins : Busy(t, q)' <=> \E i \in 1..n : stack'[t][i] = q
        BY <1>2, <1>3, <1>5, <1>6, <1>7, <3>2
      <3>4. \A i, j \in 1..n : stack'[t][i] = stack'[t][j] => i = j
        BY <1>3, <1>5, <1>6
      <3>5. \A i \in 1..n : frame'[t][stack'[t][i]].pc = "evaluate"
        BY <1>3, <1>5, <1>6, <1>7, <3>1
      <3>. QED BY <1>3, <1>5, <2>2, <3>3, <3>4, <3>5
    <2>. QED BY <2>1, <2>2
  <1>. QED BY <1>8 DEF StackInv

\* The ways Activate and Deactivate return.
LEMMA StackReturn ==
    ASSUME CallsType, StackInv, NEW t \in Threads, NEW p \in Plugins,
           Top(t) = p, Busy(t, p), Return(t, p)
    PROVE  StackInv'
  BY ReturnFrame, StackGoto, StackPop DEF PC

-----------------------------------------------------------------------------
(* The invariant, one plugin at a time.                                     *)

Members(p) == <<state[p], handler[p], control[p], announced[p], lock[p], qlock[p]>>

PluginInv(p) ==
    /\ \A t \in Threads :
        /\ frame[t][p].pc = "load" \/ frame[t][p].outer <=> lock[p] = t
        /\ frame[t][p].pc \in Raising \cup {"finish"} <=> qlock[p] = t
        /\ frame[t][p].outer => frame[t][p].pc \in Raising \cup {"activate", "load", "resume"}
        /\ frame[t][p].pc = "resume" => frame[t][p].outer
        /\ frame[t][p].pc = "load" => state[p] \in {"DEACTIVATED", "PRECONDITION"}
        /\ frame[t][p].pc = "deactivate" => frame[t][p].why # "INITIALIZATION_FAILED"
        /\ frame[t][p].pc = "evaluate" => frame[t][p].was = "ACTIVATED"
        /\ InTransition(t, p) => handler[p]
        /\ \A u \in Threads : InTransition(t, p) /\ InTransition(u, p) => t = u
    /\ state[p] = "ACTIVATION" <=> \E t \in Threads : frame[t][p].pc \in Raising
    /\ state[p] = "DEACTIVATION" <=> \E t \in Threads : frame[t][p].pc \in Lowering
    /\ state[p] \in {"ACTIVATED", "HIBERNATED"} => handler[p]
    /\ announced[p] = "Activated" <=>
            \/ state[p] \in {"ACTIVATED", "HIBERNATED"}
            \/ \E t \in Threads : frame[t][p].pc = "evaluate"
    /\ control[p] # "none" => handler[p] /\ announced[p] = "Activated"

\* The inductive invariant is the conjunction over the plugins.
LEMMA IInvByPlugin == IInv <=> TypeOK /\ StackInv /\ \A p \in Plugins : PluginInv(p)
  <1>1. ASSUME IInv PROVE TypeOK /\ StackInv /\ \A p \in Plugins : PluginInv(p)
    BY <1>1 DEF IInv, PluginInv, LockInv, FrameInv, OneTransition, NeverAbandoned,
                HandlerAlive, ObserversInStep, StateControlAlive
  <1>2. ASSUME TypeOK, StackInv, \A p \in Plugins : PluginInv(p) PROVE IInv
    <2>1. LockInv /\ FrameInv
      BY <1>2 DEF PluginInv, LockInv, FrameInv
    <2>2. OneTransition /\ NeverAbandoned /\ HandlerAlive
      BY <1>2 DEF PluginInv, OneTransition, NeverAbandoned, HandlerAlive
    <2>3. ObserversInStep /\ StateControlAlive
      BY <1>2 DEF PluginInv, ObserversInStep, StateControlAlive
    <2>. QED BY <1>2, <2>1, <2>2, <2>3 DEF IInv
  <1>. QED BY <1>1, <1>2

\* A step that leaves the records and the members of a plugin alone keeps
\* its invariant.
LEMMA PluginKept ==
    ASSUME NEW p \in Plugins, PluginInv(p), UNCHANGED Members(p),
           \A t \in Threads : frame'[t][p] = frame[t][p]
    PROVE  PluginInv(p)'
  BY DEF PluginInv, Members, InTransition

\* A step of one thread in one plugin keeps the invariant of the others.
LEMMA OthersInv ==
    ASSUME TypeOK, NEW t \in Threads, NEW p \in Plugins, OthersKept(t, p),
           \A q \in Plugins : PluginInv(q),
           \A q \in Plugins : q # p => UNCHANGED Members(q),
           PluginInv(p)'
    PROVE  \A q \in Plugins : PluginInv(q)'
  <1> SUFFICES ASSUME NEW q \in Plugins, q # p PROVE PluginInv(q)'
    OBVIOUS
  <1>. QED BY PluginKept DEF OthersKept

\* A step from one point of a call to another.
LEMMA GotoStep ==
    ASSUME TypeOK, StackInv, NEW t \in Threads, NEW p \in Plugins,
           NEW from, from # "idle", NEW to \in PC, to # "idle",
           At(t, p, from), Goto(t, p, to)
    PROVE  /\ StackInv'
           /\ OthersKept(t, p)
           /\ frame[t][p].pc = from
           /\ frame'[t][p].pc = to
           /\ frame'[t][p].outer = frame[t][p].outer
           /\ frame'[t][p].why = frame[t][p].why
           /\ frame'[t][p].was = frame[t][p].was
  <1>1. CallsType /\ Busy(t, p) /\ Top(t) = p /\ frame[t][p].pc = from
    BY DEF TypeOK, CallsType, At, Busy
  <1>. QED BY <1>1, GotoFrame, StackGoto

\* A return from a call.
LEMMA ReturnStep ==
    ASSUME TypeOK, StackInv, NEW t \in Threads, NEW p \in Plugins,
           NEW from, from # "idle", At(t, p, from), Return(t, p)
    PROVE  /\ StackInv'
           /\ OthersKept(t, p)
           /\ frame[t][p].pc = from
           /\ frame'[t][p].pc \in {"idle", "resume", "reevaluate"}
           /\ frame'[t][p].outer = frame[t][p].outer
           /\ frame[t][p].outer <=> frame'[t][p].pc = "resume"
  <1>1. CallsType /\ Busy(t, p) /\ Top(t) = p /\ frame[t][p].pc = from
    BY DEF TypeOK, CallsType, At, Busy
  <1>. QED BY <1>1, ReturnFrame, StackReturn

\* The end of Resume and of Evaluate's call: the record is dropped.
LEMMA PopStep ==
    ASSUME TypeOK, StackInv, NEW t \in Threads, NEW p \in Plugins,
           NEW from, from # "idle", At(t, p, from), Pop(t, p)
    PROVE  /\ StackInv'
           /\ OthersKept(t, p)
           /\ frame[t][p].pc = from
           /\ frame'[t][p].pc = "idle"
           /\ frame'[t][p].outer = FALSE
  <1>1. CallsType /\ Top(t) = p /\ frame[t][p].pc = from
    BY DEF TypeOK, CallsType, At
  <1>2. frame'[t][p] = Blank /\ OthersKept(t, p)
    BY <1>1, PushPopFrame
  <1>. QED BY <1>1, <1>2, StackPop DEF Blank

-----------------------------------------------------------------------------
(* The steps of Activate.                                                   *)

\* Activate's early returns and its entry.
LEMMA ActivateEnterInv ==
    ASSUME TypeOK, StackInv, \A q \in Plugins : PluginInv(q),
           NEW t \in Threads, NEW p \in Plugins, ActivateEnter(t, p)
    PROVE  StackInv' /\ \A q \in Plugins : PluginInv(q)'
  <1>1. At(t, p, "activate") /\ (lock[p] = NoThread \/ lock[p] = t)
    BY DEF ActivateEnter, CanLock
  <1>2. \A q \in Plugins : q # p => UNCHANGED Members(q)
    BY DEF TypeOK, ActivateEnter, Members
  <1>3. CASE state[p] \in {"DEACTIVATED", "PRECONDITION"}
    <2>1. Goto(t, p, "load")
      BY <1>3 DEF ActivateEnter
    <2>2. StackInv' /\ OthersKept(t, p) /\ frame[t][p].pc = "activate"
          /\ frame'[t][p].pc = "load" /\ frame'[t][p].outer = frame[t][p].outer
      BY <1>1, <2>1, GotoStep DEF PC
    <2>3. state'[p] = state[p] /\ handler'[p] = handler[p] /\ control'[p] = control[p]
          /\ announced'[p] = announced[p] /\ lock'[p] = t /\ qlock'[p] = qlock[p]
      BY <1>3 DEF TypeOK, ActivateEnter
    <2>4. PluginInv(p)'
      BY <1>1, <1>3, <2>2, <2>3, ThreadAssumption
      DEF PluginInv, OthersKept, InTransition, Raising, Lowering
    <2>. QED BY <1>2, <2>2, <2>4, OthersInv
  <1>4. CASE state[p] \notin {"DEACTIVATED", "PRECONDITION"}
    <2>1. Return(t, p)
      BY <1>4 DEF ActivateEnter
    <2>2. StackInv' /\ OthersKept(t, p) /\ frame[t][p].pc = "activate"
          /\ frame'[t][p].pc \in {"idle", "resume", "reevaluate"}
          /\ frame'[t][p].outer = frame[t][p].outer
          /\ (frame[t][p].outer <=> frame'[t][p].pc = "resume")
      BY <1>1, <2>1, ReturnStep
    <2>3. state'[p] = (IF state[p] = "HIBERNATED" THEN "ACTIVATED" ELSE state[p])
          /\ handler'[p] = handler[p] /\ control'[p] = control[p]
          /\ announced'[p] = announced[p] /\ lock'[p] = lock[p] /\ qlock'[p] = qlock[p]
      BY <1>4 DEF TypeOK, ActivateEnter
    <2>4. PluginInv(p)'
      BY <2>2, <2>3 DEF PluginInv, OthersKept, InTransition, Raising, Lowering
    <2>. QED BY <1>2, <2>2, <2>4, OthersInv
  <1>. QED BY <1>3, <1>4

\* Activate gives up because nothing could be instantiated.
LEMMA ActivateLoadFailedInv ==
    ASSUME TypeOK, StackInv, \A q \in Plugins : PluginInv(q),
           NEW t \in Threads, NEW p \in Plugins, ActivateLoadFailed(t, p)
    PROVE  StackInv' /\ \A q \in Plugins : PluginInv(q)'
  <1>1. StackInv' /\ OthersKept(t, p) /\ frame[t][p].pc = "load"
        /\ frame'[t][p].pc \in {"idle", "resume", "reevaluate"}
        /\ frame'[t][p].outer = frame[t][p].outer
        /\ (frame[t][p].outer <=> frame'[t][p].pc = "resume")
    BY ReturnStep DEF ActivateLoadFailed
  <1>2. \A q \in Plugins : q # p => UNCHANGED Members(q)
    BY DEF TypeOK, ActivateLoadFailed, Members, Unlocked, process, conditions
  <1>3. state'[p] = "DEACTIVATED" /\ handler'[p] = handler[p] /\ control'[p] = control[p]
        /\ announced'[p] = announced[p] /\ lock'[p] = (IF frame[t][p].outer THEN t ELSE NoThread) /\ qlock'[p] = qlock[p]
    BY DEF TypeOK, ActivateLoadFailed, Unlocked, process, conditions
  <1>4. ~handler[p]
    BY DEF TypeOK, ActivateLoadFailed
  <1>5. PluginInv(p)'
    BY <1>1, <1>3, <1>4, ThreadAssumption
    DEF PluginInv, OthersKept, InTransition, Raising, Lowering
  <1>. QED BY <1>1, <1>2, <1>5, OthersInv

\* Activate is postponed until the preconditions hold.
LEMMA ActivatePostponedInv ==
    ASSUME TypeOK, StackInv, \A q \in Plugins : PluginInv(q),
           NEW t \in Threads, NEW p \in Plugins, NEW id \in 0..MaxProcess, ActivatePostponed(t, p, id)
    PROVE  StackInv' /\ \A q \in Plugins : PluginInv(q)'
  <1>1. StackInv' /\ OthersKept(t, p) /\ frame[t][p].pc = "load"
        /\ frame'[t][p].pc \in {"idle", "resume", "reevaluate"}
        /\ frame'[t][p].outer = frame[t][p].outer
        /\ (frame[t][p].outer <=> frame'[t][p].pc = "resume")
    BY ReturnStep DEF ActivatePostponed
  <1>2. \A q \in Plugins : q # p => UNCHANGED Members(q)
    BY DEF TypeOK, ActivatePostponed, Members, AcquireInterfaces, Unlocked
  <1>3. state'[p] = "PRECONDITION" /\ handler'[p] = TRUE /\ control'[p] = control[p]
        /\ announced'[p] = announced[p] /\ lock'[p] = (IF frame[t][p].outer THEN t ELSE NoThread) /\ qlock'[p] = qlock[p]
    BY DEF TypeOK, ActivatePostponed, AcquireInterfaces, Unlocked
  <1>4. id \in 0..MaxProcess
    BY DEF TypeOK, ActivatePostponed
  <1>5. PluginInv(p)'
    BY <1>1, <1>3, <1>4, ThreadAssumption
    DEF PluginInv, OthersKept, InTransition, Raising, Lowering
  <1>. QED BY <1>1, <1>2, <1>5, OthersInv

\* Activate enters ACTIVATION and releases the service lock.
LEMMA ActivateBeginInv ==
    ASSUME TypeOK, StackInv, \A q \in Plugins : PluginInv(q),
           NEW t \in Threads, NEW p \in Plugins, NEW id \in 0..MaxProcess, ActivateBegin(t, p, id)
    PROVE  StackInv' /\ \A q \in Plugins : PluginInv(q)'
  <1>1. StackInv' /\ OthersKept(t, p) /\ frame[t][p].pc = "load"
        /\ frame'[t][p].pc = "initialize" /\ frame'[t][p].outer = frame[t][p].outer
        /\ frame'[t][p].why = frame[t][p].why /\ frame'[t][p].was = frame[t][p].was
    BY GotoStep DEF ActivateBegin, PC
  <1>2. \A q \in Plugins : q # p => UNCHANGED Members(q)
    BY DEF TypeOK, ActivateBegin, Members, AcquireInterfaces, Unlocked
  <1>3. state'[p] = "ACTIVATION" /\ handler'[p] = TRUE /\ control'[p] = control[p]
        /\ announced'[p] = announced[p] /\ lock'[p] = (IF frame[t][p].outer THEN t ELSE NoThread) /\ qlock'[p] = t
    BY DEF TypeOK, ActivateBegin, AcquireInterfaces, Unlocked
  <1>4. qlock[p] = NoThread \/ qlock[p] = t
    BY DEF TypeOK, ActivateBegin, CanQueryLock
  <1>5. PluginInv(p)'
    BY <1>1, <1>3, <1>4, ThreadAssumption
    DEF PluginInv, OthersKept, InTransition, Raising, Lowering
  <1>. QED BY <1>1, <1>2, <1>5, OthersInv

\* Initialize returns.
LEMMA InitializedInv ==
    ASSUME TypeOK, StackInv, \A q \in Plugins : PluginInv(q),
           NEW t \in Threads, NEW p \in Plugins, Initialized(t, p)
    PROVE  StackInv' /\ \A q \in Plugins : PluginInv(q)'
  <1>1. PICK to \in {"activated", "initfailed"} : Goto(t, p, to)
    BY DEF Initialized
  <1>2. StackInv' /\ OthersKept(t, p) /\ frame[t][p].pc = "initialize"
        /\ frame'[t][p].pc = to /\ frame'[t][p].outer = frame[t][p].outer
    BY <1>1, GotoStep DEF Initialized, PC
  <1>3. \A q \in Plugins : UNCHANGED Members(q)
    BY DEF Initialized, Members, locks
  <1>4. PluginInv(p)'
    BY <1>1, <1>2, <1>3
    DEF Members, PluginInv, OthersKept, InTransition, Raising, Lowering
  <1>. QED BY <1>2, <1>3, <1>4, OthersInv

\* Activate ends in ACTIVATED.
LEMMA ActivateDoneInv ==
    ASSUME TypeOK, StackInv, \A q \in Plugins : PluginInv(q),
           NEW t \in Threads, NEW p \in Plugins, ActivateDone(t, p)
    PROVE  StackInv' /\ \A q \in Plugins : PluginInv(q)'
  <1>1. StackInv' /\ OthersKept(t, p) /\ frame[t][p].pc = "activated"
        /\ frame'[t][p].pc \in {"idle", "resume", "reevaluate"}
        /\ frame'[t][p].outer = frame[t][p].outer
        /\ (frame[t][p].outer <=> frame'[t][p].pc = "resume")
    BY ReturnStep DEF ActivateDone
  <1>2. \A q \in Plugins : q # p => UNCHANGED Members(q)
    BY DEF TypeOK, ActivateDone, Members, process, conditions
  <1>3. state'[p] = "ACTIVATED" /\ handler'[p] = handler[p] /\ announced'[p] = "Activated"
        /\ lock'[p] = lock[p] /\ qlock'[p] = NoThread
    BY DEF TypeOK, ActivateDone, process, conditions
  <1>4. lock[p] = NoThread \/ lock[p] = t
    BY DEF TypeOK, ActivateDone, CanLock
  <1>5. PluginInv(p)'
    BY <1>1, <1>3, <1>4, ThreadAssumption
    DEF PluginInv, OthersKept, InTransition, Raising, Lowering
  <1>. QED BY <1>1, <1>2, <1>5, OthersInv

\* Activate ends in DEACTIVATED because Initialize failed.
LEMMA ActivateFailedInv ==
    ASSUME TypeOK, StackInv, \A q \in Plugins : PluginInv(q),
           NEW t \in Threads, NEW p \in Plugins, ActivateFailed(t, p)
    PROVE  StackInv' /\ \A q \in Plugins : PluginInv(q)'
  <1>1. StackInv' /\ OthersKept(t, p) /\ frame[t][p].pc = "initfailed"
        /\ frame'[t][p].pc \in {"idle", "resume", "reevaluate"}
        /\ frame'[t][p].outer = frame[t][p].outer
        /\ (frame[t][p].outer <=> frame'[t][p].pc = "resume")
    BY ReturnStep DEF ActivateFailed
  <1>2. \A q \in Plugins : q # p => UNCHANGED Members(q)
    BY DEF TypeOK, ActivateFailed, Members, ReleaseInterfaces, conditions
  <1>3. state'[p] = "DEACTIVATED" /\ handler'[p] = FALSE /\ control'[p] = control[p]
        /\ announced'[p] = announced[p] /\ lock'[p] = lock[p] /\ qlock'[p] = NoThread
    BY DEF TypeOK, ActivateFailed, ReleaseInterfaces, conditions
  <1>4. lock[p] = NoThread \/ lock[p] = t
    BY DEF TypeOK, ActivateFailed, CanLock
  <1>5. PluginInv(p)'
    BY <1>1, <1>3, <1>4, ThreadAssumption
    DEF PluginInv, OthersKept, InTransition, Raising, Lowering
  <1>. QED BY <1>1, <1>2, <1>5, OthersInv

-----------------------------------------------------------------------------
(* The steps of Deactivate.                                                 *)

\* Deactivate's early returns.
LEMMA DeactivateRefusedInv ==
    ASSUME TypeOK, StackInv, \A q \in Plugins : PluginInv(q),
           NEW t \in Threads, NEW p \in Plugins, DeactivateRefused(t, p)
    PROVE  StackInv' /\ \A q \in Plugins : PluginInv(q)'
  <1>1. StackInv' /\ OthersKept(t, p) /\ frame[t][p].pc = "deactivate"
        /\ frame'[t][p].pc \in {"idle", "resume", "reevaluate"}
        /\ frame'[t][p].outer = frame[t][p].outer
        /\ (frame[t][p].outer <=> frame'[t][p].pc = "resume")
    BY ReturnStep DEF DeactivateRefused
  <1>2. \A q \in Plugins : UNCHANGED Members(q)
    BY DEF DeactivateRefused, Members, service, locks
  <1>3. ~frame[t][p].outer
    BY <1>1 DEF PluginInv, Raising
  <1>4. PluginInv(p)'
    BY <1>1, <1>2, <1>3
    DEF Members, PluginInv, OthersKept, InTransition, Raising, Lowering
  <1>. QED BY <1>1, <1>2, <1>4, OthersInv

\* Deactivate of a plugin that is not running.
LEMMA DeactivateWaitingInv ==
    ASSUME TypeOK, StackInv, \A q \in Plugins : PluginInv(q),
           NEW t \in Threads, NEW p \in Plugins, DeactivateWaiting(t, p)
    PROVE  StackInv' /\ \A q \in Plugins : PluginInv(q)'
  <1>1. StackInv' /\ OthersKept(t, p) /\ frame[t][p].pc = "deactivate"
        /\ frame'[t][p].pc \in {"idle", "resume", "reevaluate"}
        /\ frame'[t][p].outer = frame[t][p].outer
        /\ (frame[t][p].outer <=> frame'[t][p].pc = "resume")
    BY ReturnStep DEF DeactivateWaiting
  <1>2. \A q \in Plugins : q # p => UNCHANGED Members(q)
    BY DEF TypeOK, DeactivateWaiting, Members, ReleaseInterfaces, conditions, locks
  <1>3. state'[p] \in {"PRECONDITION", "DEACTIVATED"} /\ handler'[p] = FALSE
        /\ control'[p] = control[p] /\ announced'[p] = announced[p]
        /\ lock'[p] = lock[p] /\ qlock'[p] = qlock[p]
    BY DEF TypeOK, DeactivateWaiting, Settled, ReleaseInterfaces, conditions, locks
  <1>4. state[p] \in {"PRECONDITION", "UNAVAILABLE"} /\ (lock[p] = NoThread \/ lock[p] = t)
    BY DEF DeactivateWaiting, CanLock
  <1>5. PluginInv(p)'
    BY <1>1, <1>3, <1>4, ThreadAssumption
    DEF PluginInv, OthersKept, InTransition, Raising, Lowering
  <1>. QED BY <1>1, <1>2, <1>5, OthersInv

\* Deactivate enters DEACTIVATION and starts to walk the services.
LEMMA DeactivateBeginInv ==
    ASSUME TypeOK, StackInv, \A q \in Plugins : PluginInv(q),
           NEW t \in Threads, NEW p \in Plugins, DeactivateBegin(t, p)
    PROVE  StackInv' /\ \A q \in Plugins : PluginInv(q)'
  <1>0. frame[t][p].pc = "deactivate" /\ Top(t) = p /\ frame[t][p] \in FrameType
        /\ CallsType /\ Busy(t, p)
    BY DEF TypeOK, CallsType, Busy, DeactivateBegin, At
  <1>1. state[p] \in {"ACTIVATED", "HIBERNATED"}
    BY <1>0 DEF PluginInv, DeactivateBegin
  <1>2. \A q \in Plugins : q # p => UNCHANGED Members(q)
    BY DEF TypeOK, DeactivateBegin, Members, process, conditions, locks
  <1>3. state'[p] = "DEACTIVATION" /\ handler'[p] = handler[p] /\ control'[p] = control[p]
        /\ announced'[p] = announced[p] /\ lock'[p] = lock[p] /\ qlock'[p] = qlock[p]
    BY DEF TypeOK, DeactivateBegin, process, conditions, locks
  <1> DEFINE r == [frame[t][p] EXCEPT !.pc = "evaluate", !.was = "ACTIVATED"]
  <1>4. frame' = [frame EXCEPT ![t][p] = r] /\ stack' = stack
    BY <1>0, <1>1 DEF DeactivateBegin, TypeOK
  <1>5. r.pc = "evaluate" /\ r.outer = frame[t][p].outer /\ r.was = "ACTIVATED"
    BY <1>0 DEF FrameType
  <1>6. OthersKept(t, p) /\ frame'[t][p] = r
    <2>. HIDE DEF r
    <2>. QED BY <1>0, <1>4 DEF CallsType, OthersKept
  <1>. HIDE DEF r
  <1>7. StackInv'
    BY <1>0, <1>4, <1>5, <1>6, StackStay
  <1>8. lock[p] = NoThread \/ lock[p] = t
    BY DEF DeactivateBegin, CanLock
  <1>9. PluginInv(p)'
    BY <1>0, <1>1, <1>3, <1>5, <1>6, <1>8, ThreadAssumption
    DEF PluginInv, OthersKept, InTransition, Raising, Lowering
  <1>. QED BY <1>2, <1>6, <1>7, <1>9, OthersInv

\* Deactivate tells the observers.
LEMMA DeactivateAnnounceInv ==
    ASSUME TypeOK, StackInv, \A q \in Plugins : PluginInv(q),
           NEW t \in Threads, NEW p \in Plugins, DeactivateAnnounce(t, p)
    PROVE  StackInv' /\ \A q \in Plugins : PluginInv(q)'
  <1>1. StackInv' /\ OthersKept(t, p) /\ frame[t][p].pc = "evaluate"
        /\ frame'[t][p].pc = "teardown" /\ frame'[t][p].outer = frame[t][p].outer
        /\ frame'[t][p].why = frame[t][p].why /\ frame'[t][p].was = frame[t][p].was
    BY GotoStep DEF DeactivateAnnounce, PC
  <1>2. \A q \in Plugins : q # p => UNCHANGED Members(q)
    BY DEF TypeOK, DeactivateAnnounce, Members, process, conditions, locks
  <1>3. frame[t][p].was = "ACTIVATED"
    BY <1>1 DEF PluginInv
  <1>4. state'[p] = state[p] /\ handler'[p] = handler[p] /\ control'[p] = "none"
        /\ announced'[p] = "Deactivated" /\ lock'[p] = lock[p] /\ qlock'[p] = qlock[p]
    BY <1>3 DEF TypeOK, DeactivateAnnounce, process, conditions, locks
  <1>5. PluginInv(p)'
    BY <1>1, <1>4 DEF PluginInv, OthersKept, InTransition, Raising, Lowering
  <1>. QED BY <1>1, <1>2, <1>5, OthersInv

\* Deactivate calls Deinitialize.
LEMMA DeinitializeInv ==
    ASSUME TypeOK, StackInv, \A q \in Plugins : PluginInv(q),
           NEW t \in Threads, NEW p \in Plugins, Deinitialize(t, p)
    PROVE  StackInv' /\ \A q \in Plugins : PluginInv(q)'
  <1>1. StackInv' /\ OthersKept(t, p) /\ frame[t][p].pc = "teardown"
        /\ frame'[t][p].pc = "finish" /\ frame'[t][p].outer = frame[t][p].outer
        /\ frame'[t][p].why = frame[t][p].why /\ frame'[t][p].was = frame[t][p].was
    BY GotoStep DEF Deinitialize, PC
  <1>2. \A q \in Plugins : q # p => UNCHANGED Members(q)
    BY DEF TypeOK, Deinitialize, Members, service
  <1>3. state'[p] = state[p] /\ handler'[p] = handler[p] /\ control'[p] = control[p]
        /\ announced'[p] = announced[p] /\ lock'[p] = lock[p] /\ qlock'[p] = t
    BY DEF TypeOK, Deinitialize, service
  <1>4. qlock[p] = NoThread \/ qlock[p] = t
    BY DEF Deinitialize, CanQueryLock
  <1>5. PluginInv(p)'
    BY <1>1, <1>3, <1>4, ThreadAssumption
    DEF PluginInv, OthersKept, InTransition, Raising, Lowering
  <1>. QED BY <1>1, <1>2, <1>5, OthersInv

\* Deactivate leaves DEACTIVATION.
LEMMA DeactivateDoneInv ==
    ASSUME TypeOK, StackInv, \A q \in Plugins : PluginInv(q),
           NEW t \in Threads, NEW p \in Plugins, DeactivateDone(t, p)
    PROVE  StackInv' /\ \A q \in Plugins : PluginInv(q)'
  <1>1. StackInv' /\ OthersKept(t, p) /\ frame[t][p].pc = "finish"
        /\ frame'[t][p].pc \in {"idle", "resume", "reevaluate"}
        /\ frame'[t][p].outer = frame[t][p].outer
        /\ (frame[t][p].outer <=> frame'[t][p].pc = "resume")
    BY ReturnStep DEF DeactivateDone
  <1>2. \A q \in Plugins : q # p => UNCHANGED Members(q)
    BY DEF TypeOK, DeactivateDone, Members, ReleaseInterfaces, conditions
  <1>3. state'[p] \in {"PRECONDITION", "DEACTIVATED"} /\ handler'[p] = FALSE
        /\ control'[p] = control[p] /\ announced'[p] = announced[p]
        /\ lock'[p] = lock[p] /\ qlock'[p] = NoThread
    BY DEF TypeOK, DeactivateDone, Settled, ReleaseInterfaces, conditions
  <1>4. lock[p] = NoThread \/ lock[p] = t
    BY DEF DeactivateDone, CanLock
  <1>5. PluginInv(p)'
    BY <1>1, <1>3, <1>4, ThreadAssumption
    DEF PluginInv, OthersKept, InTransition, Raising, Lowering
  <1>. QED BY <1>1, <1>2, <1>5, OthersInv

-----------------------------------------------------------------------------
(* The walk, the end of Resume, and the requests.                           *)

\* A call that is made while its thread has no record in that plugin.
LEMMA PushStep ==
    ASSUME TypeOK, StackInv, NEW t \in Threads, NEW p \in Plugins, NEW r,
           ~Busy(t, p), r.pc # "idle",
           Top(t) = NoPlugin \/ frame[t][Top(t)].pc = "evaluate",
           Push(t, p, r)
    PROVE  /\ StackInv'
           /\ OthersKept(t, p)
           /\ frame[t][p].pc = "idle"
           /\ frame'[t][p] = r
  <1>1. CallsType
    BY DEF TypeOK, CallsType
  <1>. QED BY <1>1, PushPopFrame, StackPush DEF Busy

\* A call without Resume's lock changes nothing but the record.
LEMMA PushInv ==
    ASSUME TypeOK, StackInv, \A q \in Plugins : PluginInv(q),
           NEW t \in Threads, NEW p \in Plugins, NEW r,
           r.pc \in {"activate", "deactivate"}, ~r.outer,
           r.why # "INITIALIZATION_FAILED" \/ r.pc = "activate",
           ~Busy(t, p), Top(t) = NoPlugin \/ frame[t][Top(t)].pc = "evaluate",
           Push(t, p, r), \A q \in Plugins : UNCHANGED Members(q)
    PROVE  StackInv' /\ \A q \in Plugins : PluginInv(q)'
  <1>1. StackInv' /\ OthersKept(t, p) /\ frame[t][p].pc = "idle" /\ frame'[t][p] = r
    BY PushStep
  <1>2. PluginInv(p)'
    BY <1>1 DEF Members, PluginInv, OthersKept, InTransition, Raising, Lowering
  <1>. QED BY <1>1, <1>2, OthersInv

\* Records and members that all stay as they are.
LEMMA StutterInv ==
    ASSUME StackInv, \A q \in Plugins : PluginInv(q),
           UNCHANGED calls, \A q \in Plugins : UNCHANGED Members(q)
    PROVE  StackInv' /\ \A q \in Plugins : PluginInv(q)'
  <1>1. StackInv'
    BY DEF StackInv, Busy, calls
  <1>2. \A q \in Plugins : PluginInv(q)'
    BY PluginKept DEF calls
  <1>. QED BY <1>1, <1>2

\* The walk calls Activate or Deactivate of a service only where its thread
\* is not inside that service already: the services it works on are all in
\* DEACTIVATION.
LEMMA EvaluateInv ==
    ASSUME TypeOK, StackInv, \A q \in Plugins : PluginInv(q),
           NEW t \in Threads, Evaluate(t)
    PROVE  StackInv' /\ \A q \in Plugins : PluginInv(q)'
  <1>1. CallsType
    BY DEF TypeOK, CallsType
  <1>2. Walking(t)
    BY DEF Evaluate
  <1>0. PICK q \in Plugins : q = Next1(t)
    BY <1>2, WalkType
  <1>3. \A p \in Plugins : UNCHANGED Members(p)
    BY DEF Evaluate, Members, service, locks
  <1>4. Top(t) = NoPlugin \/ frame[t][Top(t)].pc = "evaluate"
    BY <1>2 DEF Walking
  <1>5. ASSUME state[q] \in {"PRECONDITION", "ACTIVATED"} PROVE ~Busy(t, q)
    <2>1. CASE Top(t) = NoPlugin
      BY <1>1, <2>1, StackEmpty
    <2>2. CASE Top(t) # NoPlugin
      <3>1. ASSUME Busy(t, q) PROVE frame[t][q].pc = "evaluate"
        BY <1>1, <1>4, <2>2, <3>1, StackTop
      <3>. QED BY <1>5, <3>1 DEF PluginInv, Lowering
    <2>. QED BY <2>1, <2>2
  <1>6. ASSUME NEW r, r.pc \in {"activate", "deactivate"}, ~r.outer,
               r.why # "INITIALIZATION_FAILED" \/ r.pc = "activate",
               state[q] \in {"PRECONDITION", "ACTIVATED"}, Push(t, q, r)
        PROVE  StackInv' /\ \A p \in Plugins : PluginInv(p)'
    <2>1. ~Busy(t, q)
      BY <1>5, <1>6
    <2>. QED BY <1>3, <1>4, <1>6, <2>1, PushInv
  <1>7. CASE EvaluateActivates(q)
             /\ Push(t, q, [Call("activate", reason[q]) EXCEPT
                              !.via = TRUE, !.subs = subsystems, !.was = state[q]])
    <2>1. PICK r : r = [Call("activate", reason[q]) EXCEPT
                              !.via = TRUE, !.subs = subsystems, !.was = state[q]]
      OBVIOUS
    <2>2. r.pc = "activate" /\ ~r.outer
      BY <2>1 DEF Call, Blank
    <2>3. state[q] = "PRECONDITION" /\ Push(t, q, r)
      BY <1>7, <2>1 DEF EvaluateActivates
    <2>. QED BY <1>6, <2>2, <2>3
  <1>8. CASE EvaluateDeactivates(q) /\ Push(t, q, Call("deactivate", "CONDITIONS"))
    <2>1. PICK r : r = Call("deactivate", "CONDITIONS")
      OBVIOUS
    <2>2. r.pc = "deactivate" /\ ~r.outer /\ r.why = "CONDITIONS"
      BY <2>1 DEF Call, Blank
    <2>3. state[q] = "ACTIVATED" /\ Push(t, q, r)
      BY <1>8, <2>1 DEF EvaluateDeactivates
    <2>. QED BY <1>6, <2>2, <2>3
  <1>9. CASE UNCHANGED calls
    BY <1>3, <1>9, StutterInv
  <1>. QED BY <1>0, <1>7, <1>8, <1>9 DEF Evaluate

\* Evaluate, after its Activate.
LEMMA ReevaluateInv ==
    ASSUME TypeOK, StackInv, \A q \in Plugins : PluginInv(q),
           NEW t \in Threads, NEW p \in Plugins, Reevaluate(t, p)
    PROVE  StackInv' /\ \A q \in Plugins : PluginInv(q)'
  <1>1. StackInv' /\ OthersKept(t, p) /\ frame[t][p].pc = "reevaluate"
        /\ frame'[t][p].pc = "idle" /\ frame'[t][p].outer = FALSE
    BY PopStep DEF Reevaluate
  <1>2. \A q \in Plugins : UNCHANGED Members(q)
    BY DEF Reevaluate, Members, service, locks
  <1>3. PluginInv(p)'
    BY <1>1, <1>2
    DEF Members, PluginInv, OthersKept, InTransition, Raising, Lowering
  <1>. QED BY <1>1, <1>2, <1>3, OthersInv

\* Resume, after its Activate.
LEMMA ResumedInv ==
    ASSUME TypeOK, StackInv, \A q \in Plugins : PluginInv(q),
           NEW t \in Threads, NEW p \in Plugins, Resumed(t, p)
    PROVE  StackInv' /\ \A q \in Plugins : PluginInv(q)'
  <1>1. StackInv' /\ OthersKept(t, p) /\ frame[t][p].pc = "resume"
        /\ frame'[t][p].pc = "idle" /\ frame'[t][p].outer = FALSE
    BY PopStep DEF Resumed
  <1>2. \A q \in Plugins : q # p => UNCHANGED Members(q)
    BY DEF TypeOK, Resumed, Members, process, conditions
  <1>3. state'[p] = state[p] /\ handler'[p] = handler[p] /\ announced'[p] = announced[p]
        /\ lock'[p] = NoThread /\ qlock'[p] = qlock[p]
        /\ (control'[p] # "none" => control[p] # "none")
    BY DEF TypeOK, Resumed, process, conditions
  <1>4. lock[p] \in {NoThread, t}
    BY <1>1 DEF TypeOK, PluginInv
  <1>5. PluginInv(p)'
    BY <1>1, <1>3, <1>4, ThreadAssumption
    DEF PluginInv, OthersKept, InTransition, Raising, Lowering
  <1>. QED BY <1>1, <1>2, <1>5, OthersInv

\* A request of a client: it is outside every call when it makes one.
LEMMA RequestInv ==
    ASSUME TypeOK, StackInv, \A q \in Plugins : PluginInv(q),
           NEW t \in Clients, NEW p \in Plugins, Request(t, p)
    PROVE  StackInv' /\ \A q \in Plugins : PluginInv(q)'
  <1>1. t \in Threads /\ CallsType
    BY DEF TypeOK, CallsType, Threads
  <1>2. ASSUME Top(t) = NoPlugin PROVE ~Busy(t, p)
    BY <1>1, <1>2, StackEmpty
  <1>3. ASSUME NEW why \in Reasons, RequestActivate(t, p, why)
        PROVE  StackInv' /\ \A q \in Plugins : PluginInv(q)'
    <2>1. PICK r : r = Call("activate", why)
      OBVIOUS
    <2>2. r.pc = "activate" /\ ~r.outer /\ Push(t, p, r) /\ Top(t) = NoPlugin
      BY <1>3, <2>1 DEF RequestActivate, Issue, Call, Blank
    <2>3. \A q \in Plugins : UNCHANGED Members(q)
      BY <1>3 DEF RequestActivate, Members, service, locks
    <2>. QED BY <1>1, <1>2, <2>2, <2>3, PushInv
  <1>4. ASSUME NEW why \in Reasons, RequestDeactivate(t, p, why)
        PROVE  StackInv' /\ \A q \in Plugins : PluginInv(q)'
    <2>1. PICK r : r = Call("deactivate", why)
      OBVIOUS
    <2>2. /\ r.pc = "deactivate" /\ ~r.outer /\ r.why # "INITIALIZATION_FAILED"
          /\ Push(t, p, r) /\ Top(t) = NoPlugin
      BY <1>4, <2>1, ReasonAssumption DEF RequestDeactivate, Issue, Call, Blank
    <2>3. \A q \in Plugins : UNCHANGED Members(q)
      BY <1>4 DEF RequestDeactivate, Members, service, locks
    <2>. QED BY <1>1, <1>2, <2>2, <2>3, PushInv
  <1>5. ASSUME NEW why \in Reasons, RequestResume(t, p, why),
               Push(t, p, [Call("activate", why) EXCEPT !.outer = TRUE])
        PROVE  StackInv' /\ \A q \in Plugins : PluginInv(q)'
    <2>1. PICK r : r = [Call("activate", why) EXCEPT !.outer = TRUE]
      OBVIOUS
    <2>2. r.pc = "activate" /\ r.outer
      BY <2>1 DEF Call, Blank
    <2>3. Push(t, p, r) /\ Top(t) = NoPlugin /\ (lock[p] = NoThread \/ lock[p] = t)
      BY <1>5, <2>1 DEF RequestResume, Issue, CanLock
    <2>4. StackInv' /\ OthersKept(t, p) /\ frame[t][p].pc = "idle" /\ frame'[t][p] = r
      BY <1>1, <1>2, <2>2, <2>3, PushStep
    <2>5. stack'[t] # stack[t]
      <3>1. stack[t] \in Seq(Plugins) /\ stack'[t] = Append(stack[t], p)
        BY <1>1, <2>3 DEF CallsType, Push
      <3>. QED BY <3>1
    <2>6. lock' = [lock EXCEPT ![p] = t] /\ control' = control
      BY <1>5, <2>5 DEF RequestResume, calls
    <2>7. \A q \in Plugins : q # p => UNCHANGED Members(q)
      BY <1>5, <2>6 DEF TypeOK, RequestResume, Members
    <2>8. state'[p] = state[p] /\ handler'[p] = handler[p] /\ control'[p] = control[p]
          /\ announced'[p] = announced[p] /\ lock'[p] = t /\ qlock'[p] = qlock[p]
      BY <1>5, <2>6 DEF TypeOK, RequestResume
    <2>9. PluginInv(p)'
      BY <1>1, <2>2, <2>3, <2>4, <2>8, ThreadAssumption
      DEF PluginInv, OthersKept, InTransition, Raising, Lowering
    <2>. QED BY <1>1, <2>4, <2>7, <2>9, OthersInv
  <1>6. ASSUME UNCHANGED <<state, handler, announced, lock, qlock, calls>>,
               \A q \in Plugins : control'[q] # "none" => control[q] # "none"
        PROVE  StackInv' /\ \A q \in Plugins : PluginInv(q)'
    <2>1. StackInv'
      BY <1>6 DEF StackInv, Busy, calls
    <2>2. \A q \in Plugins : PluginInv(q)'
      BY <1>6 DEF PluginInv, InTransition, calls
    <2>. QED BY <2>1, <2>2
  <1>7. ASSUME NEW why \in Reasons, RequestResume(t, p, why), UNCHANGED calls
        PROVE  StackInv' /\ \A q \in Plugins : PluginInv(q)'
    <2>1. \A r : ~Push(t, p, r)
      <3> SUFFICES ASSUME NEW r, Push(t, p, r) PROVE FALSE
        OBVIOUS
      <3>1. stack[t] \in Seq(Plugins) /\ Append(stack[t], p) = stack[t]
        BY <1>1, <1>7 DEF CallsType, Push, calls
      <3>. QED BY <3>1
    <2>2. UNCHANGED lock /\ control[p] = "suspended" /\ control' = [control EXCEPT ![p] = "resumed"]
      BY <1>7, <2>1 DEF RequestResume
    <2>3. \A q \in Plugins : control'[q] # "none" => control[q] # "none"
      BY <2>2 DEF TypeOK
    <2>. QED BY <1>6, <1>7, <2>2, <2>3 DEF RequestResume
  <1>8. ASSUME NEW why \in Reasons, RequestUnavailable(t, p, why)
        PROVE  StackInv' /\ \A q \in Plugins : PluginInv(q)'
    <2>1. StackInv'
      BY <1>8 DEF RequestUnavailable, StackInv, Busy, calls
    <2>2. \A q \in Plugins : q # p => UNCHANGED Members(q)
      BY <1>8 DEF TypeOK, RequestUnavailable, Members, locks
    <2>3. /\ state[p] = "DEACTIVATED" /\ state'[p] = "UNAVAILABLE" /\ announced'[p] = "Unavailable"
          /\ handler'[p] = handler[p] /\ control'[p] = control[p]
          /\ lock'[p] = lock[p] /\ qlock'[p] = qlock[p] /\ frame' = frame
          /\ (lock[p] = NoThread \/ lock[p] = t)
      BY <1>8 DEF TypeOK, RequestUnavailable, CanLock, locks, calls
    <2>4. PluginInv(p)'
      BY <1>1, <1>2, <1>8, <2>3, ThreadAssumption
      DEF RequestUnavailable, Issue, Busy, PluginInv, InTransition, Raising, Lowering
    <2>. QED BY <1>1, <1>8, <2>1, <2>2, <2>3, <2>4, OthersInv DEF OthersKept
  <1>9. CASE RequestSuspend(t, p)
    <2>1. \A q \in Plugins : control'[q] # "none" => control[q] # "none"
      BY <1>9 DEF TypeOK, RequestSuspend
    <2>. QED BY <1>6, <1>9, <2>1 DEF RequestSuspend, locks
  <1>10. CASE RequestHibernate(t, p)
    <2>1. StackInv'
      BY <1>10 DEF RequestHibernate, StackInv, Busy, calls
    <2>2. \A q \in Plugins : q # p => UNCHANGED Members(q)
      BY <1>10 DEF TypeOK, RequestHibernate, Members, locks
    <2>3. /\ state[p] = "ACTIVATED" /\ state'[p] = "HIBERNATED" /\ announced'[p] = announced[p]
          /\ handler'[p] = handler[p] /\ control'[p] = control[p]
          /\ lock'[p] = lock[p] /\ qlock'[p] = qlock[p] /\ frame' = frame
      BY <1>10 DEF TypeOK, RequestHibernate, locks, calls
    <2>4. PluginInv(p)'
      BY <2>3 DEF PluginInv, InTransition, Raising, Lowering
    <2>. QED BY <1>1, <2>1, <2>2, <2>3, <2>4, OthersInv DEF OthersKept
  <1>11. ASSUME NEW why \in Reasons, RequestResume(t, p, why)
         PROVE  UNCHANGED calls \/ Push(t, p, [Call("activate", why) EXCEPT !.outer = TRUE])
    BY <1>11 DEF RequestResume, calls
  <1>. QED BY <1>3, <1>4, <1>5, <1>7, <1>8, <1>9, <1>10, <1>11 DEF Request

-----------------------------------------------------------------------------
(* The invariant.                                                           *)

\* It holds when the daemon starts: every service is DEACTIVATED and no call
\* is in progress.
LEMMA IInvInit == Init => IInv
  <1> SUFFICES ASSUME Init PROVE IInv
    OBVIOUS
  <1>1. TypeOK
    BY TypeInit
  <1>2. \A t \in Threads, p \in Plugins :
            frame[t][p].pc = "idle" /\ ~frame[t][p].outer
    BY DEF Init, Blank
  <1>3. StackInv
    BY <1>2 DEF Init, StackInv, Busy
  <1>4. \A p \in Plugins : PluginInv(p)
    BY <1>2, ThreadAssumption DEF Init, PluginInv, InTransition, Raising, Lowering
  <1>. QED BY <1>1, <1>3, <1>4, IInvByPlugin

\* Every step keeps it.
LEMMA IInvNext == IInv /\ [Next]_vars => IInv'
  <1> SUFFICES ASSUME TypeOK, StackInv, \A q \in Plugins : PluginInv(q), [Next]_vars
               PROVE  TypeOK' /\ StackInv' /\ \A q \in Plugins : PluginInv(q)'
    <2>1. IInv' <=> (TypeOK /\ StackInv /\ \A p \in Plugins : PluginInv(p))'
      BY IInvByPlugin, PTL
    <2>. QED BY <2>1, IInvByPlugin
  <1>1. TypeOK'
    BY TypeNext
  <1>2. ASSUME NEW t \in Threads, NEW p \in Plugins, Activate(t, p)
        PROVE  StackInv' /\ \A q \in Plugins : PluginInv(q)'
    BY <1>2, ActivateEnterInv, ActivateLoadFailedInv, ActivatePostponedInv, ActivateBeginInv,
       InitializedInv, ActivateDoneInv, ActivateFailedInv DEF Activate
  <1>3. ASSUME NEW t \in Threads, NEW p \in Plugins, Deactivate(t, p)
        PROVE  StackInv' /\ \A q \in Plugins : PluginInv(q)'
    BY <1>3, DeactivateRefusedInv, DeactivateWaitingInv, DeactivateBeginInv,
       DeactivateAnnounceInv, DeinitializeInv, DeactivateDoneInv DEF Deactivate
  <1>4. ASSUME NEW t \in Threads, Step(t)
        PROVE  StackInv' /\ \A q \in Plugins : PluginInv(q)'
    BY <1>2, <1>3, <1>4, EvaluateInv, ReevaluateInv, ResumedInv DEF Step
  <1>5. ASSUME UNCHANGED <<service, locks, calls>>
        PROVE  StackInv' /\ \A q \in Plugins : PluginInv(q)'
    BY <1>5, StutterInv DEF Members, service, locks
  <1>6. ASSUME NEW s \in SubSystems, Set(s)
        PROVE  UNCHANGED <<service, locks, calls>>
    BY <1>6 DEF Set
  <1>7. ASSUME NEW p \in Plugins, NEW id \in 1..MaxProcess, ProcessExit(p, id)
        PROVE  UNCHANGED <<service, locks, calls>>
    BY <1>7 DEF ProcessExit
  <1>8. JobStart \/ JobDone \/ UNCHANGED vars => UNCHANGED <<service, locks, calls>>
    BY DEF JobStart, JobDone, vars
  <1>. QED BY <1>1, <1>4, <1>5, <1>6, <1>7, <1>8, RequestInv DEF Next, Rest

\* The records, the stacks, the locks and the members of every plugin stay
\* consistent, whatever the number of threads and plugins.
THEOREM Consistent == Spec => []IInv
  BY IInvInit, IInvNext, PTL DEF Spec

\* No two threads are ever inside Initialize or Deinitialize of one plugin,
\* although Activate and Deactivate release the service lock around them.
THEOREM OneTransitionHolds == Spec => []OneTransition
  <1>1. IInv => OneTransition
    BY DEF IInv
  <1>. QED BY <1>1, Consistent, PTL

\* _handler is there wherever Activate and Deactivate use it unchecked.
THEOREM HandlerAliveHolds == Spec => []HandlerAlive
  <1>1. IInv => HandlerAlive
    BY DEF IInv
  <1>. QED BY <1>1, Consistent, PTL

\* A plugin in ACTIVATION or DEACTIVATION has a thread that will complete it.
THEOREM NeverAbandonedHolds == Spec => []NeverAbandoned
  <1>1. IInv => NeverAbandoned
    BY DEF IInv
  <1>. QED BY <1>1, Consistent, PTL

\* What the observers were told last is what the plugin is.
THEOREM ObserversInStepHolds == Spec => []ObserversInStep
  <1>1. IInv => ObserversInStep
    BY DEF IInv
  <1>. QED BY <1>1, Consistent, PTL

\* Suspend and Resume never use the IStateControl of an instance that is gone.
THEOREM StateControlAliveHolds == Spec => []StateControlAlive
  <1>1. IInv => StateControlAlive
    BY DEF IInv
  <1>. QED BY <1>1, Consistent, PTL

\* Every path through Activate, Deactivate and Resume, the early returns and
\* the failures included, gives back both locks of the plugin.
THEOREM LocksReleasedHolds == Spec => []LocksReleased
  <1>1. IInv => LocksReleased
    <2> SUFFICES ASSUME IInv, Quiescent, NEW p \in Plugins
                 PROVE  lock[p] = NoThread /\ qlock[p] = NoThread
      BY DEF LocksReleased
    <2>1. TypeOK /\ StackInv /\ PluginInv(p) /\ CallsType
      BY IInvByPlugin DEF TypeOK, CallsType
    <2>2. \A t \in Threads : frame[t][p].pc = "idle"
      BY <2>1, StackEmpty DEF Quiescent, Busy
    <2>3. \A t \in Threads : lock[p] # t /\ qlock[p] # t
      BY <2>1, <2>2 DEF PluginInv, Raising
    <2>. QED BY <2>1, <2>3 DEF TypeOK
  <1>. QED BY <1>1, Consistent, PTL

-----------------------------------------------------------------------------
(* What the contract sees of one plugin.                                    *)

Owner(p) == {t \in Threads : InTransition(t, p)}
Told(p) == announced[p] = "Activated"

PhaseOf == [p \in Plugins |-> Phase(state[p])]
OwnerOf == [p \in Plugins |-> Owner(p)]
ToldOf == [p \in Plugins |-> Told(p)]

\* The contract's variables change at one plugin at most.
LEMMA Seen ==
    ASSUME NEW t \in Threads, NEW p \in Plugins, OthersKept(t, p),
           \A q \in Plugins : q # p => state'[q] = state[q] /\ announced'[q] = announced[q]
    PROVE  /\ PhaseOf' = [PhaseOf EXCEPT ![p] = Phase(state[p])']
           /\ OwnerOf' = [OwnerOf EXCEPT ![p] = Owner(p)']
           /\ ToldOf' = [ToldOf EXCEPT ![p] = Told(p)']
  <1>1. \A q \in Plugins : q # p => /\ Phase(state[q])' = Phase(state[q])
                                    /\ Owner(q)' = Owner(q)
                                    /\ Told(q)' = Told(q)
    BY DEF Phase, Owner, Told, InTransition, OthersKept
  <1>. QED BY <1>1 DEF PhaseOf, OwnerOf, ToldOf

\* A step that the contract does not see.
LEMMA Unseen ==
    ASSUME NEW t \in Threads, NEW p \in Plugins, OthersKept(t, p),
           \A q \in Plugins : q # p => state'[q] = state[q] /\ announced'[q] = announced[q],
           Phase(state[p])' = Phase(state[p]), Told(p)' = Told(p),
           InTransition(t, p)' <=> InTransition(t, p)
    PROVE  UNCHANGED Contract!contract
  <1>1. Owner(p)' = Owner(p)
    BY DEF Owner, InTransition, OthersKept
  <1>2. PhaseOf' = PhaseOf /\ OwnerOf' = OwnerOf /\ ToldOf' = ToldOf
    BY <1>1, Seen DEF PhaseOf, OwnerOf, ToldOf
  <1>. QED BY <1>2 DEF Contract!contract, PhaseOf, OwnerOf, ToldOf, Owner, Told

\* A step in which thread t takes the plugin over, or lets go of it.
LEMMA Owned ==
    ASSUME NEW t \in Threads, NEW p \in Plugins, OthersKept(t, p),
           \A u \in Threads : InTransition(u, p) => u = t
    PROVE  /\ Owner(p) = IF InTransition(t, p) THEN {t} ELSE {}
           /\ Owner(p)' = IF InTransition(t, p)' THEN {t} ELSE {}
  BY DEF Owner, InTransition, OthersKept

\* A thread that works on a plugin does so alone.
LEMMA Alone ==
    ASSUME NEW t \in Threads, NEW p \in Plugins, PluginInv(p), InTransition(t, p)
    PROVE  \A u \in Threads : InTransition(u, p) => u = t
  BY DEF PluginInv

-----------------------------------------------------------------------------
(* The steps the contract sees.                                             *)

\* Activate enters ACTIVATION: the thread takes the plugin over.
LEMMA StartStep ==
    ASSUME TypeOK, StackInv, \A q \in Plugins : PluginInv(q),
           NEW t \in Threads, NEW p \in Plugins, NEW id \in 0..MaxProcess, ActivateBegin(t, p, id)
    PROVE  Contract!Start(t, p)
  <1>1. OthersKept(t, p) /\ frame[t][p].pc = "load" /\ frame'[t][p].pc = "initialize"
    BY GotoStep DEF ActivateBegin, PC
  <1>2. \A q \in Plugins : q # p => state'[q] = state[q] /\ announced'[q] = announced[q]
    BY DEF TypeOK, ActivateBegin
  <1>3. state'[p] = "ACTIVATION" /\ announced'[p] = announced[p]
    BY DEF TypeOK, ActivateBegin
  <1>4. state[p] \in {"DEACTIVATED", "PRECONDITION"} /\ \A u \in Threads : ~InTransition(u, p)
    BY <1>1 DEF PluginInv, InTransition
  <1>5. Owner(p) = {} /\ Owner(p)' = {t}
    BY <1>1, <1>4, Owned DEF InTransition, Raising
  <1>6. Phase(state[p]) = "down" /\ Phase(state[p])' = "starting" /\ Told(p)' = Told(p)
    BY <1>3, <1>4 DEF Phase, Told
  <1>7. /\ PhaseOf[p] = "down" /\ OwnerOf[p] = {}
        /\ PhaseOf' = [PhaseOf EXCEPT ![p] = "starting"]
        /\ OwnerOf' = [OwnerOf EXCEPT ![p] = {t}]
        /\ UNCHANGED ToldOf
    BY <1>1, <1>2, <1>5, <1>6, Seen DEF PhaseOf, OwnerOf, ToldOf
  <1>. QED BY <1>7 DEF Contract!Start, PhaseOf, OwnerOf, ToldOf, Owner, Told

\* Activate ends in ACTIVATED and announces it under the same lock.
LEMMA StartedStep ==
    ASSUME TypeOK, StackInv, \A q \in Plugins : PluginInv(q),
           NEW t \in Threads, NEW p \in Plugins, ActivateDone(t, p)
    PROVE  Contract!Started(t, p)
  <1>1. OthersKept(t, p) /\ frame[t][p].pc = "activated" /\ frame'[t][p].pc \in {"idle", "resume", "reevaluate"}
    BY ReturnStep DEF ActivateDone
  <1>2. \A q \in Plugins : q # p => state'[q] = state[q] /\ announced'[q] = announced[q]
    BY DEF TypeOK, ActivateDone
  <1>3. state'[p] = "ACTIVATED" /\ announced'[p] = "Activated"
    BY DEF TypeOK, ActivateDone
  <1>4. state[p] = "ACTIVATION" /\ InTransition(t, p)
    BY <1>1 DEF PluginInv, InTransition, Raising
  <1>5. Owner(p) = {t} /\ Owner(p)' = {}
    BY <1>1, <1>4, Alone, Owned DEF InTransition, Raising, Lowering
  <1>6. Phase(state[p]) = "starting" /\ Phase(state[p])' = "up" /\ Told(p)'
    BY <1>3, <1>4 DEF Phase, Told
  <1>7. /\ PhaseOf[p] = "starting" /\ OwnerOf[p] = {t}
        /\ PhaseOf' = [PhaseOf EXCEPT ![p] = "up"]
        /\ OwnerOf' = [OwnerOf EXCEPT ![p] = {}]
        /\ ToldOf' = [ToldOf EXCEPT ![p] = TRUE]
    BY <1>1, <1>2, <1>5, <1>6, Seen DEF PhaseOf, OwnerOf, ToldOf
  <1>. QED BY <1>7 DEF Contract!Started, PhaseOf, OwnerOf, ToldOf, Owner, Told

\* Activate ends in DEACTIVATED because Initialize failed.
LEMMA FailedStep ==
    ASSUME TypeOK, StackInv, \A q \in Plugins : PluginInv(q),
           NEW t \in Threads, NEW p \in Plugins, ActivateFailed(t, p)
    PROVE  Contract!Failed(t, p)
  <1>1. OthersKept(t, p) /\ frame[t][p].pc = "initfailed" /\ frame'[t][p].pc \in {"idle", "resume", "reevaluate"}
    BY ReturnStep DEF ActivateFailed
  <1>2. \A q \in Plugins : q # p => state'[q] = state[q] /\ announced'[q] = announced[q]
    BY DEF TypeOK, ActivateFailed, conditions
  <1>3. state'[p] = "DEACTIVATED" /\ announced'[p] = announced[p]
    BY DEF TypeOK, ActivateFailed, conditions
  <1>4. state[p] = "ACTIVATION" /\ InTransition(t, p)
    BY <1>1 DEF PluginInv, InTransition, Raising
  <1>5. Owner(p) = {t} /\ Owner(p)' = {}
    BY <1>1, <1>4, Alone, Owned DEF InTransition, Raising, Lowering
  <1>6. Phase(state[p]) = "starting" /\ Phase(state[p])' = "down" /\ Told(p)' = Told(p)
    BY <1>3, <1>4 DEF Phase, Told
  <1>7. /\ PhaseOf[p] = "starting" /\ OwnerOf[p] = {t}
        /\ PhaseOf' = [PhaseOf EXCEPT ![p] = "down"]
        /\ OwnerOf' = [OwnerOf EXCEPT ![p] = {}]
        /\ UNCHANGED ToldOf
    BY <1>1, <1>2, <1>5, <1>6, Seen DEF PhaseOf, OwnerOf, ToldOf
  <1>. QED BY <1>7 DEF Contract!Failed, PhaseOf, OwnerOf, ToldOf, Owner, Told

\* Deactivate enters DEACTIVATION: the thread takes the plugin over.
LEMMA StopStep ==
    ASSUME TypeOK, StackInv, \A q \in Plugins : PluginInv(q),
           NEW t \in Threads, NEW p \in Plugins, DeactivateBegin(t, p)
    PROVE  Contract!Stop(t, p)
  <1>1. frame[t][p].pc = "deactivate" /\ frame[t][p] \in FrameType
    BY DEF TypeOK, DeactivateBegin, At
  <1>2. state[p] \in {"ACTIVATED", "HIBERNATED"} /\ \A u \in Threads : ~InTransition(u, p)
    BY <1>1 DEF PluginInv, InTransition, DeactivateBegin
  <1>3. PICK r : r = [frame[t][p] EXCEPT !.pc = "evaluate", !.was = "ACTIVATED"]
    OBVIOUS
  <1>4. frame' = [frame EXCEPT ![t][p] = r]
    BY <1>1, <1>2, <1>3 DEF DeactivateBegin
  <1>5. r.pc = "evaluate"
    BY <1>1, <1>3 DEF FrameType
  <1>6. OthersKept(t, p) /\ frame'[t][p].pc = "evaluate"
    BY <1>4, <1>5 DEF TypeOK, OthersKept
  <1>7. /\ state'[p] = "DEACTIVATION" /\ announced'[p] = announced[p]
        /\ \A q \in Plugins : q # p => state'[q] = state[q] /\ announced'[q] = announced[q]
    BY DEF TypeOK, DeactivateBegin
  <1>8. Owner(p) = {} /\ Owner(p)' = {t}
    BY <1>2, <1>6, Owned DEF InTransition, Lowering
  <1>9. Phase(state[p]) = "up" /\ Phase(state[p])' = "stopping" /\ Told(p)' = Told(p)
    BY <1>2, <1>7 DEF Phase, Told
  <1>10. /\ PhaseOf[p] = "up" /\ OwnerOf[p] = {}
         /\ PhaseOf' = [PhaseOf EXCEPT ![p] = "stopping"]
         /\ OwnerOf' = [OwnerOf EXCEPT ![p] = {t}]
         /\ UNCHANGED ToldOf
    BY <1>6, <1>7, <1>8, <1>9, Seen DEF PhaseOf, OwnerOf, ToldOf
  <1>. QED BY <1>10 DEF Contract!Stop, PhaseOf, OwnerOf, ToldOf, Owner, Told

\* Deactivate tells the observers, while it still owns the plugin.
LEMMA TellStep ==
    ASSUME TypeOK, StackInv, \A q \in Plugins : PluginInv(q),
           NEW t \in Threads, NEW p \in Plugins, DeactivateAnnounce(t, p)
    PROVE  Contract!Tell(t, p)
  <1>1. OthersKept(t, p) /\ frame[t][p].pc = "evaluate" /\ frame'[t][p].pc = "teardown"
    BY GotoStep DEF DeactivateAnnounce, PC
  <1>2. \A q \in Plugins : q # p => state'[q] = state[q] /\ announced'[q] = announced[q]
    BY DEF TypeOK, DeactivateAnnounce
  <1>0. frame[t][p].was = "ACTIVATED"
    BY <1>1 DEF PluginInv
  <1>3. state'[p] = state[p] /\ announced'[p] = "Deactivated"
    BY <1>0 DEF TypeOK, DeactivateAnnounce
  <1>4. state[p] = "DEACTIVATION" /\ InTransition(t, p) /\ announced[p] = "Activated"
    BY <1>1 DEF PluginInv, InTransition, Lowering
  <1>5. Owner(p) = {t} /\ Owner(p)' = {t}
    BY <1>1, <1>4, Alone, Owned DEF InTransition, Lowering
  <1>6. Phase(state[p]) = "stopping" /\ Phase(state[p])' = "stopping" /\ Told(p) /\ ~Told(p)'
    BY <1>3, <1>4 DEF Phase, Told
  <1>7. /\ PhaseOf[p] = "stopping" /\ OwnerOf[p] = {t}
        /\ UNCHANGED PhaseOf
        /\ UNCHANGED OwnerOf
        /\ ToldOf[p] /\ ToldOf' = [ToldOf EXCEPT ![p] = FALSE]
    <2>1. Told(p)' = FALSE
      BY <1>6
    <2>2. ToldOf[p] /\ ToldOf' = [ToldOf EXCEPT ![p] = FALSE]
      BY <1>1, <1>2, <1>6, <2>1, Seen DEF ToldOf
    <2>3. PhaseOf' = PhaseOf
      <3>1. PhaseOf' = [PhaseOf EXCEPT ![p] = "stopping"]
        BY <1>1, <1>2, <1>6, Seen
      <3>. QED BY <1>6, <3>1 DEF PhaseOf
    <2>4. OwnerOf' = OwnerOf
      <3>1. OwnerOf' = [OwnerOf EXCEPT ![p] = {t}]
        BY <1>1, <1>2, <1>5, Seen
      <3>. QED BY <1>5, <3>1 DEF OwnerOf
    <2>. QED BY <1>5, <1>6, <2>2, <2>3, <2>4 DEF PhaseOf, OwnerOf
  <1>. QED BY <1>7 DEF Contract!Tell, PhaseOf, OwnerOf, ToldOf, Owner, Told

\* Deactivate leaves DEACTIVATION, after the observers were told.
LEMMA StoppedStep ==
    ASSUME TypeOK, StackInv, \A q \in Plugins : PluginInv(q),
           NEW t \in Threads, NEW p \in Plugins, DeactivateDone(t, p)
    PROVE  Contract!Stopped(t, p)
  <1>1. OthersKept(t, p) /\ frame[t][p].pc = "finish" /\ frame'[t][p].pc \in {"idle", "resume", "reevaluate"}
    BY ReturnStep DEF DeactivateDone
  <1>2. \A q \in Plugins : q # p => state'[q] = state[q] /\ announced'[q] = announced[q]
    BY DEF TypeOK, DeactivateDone, Settled
  <1>3. state'[p] \in {"PRECONDITION", "DEACTIVATED"} /\ announced'[p] = announced[p]
    BY DEF TypeOK, DeactivateDone, Settled
  <1>4. state[p] = "DEACTIVATION" /\ InTransition(t, p)
    BY <1>1 DEF PluginInv, InTransition, Lowering
  <1>5. Owner(p) = {t} /\ Owner(p)' = {}
    BY <1>1, <1>4, Alone, Owned DEF InTransition, Raising, Lowering
  <1>8. ~Told(p)
    <2>1. \A u \in Threads : frame[u][p].pc # "evaluate"
      BY <1>1, <1>4, Alone DEF InTransition, Lowering
    <2>. QED BY <1>4, <2>1 DEF PluginInv, Told
  <1>6. Phase(state[p]) = "stopping" /\ Phase(state[p])' = "down" /\ ~Told(p) /\ Told(p)' = Told(p)
    BY <1>3, <1>4, <1>8 DEF Phase, Told
  <1>7. /\ PhaseOf[p] = "stopping" /\ OwnerOf[p] = {t}
        /\ PhaseOf' = [PhaseOf EXCEPT ![p] = "down"]
        /\ OwnerOf' = [OwnerOf EXCEPT ![p] = {}]
        /\ ~ToldOf[p] /\ UNCHANGED ToldOf
    BY <1>1, <1>2, <1>5, <1>6, Seen DEF PhaseOf, OwnerOf, ToldOf
  <1>. QED BY <1>7 DEF Contract!Stopped, PhaseOf, OwnerOf, ToldOf, Owner, Told

-----------------------------------------------------------------------------
(* The steps the contract does not see.                                     *)

\* Nothing the contract talks about changes.
LEMMA Stutter ==
    ASSUME UNCHANGED <<frame, state, announced>>
    PROVE  UNCHANGED Contract!contract
  BY DEF Contract!contract, InTransition

\* Activate's other steps.
LEMMA ActivateUnseen ==
    ASSUME TypeOK, StackInv, \A q \in Plugins : PluginInv(q),
           NEW t \in Threads, NEW p \in Plugins,
           \/ ActivateEnter(t, p) \/ ActivateLoadFailed(t, p)
           \/ \E id \in 0..MaxProcess : ActivatePostponed(t, p, id)
           \/ Initialized(t, p)
    PROVE  UNCHANGED Contract!contract
  <1>1. CASE ActivateEnter(t, p) /\ state[p] \in {"DEACTIVATED", "PRECONDITION"}
    <2>1. OthersKept(t, p) /\ frame[t][p].pc = "activate" /\ frame'[t][p].pc = "load"
      BY <1>1, GotoStep DEF ActivateEnter, PC
    <2>2. UNCHANGED <<state, announced>>
      BY <1>1 DEF ActivateEnter
    <2>. QED BY <2>1, <2>2, Unseen DEF InTransition, Raising, Lowering, Told
  <1>2. CASE ActivateEnter(t, p) /\ state[p] \notin {"DEACTIVATED", "PRECONDITION"}
    <2>1. OthersKept(t, p) /\ frame[t][p].pc = "activate"
          /\ frame'[t][p].pc \in {"idle", "resume", "reevaluate"}
      BY <1>2, ReturnStep DEF ActivateEnter
    <2>2. UNCHANGED announced
          /\ state' = [state EXCEPT ![p] = IF state[p] = "HIBERNATED" THEN "ACTIVATED" ELSE state[p]]
      BY <1>2 DEF ActivateEnter
    <2>3. Phase(state[p])' = Phase(state[p]) /\ \A q \in Plugins : q # p => state'[q] = state[q]
      BY <2>2 DEF TypeOK, Phase
    <2>. QED BY <2>1, <2>2, <2>3, Unseen DEF InTransition, Raising, Lowering, Told
  <1>3. ASSUME OthersKept(t, p), frame[t][p].pc = "load",
               frame'[t][p].pc \in {"idle", "resume", "reevaluate"}, UNCHANGED announced,
               NEW st \in {"DEACTIVATED", "PRECONDITION"}, state' = [state EXCEPT ![p] = st]
        PROVE  UNCHANGED Contract!contract
    <2>1. state[p] \in {"DEACTIVATED", "PRECONDITION"}
      BY <1>3 DEF PluginInv
    <2>2. Phase(state[p])' = Phase(state[p]) /\ \A q \in Plugins : q # p => state'[q] = state[q]
      BY <1>3, <2>1 DEF TypeOK, Phase
    <2>. QED BY <1>3, <2>2, Unseen DEF InTransition, Raising, Lowering, Told
  <1>4. CASE ActivateLoadFailed(t, p)
    <2>1. OthersKept(t, p) /\ frame[t][p].pc = "load"
          /\ frame'[t][p].pc \in {"idle", "resume", "reevaluate"}
      BY <1>4, ReturnStep DEF ActivateLoadFailed
    <2>. QED BY <1>3, <1>4, <2>1 DEF ActivateLoadFailed
  <1>5. ASSUME NEW id \in 0..MaxProcess, ActivatePostponed(t, p, id)
        PROVE  UNCHANGED Contract!contract
    <2>1. OthersKept(t, p) /\ frame[t][p].pc = "load"
          /\ frame'[t][p].pc \in {"idle", "resume", "reevaluate"}
      BY <1>5, ReturnStep DEF ActivatePostponed
    <2>. QED BY <1>3, <1>5, <2>1 DEF ActivatePostponed
  <1>6. CASE Initialized(t, p)
    <2>1. PICK to \in {"activated", "initfailed"} : Goto(t, p, to)
      BY <1>6 DEF Initialized
    <2>2. OthersKept(t, p) /\ frame[t][p].pc = "initialize" /\ frame'[t][p].pc = to
      BY <1>6, <2>1, GotoStep DEF Initialized, PC
    <2>3. UNCHANGED <<state, announced>>
      BY <1>6 DEF Initialized
    <2>. QED BY <2>2, <2>3, Unseen DEF InTransition, Raising, Told
  <1>. QED BY <1>1, <1>2, <1>4, <1>5, <1>6

\* Deactivate's other steps.
LEMMA DeactivateUnseen ==
    ASSUME TypeOK, StackInv, \A q \in Plugins : PluginInv(q),
           NEW t \in Threads, NEW p \in Plugins,
           DeactivateRefused(t, p) \/ DeactivateWaiting(t, p) \/ Deinitialize(t, p)
    PROVE  UNCHANGED Contract!contract
  <1>1. CASE DeactivateRefused(t, p)
    <2>1. OthersKept(t, p) /\ frame[t][p].pc = "deactivate"
          /\ frame'[t][p].pc \in {"idle", "resume", "reevaluate"}
      BY <1>1, ReturnStep DEF DeactivateRefused
    <2>2. UNCHANGED <<state, announced>>
      BY <1>1 DEF DeactivateRefused, service
    <2>. QED BY <2>1, <2>2, Unseen DEF InTransition, Raising, Lowering, Told
  <1>2. CASE DeactivateWaiting(t, p)
    <2>1. OthersKept(t, p) /\ frame[t][p].pc = "deactivate"
          /\ frame'[t][p].pc \in {"idle", "resume", "reevaluate"}
      BY <1>2, ReturnStep DEF DeactivateWaiting
    <2>2. state[p] \in {"PRECONDITION", "UNAVAILABLE"} /\ UNCHANGED announced
          /\ state'[p] \in {"PRECONDITION", "DEACTIVATED"}
          /\ \A q \in Plugins : q # p => state'[q] = state[q]
      BY <1>2 DEF TypeOK, DeactivateWaiting, Settled
    <2>3. Phase(state[p])' = Phase(state[p])
      BY <2>2 DEF Phase
    <2>. QED BY <2>1, <2>2, <2>3, Unseen DEF InTransition, Raising, Lowering, Told
  <1>3. CASE Deinitialize(t, p)
    <2>1. OthersKept(t, p) /\ frame[t][p].pc = "teardown" /\ frame'[t][p].pc = "finish"
      BY <1>3, GotoStep DEF Deinitialize, PC
    <2>2. UNCHANGED <<state, announced>>
      BY <1>3 DEF Deinitialize, service
    <2>. QED BY <2>1, <2>2, Unseen DEF InTransition, Lowering, Told
  <1>. QED BY <1>1, <1>2, <1>3

\* Pushing or popping a call.
LEMMA PushPopUnseen ==
    ASSUME TypeOK, NEW t \in Threads, NEW p \in Plugins, NEW r,
           ~InTransition(t, p), r.pc \in {"activate", "deactivate"},
           Push(t, p, r) \/ Pop(t, p), UNCHANGED <<state, announced>>
    PROVE  UNCHANGED Contract!contract
  <1>1. CallsType /\ Blank.pc = "idle"
    BY DEF TypeOK, CallsType, Blank
  <1>2. OthersKept(t, p) /\ frame'[t][p].pc \in {"idle", "activate", "deactivate"}
    BY <1>1, PushPopFrame
  <1>. QED BY <1>2, Unseen DEF InTransition, Raising, Lowering, Told

\* The walk and its end, and the end of Resume.
LEMMA WalkUnseen ==
    ASSUME TypeOK, StackInv, \A q \in Plugins : PluginInv(q), NEW t \in Threads,
           Evaluate(t) \/ \E p \in Plugins : Reevaluate(t, p) \/ Resumed(t, p)
    PROVE  UNCHANGED Contract!contract
  <1>1. PICK r : r = Call("activate", "REQUESTED")
    OBVIOUS
  <1>2. r.pc = "activate"
    BY <1>1 DEF Call, Blank
  <1>3. CASE Evaluate(t)
    <2>1. CallsType /\ Walking(t)
      BY <1>3 DEF TypeOK, CallsType, Evaluate
    <2>2. PICK q \in Plugins : q = Next1(t)
      BY <2>1, WalkType
    <2>3. UNCHANGED <<state, announced>>
      BY <1>3 DEF Evaluate, service
    <2>4. ASSUME state[q] \in {"PRECONDITION", "ACTIVATED"} PROVE ~InTransition(t, q)
      BY <2>4 DEF PluginInv, InTransition
    <2>5. ASSUME NEW c, c.pc \in {"activate", "deactivate"}, Push(t, q, c),
                 state[q] \in {"PRECONDITION", "ACTIVATED"}
          PROVE  UNCHANGED Contract!contract
      BY <2>3, <2>4, <2>5, PushPopUnseen
    <2>6. CASE EvaluateActivates(q)
               /\ Push(t, q, [Call("activate", reason[q]) EXCEPT
                                !.via = TRUE, !.subs = subsystems, !.was = state[q]])
      <3>1. PICK c : c = [Call("activate", reason[q]) EXCEPT
                                !.via = TRUE, !.subs = subsystems, !.was = state[q]]
        OBVIOUS
      <3>2. c.pc = "activate"
        BY <3>1 DEF Call, Blank
      <3>3. Push(t, q, c) /\ state[q] = "PRECONDITION"
        BY <2>6, <3>1 DEF EvaluateActivates
      <3>. QED BY <2>5, <3>2, <3>3
    <2>7. CASE EvaluateDeactivates(q) /\ Push(t, q, Call("deactivate", "CONDITIONS"))
      <3>1. PICK c : c = Call("deactivate", "CONDITIONS")
        OBVIOUS
      <3>2. c.pc = "deactivate"
        BY <3>1 DEF Call, Blank
      <3>3. Push(t, q, c) /\ state[q] = "ACTIVATED"
        BY <2>7, <3>1 DEF EvaluateDeactivates
      <3>. QED BY <2>5, <3>2, <3>3
    <2>8. CASE UNCHANGED calls
      BY <2>3, <2>8, Stutter DEF calls
    <2>. QED BY <1>3, <2>2, <2>6, <2>7, <2>8 DEF Evaluate
  <1>4. ASSUME NEW p \in Plugins, Reevaluate(t, p)
        PROVE  UNCHANGED Contract!contract
    <2>1. Pop(t, p) /\ ~InTransition(t, p) /\ UNCHANGED <<state, announced>>
      BY <1>4 DEF Reevaluate, At, InTransition, Raising, Lowering, service
    <2>. QED BY <1>2, <2>1, PushPopUnseen
  <1>5. ASSUME NEW p \in Plugins, Resumed(t, p)
        PROVE  UNCHANGED Contract!contract
    <2>1. Pop(t, p) /\ ~InTransition(t, p) /\ UNCHANGED <<state, announced>>
      BY <1>5 DEF Resumed, At, InTransition, Raising, Lowering
    <2>. QED BY <1>2, <2>1, PushPopUnseen
  <1>. QED BY <1>3, <1>4, <1>5

\* The requests: those that change the state keep the phase.
LEMMA RequestUnseen ==
    ASSUME TypeOK, StackInv, \A q \in Plugins : PluginInv(q),
           NEW t \in Clients, NEW p \in Plugins, Request(t, p)
    PROVE  UNCHANGED Contract!contract
  <1>1. t \in Threads /\ CallsType /\ Top(t) = NoPlugin
    BY DEF TypeOK, CallsType, Threads, Request, Issue, RequestActivate, RequestDeactivate,
           RequestResume, RequestSuspend, RequestHibernate, RequestUnavailable
  <1>2. ~InTransition(t, p)
    BY <1>1, StackEmpty DEF Busy, InTransition, Raising, Lowering
  <1>3. ASSUME UNCHANGED <<state, announced>>,
               NEW c, c.pc \in {"activate", "deactivate"}, Push(t, p, c)
        PROVE  UNCHANGED Contract!contract
    BY <1>1, <1>2, <1>3, PushPopUnseen
  <1>4. ASSUME NEW why \in Reasons, RequestActivate(t, p, why)
        PROVE  UNCHANGED Contract!contract
    <2>1. PICK c : c = Call("activate", why)
      OBVIOUS
    <2>2. c.pc = "activate" /\ Push(t, p, c) /\ UNCHANGED <<state, announced>>
      BY <1>4, <2>1 DEF RequestActivate, Call, Blank, service
    <2>. QED BY <1>3, <2>2
  <1>5. ASSUME NEW why \in Reasons, RequestDeactivate(t, p, why)
        PROVE  UNCHANGED Contract!contract
    <2>1. PICK c : c = Call("deactivate", why)
      OBVIOUS
    <2>2. c.pc = "deactivate" /\ Push(t, p, c) /\ UNCHANGED <<state, announced>>
      BY <1>5, <2>1 DEF RequestDeactivate, Call, Blank, service
    <2>. QED BY <1>3, <2>2
  <1>6. ASSUME NEW why \in Reasons, RequestResume(t, p, why)
        PROVE  UNCHANGED Contract!contract
    <2>1. PICK c : c = [Call("activate", why) EXCEPT !.outer = TRUE]
      OBVIOUS
    <2>2. c.pc = "activate"
      BY <2>1 DEF Call, Blank
    <2>3. /\ UNCHANGED <<state, announced>>
          /\ Push(t, p, c) \/ UNCHANGED calls
      BY <1>6, <2>1 DEF RequestResume
    <2>. QED BY <1>3, <2>2, <2>3, Stutter DEF calls
  <1>7. ASSUME NEW st \in {"HIBERNATED", "UNAVAILABLE"}, NEW an \in {"Unavailable", announced[p]},
               state' = [state EXCEPT ![p] = st], announced' = [announced EXCEPT ![p] = an],
               Phase(st) = Phase(state[p]), announced[p] # "Activated" \/ an = announced[p],
               UNCHANGED calls
        PROVE  UNCHANGED Contract!contract
    <2>1. \A q \in Plugins : q # p => state'[q] = state[q] /\ announced'[q] = announced[q]
      BY <1>7 DEF TypeOK
    <2>2. Phase(state[p])' = Phase(state[p]) /\ Told(p)' = Told(p)
      BY <1>7 DEF TypeOK, Phase, Told
    <2>3. OthersKept(t, p) /\ (InTransition(t, p)' <=> InTransition(t, p))
      BY <1>7 DEF OthersKept, InTransition, calls
    <2>. QED BY <1>1, <2>1, <2>2, <2>3, Unseen
  <1>8. ASSUME NEW why \in Reasons, RequestUnavailable(t, p, why)
        PROVE  UNCHANGED Contract!contract
    <2>1. announced[p] # "Activated" /\ Phase("UNAVAILABLE") = Phase(state[p])
      <3>1. state[p] = "DEACTIVATED"
        BY <1>8 DEF RequestUnavailable
      <3>2. \A u \in Threads : frame[u][p].pc # "evaluate"
        BY <3>1 DEF PluginInv, Lowering
      <3>. QED BY <3>1, <3>2 DEF PluginInv, Phase
    <2>. QED BY <1>7, <1>8, <2>1 DEF RequestUnavailable
  <1>9. CASE RequestSuspend(t, p)
    BY <1>9, Stutter DEF RequestSuspend, calls
  <1>10. CASE RequestHibernate(t, p)
    <2>1. state[p] = "ACTIVATED" /\ Phase("HIBERNATED") = Phase(state[p])
      BY <1>10 DEF RequestHibernate, Phase
    <2>2. announced' = [announced EXCEPT ![p] = announced[p]]
      BY <1>10 DEF TypeOK, RequestHibernate
    <2>. QED BY <1>7, <1>10, <2>1, <2>2 DEF RequestHibernate
  <1>. QED BY <1>4, <1>5, <1>6, <1>8, <1>9, <1>10 DEF Request

-----------------------------------------------------------------------------
(* The theorem.                                                             *)

\* The daemon starts where the contract starts.
LEMMA ContractInit == Init => Contract!Init
  <1> SUFFICES ASSUME Init PROVE Contract!Init
    OBVIOUS
  <1>1. ASSUME NEW p \in Plugins
        PROVE  Phase(state[p]) = "down" /\ announced[p] # "Activated"
               /\ {t \in Threads : InTransition(t, p)} = {}
    <2>1. \A t \in Threads : frame[t][p].pc = "idle"
      BY DEF Init, Blank
    <2>2. \A t \in Threads : ~InTransition(t, p)
      BY <2>1 DEF InTransition, Raising, Lowering
    <2>. QED BY <2>2 DEF Init, Phase
  <1>. QED BY <1>1 DEF Contract!Init

\* Every step is a step of the contract or one it does not see.
LEMMA ContractNext == IInv /\ [Next]_vars => [Contract!Next]_(Contract!contract)
  <1> SUFFICES ASSUME TypeOK, StackInv, \A q \in Plugins : PluginInv(q), [Next]_vars
               PROVE  Contract!Next \/ UNCHANGED Contract!contract
    BY IInvByPlugin
  <1>1. ASSUME NEW t \in Threads, NEW p \in Plugins, Activate(t, p)
        PROVE  Contract!Next \/ UNCHANGED Contract!contract
    <2>1. ASSUME NEW id \in 0..MaxProcess, ActivateBegin(t, p, id) PROVE Contract!Next
      BY <2>1, StartStep DEF Contract!Next
    <2>2. ActivateDone(t, p) \/ ActivateFailed(t, p) => Contract!Next
      BY StartedStep, FailedStep DEF Contract!Next
    <2>. QED BY <1>1, <2>1, <2>2, ActivateUnseen DEF Activate
  <1>2. ASSUME NEW t \in Threads, NEW p \in Plugins, Deactivate(t, p)
        PROVE  Contract!Next \/ UNCHANGED Contract!contract
    <2>1. DeactivateBegin(t, p) \/ DeactivateAnnounce(t, p) \/ DeactivateDone(t, p)
          => Contract!Next
      BY StopStep, TellStep, StoppedStep DEF Contract!Next
    <2>. QED BY <1>2, <2>1, DeactivateUnseen DEF Deactivate
  <1>3. ASSUME NEW t \in Threads, Step(t)
        PROVE  Contract!Next \/ UNCHANGED Contract!contract
    BY <1>1, <1>2, <1>3, WalkUnseen DEF Step
  <1>4. ASSUME UNCHANGED <<service, calls>>
        PROVE  UNCHANGED Contract!contract
    BY <1>4, Stutter DEF service, calls
  <1>5. ASSUME NEW s \in SubSystems, Set(s)
        PROVE  UNCHANGED <<service, calls>>
    BY <1>5 DEF Set
  <1>6. ASSUME NEW p \in Plugins, NEW id \in 1..MaxProcess, ProcessExit(p, id)
        PROVE  UNCHANGED <<service, calls>>
    BY <1>6 DEF ProcessExit
  <1>7. JobStart \/ JobDone \/ UNCHANGED vars => UNCHANGED <<service, calls>>
    BY DEF JobStart, JobDone, vars
  <1>. QED BY <1>3, <1>4, <1>5, <1>6, <1>7, RequestUnseen DEF Next, Rest

\* Service::Activate and Service::Deactivate, interleaved in every way their
\* locks allow, keep the contract of PluginContract.
THEOREM Refinement == Spec => ImplementsContract
  <1>1. Spec => Contract!Spec
    BY ContractInit, ContractNext, Consistent, PTL DEF Spec, Contract!Spec
  <1>. QED BY <1>1 DEF ImplementsContract
=============================================================================
