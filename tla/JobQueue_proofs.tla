-------------------------- MODULE JobQueue_proofs --------------------------
(***************************************************************************)
(* Machine-checked proofs about JobQueue: the types, the bound of every    *)
(* category and the use of every free slot, for every set of jobs, every   *)
(* finite set of minions, every set of inserting threads and every choice  *)
(* of marks, priorities and callbacks.                                     *)
(***************************************************************************)
EXTENDS JobQueue, CategoryQueue_proofs

\* Where the threads are; the queue itself is under QueueInv.
CallersType ==
    /\ call \in [Jobs -> {"none", "out", "called back", "answered"}]
    /\ inserting \in [Inserters -> Jobs \cup {NoJob}]
    /\ blocked \in [Inserters -> BOOLEAN]

\* Only a job that has a callback waits for one: RequestBack posts a job.
CallsBack == \A j \in Jobs : call[j] = "out" => Callback[j] # NoJob

Inv == QueueInv /\ CallersType /\ CallsBack

LEMMA InitInv ==
    ASSUME Init
    PROVE  Inv
  <1>1. QueueInv
    BY QueueInitInv DEF Init
  <1>2. CallersType
    BY DEF Init, CallersType
  <1>3. CallsBack
    BY DEF Init, CallsBack
  <1>. QED BY <1>1, <1>2, <1>3 DEF Inv

LEMMA NextInv ==
    ASSUME Inv, [Next]_vars
    PROVE  Inv'
  <1>. USE DEF Inv
  <1>1. ASSUME NEW j \in Jobs, Request(j)
        PROVE  Inv'
    <2>1. QueueInv'
      BY <1>1, PostInv, RoleAssumption DEF Request
    <2>2. CallersType'
      BY <1>1 DEF Request, CallersType
    <2>3. CallsBack'
      BY <1>1 DEF Request, CallsBack
    <2>. QED BY <2>1, <2>2, <2>3
  <1>2. ASSUME NEW j \in Jobs, RequestBack(j)
        PROVE  Inv'
    <2>1. QueueInv'
      <3>1. Callback[j] \in Jobs
        BY <1>2, RoleAssumption DEF RequestBack, CallsBack
      <3>2. "HIGH" \in Categories
        BY DEF Categories
      <3>. QED BY <1>2, <3>1, <3>2, PostInv DEF RequestBack
    <2>2. CallersType'
      BY <1>2 DEF RequestBack, CallersType
    <2>3. CallsBack'
      BY <1>2 DEF RequestBack, CallsBack, CallersType
    <2>. QED BY <2>1, <2>2, <2>3
  <1>3. ASSUME NEW j \in Jobs, Revoke(j)
        PROVE  Inv'
    <2>1. QueueInv'
      BY <1>3, RemoveEntryInv DEF Revoke
    <2>2. CallersType'
      BY <1>3 DEF Revoke, CallersType
    <2>3. CallsBack'
      BY <1>3 DEF Revoke, CallsBack
    <2>. QED BY <2>1, <2>2, <2>3
  <1>4. ASSUME NEW i \in Inserters, NEW j \in Jobs, InsertCall(i, j)
        PROVE  Inv'
    <2>1. QueueInv'
      BY <1>4, BoundedReading
         DEF InsertCall, queueVars, QueueInv, QueueTypeOK, WorkConserving
    <2>2. CallersType'
      BY <1>4 DEF InsertCall, CallersType
    <2>3. CallsBack'
      BY <1>4 DEF InsertCall, CallsBack
    <2>. QED BY <2>1, <2>2, <2>3
  <1>5. ASSUME NEW i \in Inserters, InsertTry(i)
        PROVE  Inv'
    <2>1. QueueInv'
      <3>1. inserting[i] \in Jobs /\ Priority[inserting[i]] \in Categories
        BY <1>5, RoleAssumption DEF InsertTry, CallersType
      <3>. QED BY <1>5, <3>1, InsertInv DEF InsertTry
    <2>2. CallersType'
      BY <1>5 DEF InsertTry, CallersType
    <2>3. CallsBack'
      BY <1>5 DEF InsertTry, CallsBack
    <2>. QED BY <2>1, <2>2, <2>3
  <1>6. ASSUME NEW i \in Inserters, InsertReturn(i)
        PROVE  Inv'
    <2>1. QueueInv'
      BY <1>6, BoundedReading
         DEF InsertReturn, queueVars, QueueInv, QueueTypeOK, WorkConserving
    <2>2. CallersType'
      BY <1>6 DEF InsertReturn, CallersType
    <2>3. CallsBack'
      BY <1>6 DEF InsertReturn, CallsBack
    <2>. QED BY <2>1, <2>2, <2>3
  <1>7. ASSUME NEW m \in Minions, MinionExtract(m)
        PROVE  Inv'
    <2>1. QueueInv'
      BY <1>7, ExtractInv DEF MinionExtract
    <2>2. CallersType'
      BY <1>7 DEF MinionExtract, CallersType
    <2>3. CallsBack'
      BY <1>7 DEF MinionExtract, CallsBack
    <2>. QED BY <2>1, <2>2, <2>3
  <1>8. ASSUME NEW m \in Minions, MinionCall(m)
        PROVE  Inv'
    <2>1. QueueInv'
      BY <1>8, BoundedReading
         DEF MinionCall, queueVars, QueueInv, QueueTypeOK, WorkConserving
    <2>2. CallersType'
      BY <1>8 DEF MinionCall, CallersType
    <2>3. CallsBack'
      <3>1. ASSUME NEW j \in Jobs, call'[j] = "out"
            PROVE  call[j] = "out" \/ (running[m] # NoJob /\ running[m].job = j
                                        /\ Callback[j] # NoJob)
        BY <1>8, <3>1 DEF MinionCall, CallersType
      <3>. QED BY <3>1 DEF CallsBack
    <2>. QED BY <2>1, <2>2, <2>3
  <1>9. ASSUME NEW m \in Minions, MinionComplete(m)
        PROVE  Inv'
    <2>1. QueueInv'
      BY <1>9, CompletionInv DEF MinionComplete
    <2>2. CallersType'
      <3>1. Returned(running[m].job) \in [Jobs -> {"none", "out", "called back", "answered"}]
        BY DEF Returned, CallersType
      <3>. QED BY <1>9, <3>1 DEF MinionComplete, CallersType
    <2>3. CallsBack'
      <3>1. ASSUME NEW j \in Jobs, call'[j] = "out"
            PROVE  call[j] = "out"
        BY <1>9, <3>1 DEF MinionComplete, Returned
      <3>. QED BY <3>1 DEF CallsBack
    <2>. QED BY <2>1, <2>2, <2>3
  <1>10. CASE UNCHANGED vars
    <2>1. QueueInv'
      BY <1>10, BoundedReading
         DEF vars, queueVars, QueueInv, QueueTypeOK, WorkConserving
    <2>2. CallersType'
      BY <1>10 DEF vars, CallersType
    <2>3. CallsBack'
      BY <1>10 DEF vars, CallsBack
    <2>. QED BY <2>1, <2>2, <2>3
  <1>. QED BY <1>1, <1>2, <1>3, <1>4, <1>5, <1>6, <1>7, <1>8, <1>9, <1>10
           DEF Next, Inserter, Minion

LEMMA Invariance == Spec => []Inv
  <1>1. Init => Inv
    BY InitInv
  <1>2. Inv /\ [Next]_vars => Inv'
    BY NextInv
  <1>. QED BY <1>1, <1>2, PTL DEF Spec

\* The state of the queue and of the threads around it keeps its types; in
\* particular no count of slots taken ever goes below zero.
THEOREM TypeCorrect == Spec => []TypeOK
  <1>1. Inv => TypeOK
    BY DEF Inv, QueueInv, CallersType, TypeOK
  <1>. QED BY <1>1, Invariance, PTL

\* However posts, inserts, revokes, extractions and completions interleave, a
\* category never has more entries submitted than slots taken, and never takes
\* more slots than its mark.
THEOREM BoundCorrect == Spec => []ParallelBound
  <1>1. Inv => ParallelBound
    BY DEF Inv, QueueInv
  <1>. QED BY <1>1, Invariance, PTL

\* No entry waits while its category has a free slot: that a completion
\* promotes one entry only is enough.
THEOREM ConservingCorrect == Spec => []WorkConserving
  <1>1. Inv => WorkConserving
    BY DEF Inv, QueueInv
  <1>. QED BY <1>1, Invariance, PTL
=============================================================================
