-------------------------- MODULE CategoryQueue --------------------------
(***************************************************************************)
(* The queue between the threads that submit jobs and the minions of the   *)
(* thread pool: CategoryQueueType<QueueElement, false>, the queue of the   *)
(* default build (__JOB_QUEUE_STATIC_PRIORITY__).                          *)
(*                                                                         *)
(* A category may have at most Mark[c] entries submitted, i.e. ready or in *)
(* process; the surplus waits in the deque of its category until an entry  *)
(* completes.  Every operator below is what one method does while it holds *)
(* _adminLock, so it is one step of the thread that calls it.              *)
(*                                                                         *)
(* The module has no behaviour of its own: JobQueue and WorkerPool extend  *)
(* it and decide who calls what.  Disable and Flush, which only the        *)
(* destruction of the pool uses, are not modelled.                         *)
(***************************************************************************)
EXTENDS Naturals, FiniteSets, Sequences, SequencesExt

CONSTANTS
    Jobs,       \* the identities of the entries: ProxyType<IDispatch>
    Minions,    \* the threads that extract
    Mark,       \* _highWaterMark of each category; the one of HIGH is totalSubmit
    NoJob

\* CategoryQueueType::category, in the order in which Completion looks for work.
Categories == {"HIGH", "MEDIUM", "LOW"}
Urgency == <<"HIGH", "MEDIUM", "LOW">>

\* "A highwatermark of 0 is bullshit", says the constructor.
ASSUME MarkAssumption == Mark \in [Categories -> Nat \ {0}]
ASSUME MinionAssumption == IsFiniteSet(Minions)
ASSUME JobAssumption == NoJob \notin [category : Categories, job : Jobs] \cup Jobs

Entry == [category : Categories, job : Jobs]

VARIABLES
    ready,      \* _queue: the submitted entries no minion has extracted
    waiting,    \* CategoryAdminType::_queue of each category
    used,       \* CategoryAdminType::_submitted of each category
    running,    \* _inProcess: the entry each minion has extracted and not completed
    qstate      \* _state

queueVars == <<ready, waiting, used, running, qstate>>

QueueInit ==
    /\ ready = <<>>
    /\ waiting = [c \in Categories |-> <<>>]
    /\ used = [c \in Categories |-> 0]
    /\ running = [m \in Minions |-> NoJob]
    /\ qstate = "EMPTY"

QueueTypeOK ==
    /\ ready \in Seq(Entry)
    /\ waiting \in [Categories -> Seq(Jobs)]
    /\ used \in [Categories -> Nat]
    /\ running \in [Minions -> Entry \cup {NoJob}]
    /\ qstate \in {"EMPTY", "ENTRIES", "LIMITED"}

InProcess(r) == {m \in Minions : r[m] # NoJob}

IsReady(j) == \E i \in DOMAIN ready : ready[i].job = j
IsWaiting(j) == \E c \in Categories : Contains(waiting[c], j)
IsRunning(j) == \E m \in InProcess(running) : running[m].job = j
HasEntry(j) == IsReady(j) \/ IsWaiting(j) \/ IsRunning(j)

IsFull == Len(ready') + Cardinality(InProcess(running')) >= Mark["HIGH"]

\* _state after Post and Insert: they do not look whether _queue is empty.
Filled == qstate' = IF IsFull THEN "LIMITED" ELSE "ENTRIES"

\* _state after Extract and Completion, where EMPTY has priority.
Settled == qstate' = CASE ready' = <<>> -> "EMPTY"
                       [] ready' # <<>> /\ IsFull -> "LIMITED"
                       [] OTHER -> "ENTRIES"

\* Mutant of Admit: the mark is compared off by one.
AdmitOneTooMany(j, c) ==
    \/ /\ used[c] > Mark[c]
       /\ waiting' = [waiting EXCEPT ![c] = Append(@, j)]
       /\ UNCHANGED <<ready, used, running>>
    \/ /\ used[c] <= Mark[c]
       /\ ready' = Append(ready, [category |-> c, job |-> j])
       /\ used' = [used EXCEPT ![c] = @ + 1]
       /\ UNCHANGED <<waiting, running>>

\* CategoryAdminType::Submit and what its callers do with the answer.
Admit(j, c) ==
    \/ /\ used[c] = Mark[c]
       /\ waiting' = [waiting EXCEPT ![c] = Append(@, j)]
       /\ UNCHANGED <<ready, used, running>>
    \/ /\ used[c] # Mark[c]
       /\ ready' = Append(ready, [category |-> c, job |-> j])
       /\ used' = [used EXCEPT ![c] = @ + 1]
       /\ UNCHANGED <<waiting, running>>

\* The call of a thread that must not wait.
Post(j, c) == Admit(j, c) /\ Filled

\* One round of the loop of Insert that finds the queue not LIMITED.  When the
\* entry had to wait, so does the caller, until the entry leaves the deque.
Insert(j, c) ==
    /\ qstate # "LIMITED"
    /\ Admit(j, c)
    /\ IF ready' = ready THEN UNCHANGED qstate ELSE Filled

Extract(m) ==
    /\ ready # <<>>
    /\ running[m] = NoJob
    /\ running' = [running EXCEPT ![m] = Head(ready)]
    /\ ready' = Tail(ready)
    /\ UNCHANGED <<waiting, used>>
    /\ Settled

\* CategoryAdminType::HasEntry: the category has an entry to submit and room for it.
CanPromote(c, u) == waiting[c] # <<>> /\ u[c] < Mark[c]

\* The first category, from HIGH to LOW, that can promote.
Promoted(u) ==
    {c \in Categories : /\ CanPromote(c, u)
                        /\ \A i, k \in DOMAIN Urgency :
                              (Urgency[k] = c /\ i < k) => ~CanPromote(Urgency[i], u)}

\* Mutant of Completion: nothing is promoted.
CompletionAlone(m) ==
    /\ running[m] # NoJob
    /\ running' = [running EXCEPT ![m] = NoJob]
    /\ used' = [used EXCEPT ![running[m].category] = @ - 1]
    /\ UNCHANGED <<ready, waiting>>
    /\ Settled

\* The minion is done with its entry; one waiting entry takes the free slot.
Completion(m) ==
    LET freed == [used EXCEPT ![running[m].category] = @ - 1]
    IN  /\ running[m] # NoJob
        /\ running' = [running EXCEPT ![m] = NoJob]
        /\ \/ /\ Promoted(freed) = {}
              /\ used' = freed
              /\ UNCHANGED <<ready, waiting>>
           \/ \E c \in Promoted(freed) :
                 /\ ready' = Append(ready, [category |-> c, job |-> Head(waiting[c])])
                 /\ waiting' = [waiting EXCEPT ![c] = Tail(@)]
                 /\ used' = [freed EXCEPT ![c] = @ + 1]
        /\ Settled

\* The first category whose deque holds the job.
Holders(j) ==
    {c \in Categories : /\ Contains(waiting[c], j)
                        /\ \A i, k \in DOMAIN Urgency :
                              (Urgency[k] = c /\ i < k) => ~Contains(waiting[Urgency[i]], j)}

\* Mutant of RemoveEntry: an entry that waits gives back a slot it never took.
RemoveEntryTwice(j) ==
    \/ /\ IsReady(j)
       /\ ready' = RemoveFirstMatch(ready, LAMBDA entry : entry.job = j)
       /\ qstate' = IF ready' = <<>> THEN "EMPTY" ELSE "ENTRIES"
       /\ UNCHANGED <<waiting, used, running>>
    \/ /\ ~IsReady(j)
       /\ \E c \in Holders(j) :
             /\ waiting' = [waiting EXCEPT ![c] = RemoveFirst(@, j)]
             /\ used' = [used EXCEPT ![c] = @ - 1]
       /\ UNCHANGED <<ready, running, qstate>>

\* Remove(entry) when it returns true.  A ready entry leaves its slot taken:
\* _submitted of its category is not touched.
RemoveEntry(j) ==
    \/ /\ IsReady(j)
       /\ ready' = RemoveFirstMatch(ready, LAMBDA entry : entry.job = j)
       /\ qstate' = IF ready' = <<>> THEN "EMPTY" ELSE "ENTRIES"
       /\ UNCHANGED <<waiting, used, running>>
    \/ /\ ~IsReady(j)
       /\ \E c \in Holders(j) : waiting' = [waiting EXCEPT ![c] = RemoveFirst(@, j)]
       /\ UNCHANGED <<ready, used, running, qstate>>

-----------------------------------------------------------------------------
\* The entries of a category that are submitted, as opposed to waiting.
Submitted(c) ==
    Cardinality({i \in DOMAIN ready : ready[i].category = c})
  + Cardinality({m \in InProcess(running) : running[m].category = c})

\* A slot is taken for every submitted entry and a category never has more of
\* them than its mark: CategoryAdminType::Submit, Extract and Completed keep the
\* count, and the static scheduling promises that only so many jobs of a
\* category are scheduled in parallel (ThunderReleaseNotes_R5.3.md:37).
ParallelBound ==
    \A c \in Categories : Submitted(c) <= used[c] /\ used[c] <= Mark[c]

\* An entry only waits while all slots of its category are taken: a completion
\* promotes at most one entry, and that one is enough.
WorkConserving ==
    \A c \in Categories : waiting[c] # <<>> => used[c] = Mark[c]
=============================================================================
