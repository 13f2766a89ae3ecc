----------------------- MODULE CategoryQueue_proofs -----------------------
(***************************************************************************)
(* Machine-checked facts about the methods of the queue, for every set of  *)
(* jobs, every finite set of minions and every choice of high water marks: *)
(* each of them keeps the types, the bound of every category and the       *)
(* promise that an entry only waits while its category is full.            *)
(***************************************************************************)
EXTENDS CategoryQueue, FiniteSetTheorems, SequenceTheorems, TLAPS

\* The positions of a category in a sequence of entries, and its minions.
Positions(s, c) == {i \in DOMAIN s : s[i].category = c}
Held(r, c) == {m \in InProcess(r) : r[m].category = c}

-----------------------------------------------------------------------------
(* Counting the entries of a category.                                      *)

\* A sequence is finite, and so is a count of its entries.
LEMMA AtFinite ==
    ASSUME NEW s \in Seq(Entry), NEW c
    PROVE  IsFiniteSet(Positions(s, c)) /\ Cardinality(Positions(s, c)) \in Nat
  <1>1. Len(s) \in Nat /\ DOMAIN s = 1..Len(s)
    OBVIOUS
  <1>2. IsFiniteSet(1..Len(s))
    BY <1>1, FS_Interval
  <1>3. Positions(s, c) \in SUBSET (1..Len(s))
    BY <1>1 DEF Positions
  <1>. QED BY <1>2, <1>3, FS_Subset, FS_CardinalityType

LEMMA HeldFinite ==
    ASSUME NEW r, NEW c
    PROVE  IsFiniteSet(Held(r, c)) /\ Cardinality(Held(r, c)) \in Nat
  <1>1. Held(r, c) \in SUBSET Minions
    BY DEF Held, InProcess
  <1>. QED BY <1>1, MinionAssumption, FS_Subset, FS_CardinalityType

\* Submitting an entry adds one to its category and none to the others.
LEMMA AtAppend ==
    ASSUME NEW s \in Seq(Entry), NEW e \in Entry, NEW c
    PROVE  Cardinality(Positions(Append(s, e), c))
              = Cardinality(Positions(s, c)) + (IF e.category = c THEN 1 ELSE 0)
  <1>1. /\ Len(s) \in Nat /\ DOMAIN s = 1..Len(s)
        /\ DOMAIN Append(s, e) = 1..(Len(s) + 1)
        /\ \A i \in 1..Len(s) : Append(s, e)[i] = s[i]
        /\ Append(s, e)[Len(s) + 1] = e
    OBVIOUS
  <1>2. CASE e.category = c
    <2>1. Positions(Append(s, e), c) = Positions(s, c) \cup {Len(s) + 1}
      BY <1>1, <1>2 DEF Positions
    <2>2. Len(s) + 1 \notin Positions(s, c)
      BY <1>1 DEF Positions
    <2>. QED BY <2>1, <2>2, <1>2, AtFinite, FS_AddElement
  <1>3. CASE e.category # c
    <2>1. Positions(Append(s, e), c) = Positions(s, c)
      BY <1>1, <1>3 DEF Positions
    <2>. QED BY <2>1, <1>3, AtFinite
  <1>. QED BY <1>2, <1>3

\* Extracting the first entry takes one away from its category.
LEMMA AtTail ==
    ASSUME NEW s \in Seq(Entry), s # << >>, NEW c
    PROVE  Cardinality(Positions(Tail(s), c)) + (IF Head(s).category = c THEN 1 ELSE 0)
              <= Cardinality(Positions(s, c))
  <1>1. /\ Len(s) \in Nat \ {0} /\ DOMAIN s = 1..Len(s)
        /\ DOMAIN Tail(s) = 1..(Len(s) - 1)
        /\ \A i \in 1..(Len(s) - 1) : Tail(s)[i] = s[i + 1]
        /\ Head(s) = s[1]
    BY HeadTailProperties, EmptySeq, LenProperties
  <1>. DEFINE rest == Positions(s, c) \ {1}
              shift == [i \in Positions(Tail(s), c) |-> i + 1]
  <1>2. shift \in Injection(Positions(Tail(s), c), rest)
    <2>1. shift \in [Positions(Tail(s), c) -> rest]
      BY <1>1 DEF Positions
    <2>2. IsInjective(shift)
      BY <1>1 DEF IsInjective, Positions
    <2>. QED BY <2>1, <2>2 DEF Injection
  <1>3. /\ IsFiniteSet(rest)
        /\ Cardinality(rest) = IF 1 \in Positions(s, c) THEN Cardinality(Positions(s, c)) - 1
                                                ELSE Cardinality(Positions(s, c))
    BY AtFinite, FS_RemoveElement
  <1>4. Cardinality(Positions(Tail(s), c)) <= Cardinality(rest)
    <2>. HIDE DEF rest, shift
    <2>. QED BY <1>2, <1>3, FS_Injection
  <1>5. (Head(s).category = c) <=> (1 \in Positions(s, c))
    BY <1>1 DEF Positions
  <1>6. Cardinality(Positions(Tail(s), c)) \in Nat
    BY AtFinite, HeadTailProperties
  <1>. QED BY <1>3, <1>4, <1>5, <1>6, AtFinite

\* A set of numbers that is not empty has the minimum that Min chooses.
LEMMA MinIn ==
    ASSUME NEW I \in SUBSET Nat, I # {}
    PROVE  Min(I) \in I
  <1>1. \E x \in I : \A y \in I : ~(<<y, x>> \in OpToRel(<, Nat))
    BY WFMin, NatLessThanWellFounded
  <1>2. PICK x \in I : \A y \in I : ~(y < x)
    BY <1>1 DEF OpToRel
  <1>3. \A y \in I : x <= y
    BY <1>2
  <1>. QED BY <1>3 DEF Min

\* Removing a position keeps the other elements, in their order.
LEMMA RemoveAtElements ==
    ASSUME NEW S, NEW s \in Seq(S), NEW k \in 1..Len(s)
    PROVE  /\ RemoveAt(s, k) \in Seq(S)
           /\ Len(RemoveAt(s, k)) = Len(s) - 1
           /\ \A i \in 1..(Len(s) - 1) :
                 RemoveAt(s, k)[i] = IF i < k THEN s[i] ELSE s[i + 1]
  <1>. DEFINE before == SubSeq(s, 1, k - 1)
              after == SubSeq(s, k + 1, Len(s))
  <1>1. /\ before \in Seq(S)
        /\ Len(before) = k - 1
        /\ \A i \in 1..(k - 1) : before[i] = s[i]
    BY SubSeqProperties, ElementOfSeq, LenProperties
  <1>2. /\ after \in Seq(S)
        /\ Len(after) = Len(s) - k
        /\ \A i \in 1..(Len(s) - k) : after[i] = s[i + k]
    BY SubSeqProperties, ElementOfSeq, LenProperties
  <1>3. RemoveAt(s, k) = before \o after
    BY DEF RemoveAt
  <1>. HIDE DEF before, after
  <1>4. /\ before \o after \in Seq(S)
        /\ Len(before \o after) = Len(before) + Len(after)
        /\ \A i \in 1..(Len(before) + Len(after)) :
              (before \o after)[i]
                 = IF i <= Len(before) THEN before[i] ELSE after[i - Len(before)]
    BY <1>1, <1>2, ConcatProperties
  <1>5. Len(before) + Len(after) = Len(s) - 1
    BY <1>1, <1>2, LenProperties
  <1>6. ASSUME NEW i \in 1..(Len(s) - 1)
        PROVE  (before \o after)[i] = IF i < k THEN s[i] ELSE s[i + 1]
    <2>1. CASE i < k
      BY <1>1, <1>4, <1>5, <2>1
    <2>2. CASE ~(i < k)
      <3>1. i - Len(before) \in 1..(Len(s) - k)
        BY <1>1, <2>2, LenProperties
      <3>2. after[i - Len(before)] = s[i + 1]
        BY <1>1, <1>2, <3>1
      <3>. QED BY <1>1, <1>4, <1>5, <2>2, <3>2
    <2>. QED BY <2>1, <2>2
  <1>. QED BY <1>3, <1>4, <1>5, <1>6

\* Removing an entry adds to no category.
LEMMA AtRemoveAt ==
    ASSUME NEW s \in Seq(Entry), NEW k \in 1..Len(s), NEW c
    PROVE  Cardinality(Positions(RemoveAt(s, k), c)) <= Cardinality(Positions(s, c))
  <1>. DEFINE t == RemoveAt(s, k)
              shift == [i \in Positions(t, c) |-> IF i < k THEN i ELSE i + 1]
  <1>1. /\ Len(s) \in Nat /\ DOMAIN s = 1..Len(s)
        /\ t \in Seq(Entry) /\ DOMAIN t = 1..(Len(s) - 1)
        /\ \A i \in 1..(Len(s) - 1) : t[i] = IF i < k THEN s[i] ELSE s[i + 1]
    BY RemoveAtElements, LenProperties
  <1>. HIDE DEF t
  <1>2. shift \in Injection(Positions(t, c), Positions(s, c))
    <2>1. shift \in [Positions(t, c) -> Positions(s, c)]
      BY <1>1 DEF Positions
    <2>2. IsInjective(shift)
      BY <1>1 DEF IsInjective, Positions
    <2>. QED BY <2>1, <2>2 DEF Injection
  <1>3. Cardinality(Positions(t, c)) <= Cardinality(Positions(s, c))
    <2>. HIDE DEF shift
    <2>. QED BY <1>2, AtFinite, FS_Injection
  <1>. QED BY <1>3 DEF t

\* A minion that takes an entry adds one to the category of the entry.
LEMMA HeldAdd ==
    ASSUME NEW r \in [Minions -> Entry \cup {NoJob}], NEW m \in Minions, r[m] = NoJob,
           NEW e \in Entry, NEW c
    PROVE  Cardinality(Held([r EXCEPT ![m] = e], c))
              = Cardinality(Held(r, c)) + (IF e.category = c THEN 1 ELSE 0)
  <1>1. e # NoJob
    BY JobAssumption DEF Entry
  <1>2. CASE e.category = c
    <2>1. Held([r EXCEPT ![m] = e], c) = Held(r, c) \cup {m}
      BY <1>1, <1>2 DEF Held, InProcess
    <2>2. m \notin Held(r, c)
      BY DEF Held, InProcess
    <2>. QED BY <2>1, <2>2, <1>2, HeldFinite, FS_AddElement
  <1>3. CASE e.category # c
    <2>1. Held([r EXCEPT ![m] = e], c) = Held(r, c)
      BY <1>1, <1>3 DEF Held, InProcess
    <2>. QED BY <2>1, <1>3, HeldFinite
  <1>. QED BY <1>2, <1>3

\* A minion that is done with its entry takes one away.
LEMMA HeldRemove ==
    ASSUME NEW r \in [Minions -> Entry \cup {NoJob}], NEW m \in Minions, r[m] # NoJob,
           NEW c
    PROVE  Cardinality(Held([r EXCEPT ![m] = NoJob], c))
              = Cardinality(Held(r, c)) - (IF r[m].category = c THEN 1 ELSE 0)
  <1>1. Held([r EXCEPT ![m] = NoJob], c) = Held(r, c) \ {m}
    BY DEF Held, InProcess
  <1>2. CASE r[m].category = c
    <2>1. m \in Held(r, c)
      BY <1>2 DEF Held, InProcess
    <2>2. Cardinality(Held(r, c) \ {m}) = Cardinality(Held(r, c)) - 1
      BY <2>1, HeldFinite, FS_RemoveElement
    <2>. QED BY <1>1, <1>2, <2>2
  <1>3. CASE r[m].category # c
    <2>1. m \notin Held(r, c)
      BY <1>3 DEF Held, InProcess
    <2>2. Held(r, c) \ {m} = Held(r, c)
      BY <2>1
    <2>3. Cardinality(Held(r, c)) \in Nat
      BY HeldFinite
    <2>4. Cardinality(Held(r, c)) - 0 = Cardinality(Held(r, c))
      BY <2>3
    <2>. QED BY <1>1, <1>3, <2>2, <2>4, Zenon
  <1>. QED BY <1>2, <1>3

-----------------------------------------------------------------------------
(* The inductive invariant of the queue.  WorkConserving needs the bound: a *)
(* completion leaves room only in the category of its own entry, because    *)
(* that one has a slot to give back, and the others are full or have        *)
(* nothing that waits.                                                      *)
QueueInv == QueueTypeOK /\ ParallelBound /\ WorkConserving

\* ParallelBound as a fact about the values of the variables.
Bounded(s, r, u) ==
    \A c \in Categories :
        /\ Cardinality(Positions(s, c)) + Cardinality(Held(r, c)) <= u[c]
        /\ u[c] <= Mark[c]

LEMMA BoundedReading ==
    /\ ParallelBound <=> Bounded(ready, running, used)
    /\ ParallelBound' <=> Bounded(ready', running', used')
  BY DEF ParallelBound, Bounded, Submitted, Positions, Held, InProcess

LEMMA QueueInitInv ==
    ASSUME QueueInit
    PROVE  QueueInv
  <1>1. QueueTypeOK
    BY DEF QueueInit, QueueTypeOK
  <1>2. ASSUME NEW c \in Categories
        PROVE  Cardinality(Positions(ready, c)) + Cardinality(Held(running, c)) = 0
    <2>1. Positions(ready, c) = {}
      BY DEF QueueInit, Positions
    <2>2. Held(running, c) = {}
      BY DEF QueueInit, Held, InProcess
    <2>. QED BY <2>1, <2>2, FS_EmptySet
  <1>3. ParallelBound
    BY <1>2, BoundedReading, MarkAssumption DEF Bounded, QueueInit
  <1>4. WorkConserving
    BY DEF QueueInit, WorkConserving
  <1>. QED BY <1>1, <1>3, <1>4 DEF QueueInv

\* Submit keeps the invariant: it takes a slot while there is one, or waits
\* because there is none.
LEMMA AdmitInv ==
    ASSUME QueueInv, NEW j \in Jobs, NEW c \in Categories, Admit(j, c),
           qstate' \in {"EMPTY", "ENTRIES", "LIMITED"}
    PROVE  QueueInv'
  <1>. USE DEF QueueInv
  <1>1. CASE /\ used[c] = Mark[c]
             /\ waiting' = [waiting EXCEPT ![c] = Append(@, j)]
             /\ UNCHANGED <<ready, used, running>>
    <2>1. QueueTypeOK'
      BY <1>1 DEF QueueTypeOK
    <2>2. ParallelBound'
      BY <1>1, BoundedReading
    <2>3. WorkConserving'
      BY <1>1 DEF WorkConserving, QueueTypeOK
    <2>. QED BY <2>1, <2>2, <2>3
  <1>2. CASE /\ used[c] # Mark[c]
             /\ ready' = Append(ready, [category |-> c, job |-> j])
             /\ used' = [used EXCEPT ![c] = @ + 1]
             /\ UNCHANGED <<waiting, running>>
    <2>. DEFINE e == [category |-> c, job |-> j]
    <2>1. e \in Entry /\ e.category = c /\ ready \in Seq(Entry)
      BY DEF Entry, QueueTypeOK
    <2>. HIDE DEF e
    <2>2. QueueTypeOK'
      BY <1>2 DEF QueueTypeOK, Entry
    <2>3. ASSUME NEW d \in Categories
          PROVE  /\ Cardinality(Positions(ready', d)) + Cardinality(Held(running', d)) <= used'[d]
                 /\ used'[d] <= Mark[d]
      <3>1. /\ Cardinality(Positions(ready, d)) + Cardinality(Held(running, d)) <= used[d]
            /\ used[d] <= Mark[d]
        BY BoundedReading DEF Bounded
      <3>2. Cardinality(Positions(ready', d))
               = Cardinality(Positions(ready, d)) + (IF e.category = d THEN 1 ELSE 0)
        BY <1>2, <2>1, AtAppend DEF e
      <3>3. /\ Cardinality(Positions(ready, d)) \in Nat /\ Cardinality(Held(running, d)) \in Nat
            /\ used[d] \in Nat /\ Mark[d] \in Nat
        BY <2>1, AtFinite, HeldFinite, MarkAssumption DEF QueueTypeOK
      <3>4. used'[d] = used[d] + (IF e.category = d THEN 1 ELSE 0)
        BY <1>2, <2>1, <3>3 DEF QueueTypeOK
      <3>5. running' = running
        BY <1>2
      <3>6. CASE e.category = d
        <4>1. used[d] # Mark[d]
          BY <1>2, <2>1, <3>6
        <4>2. Cardinality(Positions(ready', d)) = Cardinality(Positions(ready, d)) + 1
          BY <3>2, <3>6, Zenon
        <4>3. used'[d] = used[d] + 1
          BY <3>4, <3>6, Zenon
        <4>. QED BY <3>1, <3>3, <3>5, <4>1, <4>2, <4>3
      <3>7. CASE e.category # d
        <4>1. Cardinality(Positions(ready', d)) = Cardinality(Positions(ready, d)) + 0
          BY <3>2, <3>7, Zenon
        <4>2. used'[d] = used[d] + 0
          BY <3>4, <3>7, Zenon
        <4>. QED BY <3>1, <3>3, <3>5, <4>1, <4>2
      <3>. QED BY <3>6, <3>7
    <2>4. ParallelBound'
      BY <2>3, BoundedReading DEF Bounded
    <2>5. WorkConserving'
      BY <1>2 DEF WorkConserving, QueueTypeOK
    <2>. QED BY <2>2, <2>4, <2>5
  <1>. QED BY <1>1, <1>2 DEF Admit

\* What a thread submits goes through Post or through Insert.
LEMMA PostInv ==
    ASSUME QueueInv, NEW j \in Jobs, NEW c \in Categories, Post(j, c)
    PROVE  QueueInv'
  <1>1. qstate' \in {"EMPTY", "ENTRIES", "LIMITED"}
    BY DEF Post, Filled
  <1>. QED BY <1>1, AdmitInv DEF Post

LEMMA InsertInv ==
    ASSUME QueueInv, NEW j \in Jobs, NEW c \in Categories, Insert(j, c)
    PROVE  QueueInv'
  <1>1. qstate' \in {"EMPTY", "ENTRIES", "LIMITED"}
    <2>1. CASE ready' = ready
      BY <2>1 DEF Insert, QueueInv, QueueTypeOK
    <2>2. CASE ready' # ready
      BY <2>2 DEF Insert, Filled
    <2>. QED BY <2>1, <2>2
  <1>. QED BY <1>1, AdmitInv DEF Insert

\* Extract moves an entry from the queue to a minion, with its slot.
LEMMA ExtractInv ==
    ASSUME QueueInv, NEW m \in Minions, Extract(m)
    PROVE  QueueInv'
  <1>. USE DEF QueueInv
  <1>1. /\ ready \in Seq(Entry) /\ ready # << >>
        /\ running \in [Minions -> Entry \cup {NoJob}] /\ running[m] = NoJob
        /\ running' = [running EXCEPT ![m] = Head(ready)]
        /\ ready' = Tail(ready) /\ used' = used /\ waiting' = waiting
    BY DEF Extract, QueueTypeOK
  <1>2. Head(ready) \in Entry /\ Tail(ready) \in Seq(Entry)
    BY <1>1, HeadTailProperties
  <1>3. QueueTypeOK'
    <2>1. qstate' \in {"EMPTY", "ENTRIES", "LIMITED"}
      BY DEF Extract, Settled
    <2>. QED BY <1>1, <1>2, <2>1 DEF QueueTypeOK
  <1>4. ASSUME NEW d \in Categories
        PROVE  /\ Cardinality(Positions(ready', d)) + Cardinality(Held(running', d)) <= used'[d]
               /\ used'[d] <= Mark[d]
    <2>1. /\ Cardinality(Positions(ready, d)) + Cardinality(Held(running, d)) <= used[d]
          /\ used[d] <= Mark[d]
      BY BoundedReading DEF Bounded
    <2>. DEFINE one == IF Head(ready).category = d THEN 1 ELSE 0
    <2>2. Cardinality(Positions(ready', d)) + one <= Cardinality(Positions(ready, d))
      BY <1>1, AtTail
    <2>3. Cardinality(Held(running', d)) = Cardinality(Held(running, d)) + one
      BY <1>1, <1>2, HeldAdd
    <2>4. /\ Cardinality(Positions(ready, d)) \in Nat /\ Cardinality(Held(running, d)) \in Nat
          /\ Cardinality(Positions(ready', d)) \in Nat
          /\ used[d] \in Nat /\ one \in Nat
      BY <1>1, <1>2, AtFinite, HeldFinite DEF QueueTypeOK
    <2>. HIDE DEF one
    <2>. QED BY <1>1, <2>1, <2>2, <2>3, <2>4
  <1>5. ParallelBound'
    BY <1>4, BoundedReading DEF Bounded
  <1>6. WorkConserving'
    BY <1>1 DEF WorkConserving
  <1>. QED BY <1>3, <1>5, <1>6

\* The job is taken out of the deque of the first category that holds it, from
\* one of its places there ...
LEMMA RemoveFirstAt ==
    ASSUME NEW S, NEW s \in Seq(S), NEW e, \E i \in 1..Len(s) : s[i] = e
    PROVE  \E k \in 1..Len(s) : s[k] = e /\ RemoveFirst(s, e) = RemoveAt(s, k)
  <1>. DEFINE I == {i \in 1..Len(s) : s[i] = e}
  <1>1. I \in SUBSET Nat /\ I # {}
    BY LenProperties
  <1>2. Min(I) \in I
    <2>. HIDE DEF I
    <2>. QED BY <1>1, MinIn
  <1>3. RemoveFirst(s, e) = RemoveAt(s, Min(I))
    BY <1>1 DEF RemoveFirst, SelectInSeq
  <1>. QED BY <1>2, <1>3

\* ... or out of the queue.
LEMMA RemoveReadyAt ==
    ASSUME ready \in Seq(Entry), NEW j, IsReady(j),
           ready' = RemoveFirstMatch(ready, LAMBDA entry : entry.job = j)
    PROVE  \E k \in 1..Len(ready) : ready[k].job = j /\ ready' = RemoveAt(ready, k)
  <1>. DEFINE I == {i \in 1..Len(ready) : ready[i].job = j}
  <1>1. I \in SUBSET Nat /\ I # {} /\ \E i \in 1..Len(ready) : ready[i].job = j
    BY LenProperties DEF IsReady
  <1>2. Min(I) \in I
    <2>. HIDE DEF I
    <2>. QED BY <1>1, MinIn
  <1>3. ready' = RemoveAt(ready, Min(I))
    BY <1>1 DEF RemoveFirstMatch, SelectInSeq
  <1>. QED BY <1>2, <1>3

LEMMA RemoveFirstType ==
    ASSUME NEW S, NEW s \in Seq(S), NEW e
    PROVE  RemoveFirst(s, e) \in Seq(S)
  <1>1. CASE \E i \in 1..Len(s) : s[i] = e
    <2>1. PICK k \in 1..Len(s) : RemoveFirst(s, e) = RemoveAt(s, k)
      BY <1>1, RemoveFirstAt
    <2>. QED BY <2>1, RemoveAtElements
  <1>2. CASE ~\E i \in 1..Len(s) : s[i] = e
    BY <1>2 DEF RemoveFirst
  <1>. QED BY <1>1, <1>2

\* Remove never takes a slot: a ready entry even leaves its own behind.
LEMMA RemoveEntryInv ==
    ASSUME QueueInv, NEW j \in Jobs, RemoveEntry(j)
    PROVE  QueueInv'
  <1>. USE DEF QueueInv
  <1>1. CASE /\ IsReady(j)
             /\ ready' = RemoveFirstMatch(ready, LAMBDA entry : entry.job = j)
             /\ qstate' = IF ready' = <<>> THEN "EMPTY" ELSE "ENTRIES"
             /\ UNCHANGED <<waiting, used, running>>
    <2>1. ready \in Seq(Entry)
      BY DEF QueueTypeOK
    <2>2. PICK k \in 1..Len(ready) : ready' = RemoveAt(ready, k)
      BY <1>1, <2>1, RemoveReadyAt
    <2>3. ready' \in Seq(Entry)
      BY <2>1, <2>2, RemoveAtElements
    <2>4. QueueTypeOK'
      BY <1>1, <2>3 DEF QueueTypeOK
    <2>5. ASSUME NEW d \in Categories
          PROVE  /\ Cardinality(Positions(ready', d)) + Cardinality(Held(running', d)) <= used'[d]
                 /\ used'[d] <= Mark[d]
      <3>1. /\ Cardinality(Positions(ready, d)) + Cardinality(Held(running, d)) <= used[d]
            /\ used[d] <= Mark[d]
        BY BoundedReading DEF Bounded
      <3>2. Cardinality(Positions(ready', d)) <= Cardinality(Positions(ready, d))
        BY <2>1, <2>2, AtRemoveAt
      <3>3. /\ Cardinality(Positions(ready, d)) \in Nat /\ Cardinality(Held(running, d)) \in Nat
            /\ Cardinality(Positions(ready', d)) \in Nat /\ used[d] \in Nat
        BY <2>1, <2>3, AtFinite, HeldFinite DEF QueueTypeOK
      <3>. QED BY <1>1, <3>1, <3>2, <3>3
    <2>6. ParallelBound'
      BY <2>5, BoundedReading DEF Bounded
    <2>7. WorkConserving'
      BY <1>1 DEF WorkConserving
    <2>. QED BY <2>4, <2>6, <2>7
  <1>2. ASSUME NEW c \in Holders(j), waiting' = [waiting EXCEPT ![c] = RemoveFirst(@, j)],
               UNCHANGED <<ready, used, running, qstate>>
        PROVE  QueueInv'
    <2>1. c \in Categories /\ waiting[c] \in Seq(Jobs) /\ Contains(waiting[c], j)
      BY DEF Holders, QueueTypeOK
    <2>2. waiting[c] # << >>
      BY <2>1 DEF Contains
    <2>3. RemoveFirst(waiting[c], j) \in Seq(Jobs)
      BY <2>1, RemoveFirstType
    <2>4. QueueTypeOK'
      BY <1>2, <2>1, <2>3 DEF QueueTypeOK
    <2>5. ParallelBound'
      BY <1>2, BoundedReading
    <2>6. WorkConserving'
      BY <1>2, <2>1, <2>2 DEF WorkConserving, QueueTypeOK
    <2>. QED BY <2>4, <2>5, <2>6
  <1>. QED BY <1>1, <1>2 DEF RemoveEntry

\* Completion gives the slot of its entry back, or hands it to an entry that
\* waits: nothing else can be promoted.
LEMMA CompletionInv ==
    ASSUME QueueInv, NEW m \in Minions, Completion(m)
    PROVE  QueueInv'
  <1>. USE DEF QueueInv
  <1>. DEFINE own == running[m].category
              freed == [used EXCEPT ![own] = @ - 1]
  <1>1. /\ running[m] \in Entry /\ own \in Categories
        /\ running \in [Minions -> Entry \cup {NoJob}] /\ running[m] # NoJob
        /\ running' = [running EXCEPT ![m] = NoJob]
        /\ ready \in Seq(Entry) /\ used \in [Categories -> Nat]
        /\ waiting \in [Categories -> Seq(Jobs)]
    BY DEF Completion, QueueTypeOK, Entry
  <1>2. \/ Promoted(freed) = {} /\ used' = freed /\ UNCHANGED <<ready, waiting>>
        \/ \E c \in Promoted(freed) :
              /\ ready' = Append(ready, [category |-> c, job |-> Head(waiting[c])])
              /\ waiting' = [waiting EXCEPT ![c] = Tail(@)]
              /\ used' = [freed EXCEPT ![c] = @ + 1]
    BY DEF Completion
  <1>3. running' \in [Minions -> Entry \cup {NoJob}]
    BY <1>1
  <1>4. qstate' \in {"EMPTY", "ENTRIES", "LIMITED"}
    BY DEF Completion, Settled
  <1>. HIDE DEF own
  <1>5. ASSUME NEW d \in Categories
        PROVE  /\ Cardinality(Positions(ready, d)) \in Nat
               /\ Cardinality(Held(running, d)) \in Nat
               /\ Cardinality(Held(running', d)) \in Nat
               /\ used[d] \in Nat /\ Mark[d] \in Nat \ {0}
               /\ Cardinality(Positions(ready, d)) + Cardinality(Held(running, d)) <= used[d]
               /\ used[d] <= Mark[d]
    <2>1. /\ Cardinality(Positions(ready, d)) + Cardinality(Held(running, d)) <= used[d]
          /\ used[d] <= Mark[d]
      BY BoundedReading DEF Bounded
    <2>. QED BY <1>1, <2>1, AtFinite, HeldFinite, MarkAssumption
  <1>6. Cardinality(Held(running', own)) = Cardinality(Held(running, own)) - 1
    <2>1. Cardinality(Held(running', own))
             = Cardinality(Held(running, own)) - (IF own = own THEN 1 ELSE 0)
      BY <1>1, HeldRemove DEF own
    <2>. QED BY <2>1, Zenon
  <1>7. ASSUME NEW d \in Categories, d # own
        PROVE  Cardinality(Held(running', d)) = Cardinality(Held(running, d))
    <2>1. Cardinality(Held(running', d))
             = Cardinality(Held(running, d)) - (IF own = d THEN 1 ELSE 0)
      BY <1>1, HeldRemove DEF own
    <2>2. Cardinality(Held(running', d)) = Cardinality(Held(running, d)) - 0
      BY <1>7, <2>1, Zenon
    <2>. QED BY <1>5, <2>2
  \* The entry had a slot.
  <1>8. used[own] - 1 \in Nat
    BY <1>1, <1>5, <1>6
  <1>9. /\ freed \in [Categories -> Nat] /\ freed[own] = used[own] - 1
        /\ \A d \in Categories : d # own => freed[d] = used[d]
    BY <1>1, <1>8
  <1>10. ASSUME NEW d \in Categories
         PROVE  /\ Cardinality(Positions(ready, d)) + Cardinality(Held(running', d)) <= freed[d]
                /\ freed[d] <= Mark[d]
    <2>1. CASE d = own
      BY <1>1, <1>5, <1>6, <1>9, <2>1
    <2>2. CASE d # own
      BY <1>5, <1>7, <1>9, <2>2
    <2>. QED BY <2>1, <2>2
  <1>. HIDE DEF freed
  \* Only the category of the entry has room for one that waits.
  <1>11. ASSUME NEW d \in Categories, waiting[d] # << >>
         PROVE  used[d] = Mark[d]
    BY <1>11 DEF WorkConserving
  <1>12. ASSUME NEW d \in Categories
         PROVE  CanPromote(d, freed) <=> (d = own /\ waiting[d] # << >>)
    <2>1. CASE d = own
      BY <1>5, <1>8, <1>9, <1>11, <2>1 DEF CanPromote
    <2>2. CASE d # own
      <3>1. CanPromote(d, freed) <=> (waiting[d] # << >> /\ used[d] < Mark[d])
        BY <1>9, <2>2 DEF CanPromote
      <3>. QED BY <1>5, <1>11, <2>2, <3>1
    <2>. QED BY <2>1, <2>2
  <1>13. Promoted(freed) = {c \in {own} : waiting[c] # << >>}
    <2>1. Promoted(freed) \subseteq {c \in {own} : waiting[c] # << >>}
      BY <1>12 DEF Promoted
    <2>2. ASSUME waiting[own] # << >>
          PROVE  own \in Promoted(freed)
      <3>1. CanPromote(own, freed)
        BY <1>1, <1>12, <2>2
      <3>2. ASSUME NEW i \in DOMAIN Urgency, NEW k \in DOMAIN Urgency,
                   Urgency[k] = own, i < k
            PROVE  ~CanPromote(Urgency[i], freed)
        <4>1. /\ Urgency[i] \in Categories /\ Urgency[i] # Urgency[k]
          BY <3>2 DEF Urgency, Categories
        <4>. QED BY <1>12, <3>2, <4>1
      <3>. QED BY <1>1, <3>1, <3>2 DEF Promoted
    <2>. QED BY <2>1, <2>2
  <1>14. CASE waiting[own] = << >>
    <2>1. used' = freed /\ ready' = ready /\ waiting' = waiting
      BY <1>2, <1>13, <1>14
    <2>2. QueueTypeOK'
      BY <1>1, <1>3, <1>4, <1>9, <2>1 DEF QueueTypeOK
    <2>3. ParallelBound'
      BY <1>10, <2>1, BoundedReading DEF Bounded
    <2>4. WorkConserving'
      BY <1>9, <1>11, <1>14, <2>1 DEF WorkConserving
    <2>. QED BY <2>2, <2>3, <2>4
  <1>15. CASE waiting[own] # << >>
    <2>. DEFINE e == [category |-> own, job |-> Head(waiting[own])]
    <2>1. /\ ready' = Append(ready, e)
          /\ waiting' = [waiting EXCEPT ![own] = Tail(@)]
          /\ used' = [freed EXCEPT ![own] = @ + 1]
      BY <1>2, <1>13, <1>15
    <2>2. Head(waiting[own]) \in Jobs /\ Tail(waiting[own]) \in Seq(Jobs)
      BY <1>1, <1>15, HeadTailProperties
    <2>3. e \in Entry /\ e.category = own
      BY <1>1, <2>2 DEF Entry
    <2>. HIDE DEF e
    <2>4. used' = used
      <3>1. ASSUME NEW d \in Categories PROVE used'[d] = used[d]
        <4>1. CASE d = own
          <5>1. used'[own] = freed[own] + 1
            BY <1>1, <1>9, <2>1
          <5>2. used[own] \in Nat
            BY <1>1
          <5>. QED BY <1>9, <4>1, <5>1, <5>2
        <4>2. CASE d # own
          BY <1>9, <2>1, <4>2
        <4>. QED BY <4>1, <4>2
      <3>2. used' \in [Categories -> Nat]
        BY <1>1, <1>8, <1>9, <2>1
      <3>. QED BY <1>1, <3>1, <3>2
    <2>5. QueueTypeOK'
      <3>1. ready' \in Seq(Entry)
        BY <1>1, <2>1, <2>3
      <3>2. waiting' \in [Categories -> Seq(Jobs)]
        BY <1>1, <2>1, <2>2
      <3>. QED BY <1>1, <1>3, <1>4, <2>4, <3>1, <3>2 DEF QueueTypeOK
    <2>6. ASSUME NEW d \in Categories
          PROVE  /\ Cardinality(Positions(ready', d)) + Cardinality(Held(running', d)) <= used'[d]
                 /\ used'[d] <= Mark[d]
      <3>1. Cardinality(Positions(ready', d))
               = Cardinality(Positions(ready, d)) + (IF own = d THEN 1 ELSE 0)
        BY <1>1, <2>1, <2>3, AtAppend
      <3>2. CASE d = own
        <4>1. Cardinality(Positions(ready', d)) = Cardinality(Positions(ready, d)) + 1
          BY <3>1, <3>2, Zenon
        <4>. QED BY <1>5, <1>6, <2>4, <3>2, <4>1
      <3>3. CASE d # own
        <4>1. Cardinality(Positions(ready', d)) = Cardinality(Positions(ready, d)) + 0
          BY <3>1, <3>3, Zenon
        <4>. QED BY <1>5, <1>7, <2>4, <3>3, <4>1
      <3>. QED BY <3>2, <3>3
    <2>7. ParallelBound'
      BY <2>6, BoundedReading DEF Bounded
    <2>8. WorkConserving'
      <3>1. ASSUME NEW d \in Categories, waiting'[d] # << >>
            PROVE  waiting[d] # << >>
        BY <1>1, <1>15, <2>1, <3>1
      <3>. QED BY <1>11, <2>4, <3>1 DEF WorkConserving
    <2>. QED BY <2>5, <2>7, <2>8
  <1>. QED BY <1>14, <1>15

=============================================================================
