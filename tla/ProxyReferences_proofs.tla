---------------------- MODULE ProxyReferences_proofs ----------------------
(***************************************************************************)
(* Machine-checked proofs about ProxyReferences: the types, that nobody    *)
(* works on a deleted proxy, the account of the references, that what a    *)
(* call returns is sound, and that the counting implements SharedObject.   *)
(* They hold for every finite set of threads and of calls, every number of *)
(* proxies and every setup, with all the windows the code leaves open: the *)
(* windows a behaviour has hit are in slips, and the properties name them. *)
(*                                                                         *)
(* The proof is laid out as the inductive invariant is: first what holds   *)
(* of the proxies and of the calls whatever windows are hit, then the      *)
(* modes and the account while none has been, and the refinement last.     *)
(***************************************************************************)
EXTENDS ProxyReferences, FiniteSetTheorems, SequenceTheorems, TLAPS

-----------------------------------------------------------------------------
(* The sum over the proxies, and over the calls.                            *)

\* What one proxy adds to the pairs, and the pairs of the others.
LEMMA PairsSplit ==
    ASSUME NEW S, IsFiniteSet(S), NEW f \in [S -> Nat], NEW p \in S
    PROVE  /\ Pairs(S, f) = Pairs(S, [f EXCEPT ![p] = 0]) \cup ({p} \X (1 .. f[p]))
           /\ Pairs(S, [f EXCEPT ![p] = 0]) \cap ({p} \X (1 .. f[p])) = {}
  <1> DEFINE g == [f EXCEPT ![p] = 0]
  <1>1. g[p] = 0 /\ \A q \in S : q # p => g[q] = f[q]
    OBVIOUS
  <1>2. 1 .. g[p] = {}
    BY <1>1
  <1> HIDE DEF g
  <1>3. ASSUME NEW x
        PROVE  x \in Pairs(S, f) <=> x \in Pairs(S, g) \/ x \in {p} \X (1 .. f[p])
    BY <1>1, <1>2 DEF Pairs
  <1>4. ASSUME NEW x \in Pairs(S, g)
        PROVE  x \notin {p} \X (1 .. f[p])
    BY <1>1, <1>2 DEF Pairs
  <1> QED BY <1>3, <1>4 DEF g

\* There are finitely many pairs.
LEMMA PairsFinite ==
    ASSUME NEW S, IsFiniteSet(S), NEW f \in [S -> Nat]
    PROVE  IsFiniteSet(Pairs(S, f))
  <1> DEFINE All == {{p} \X (1 .. f[p]) : p \in S}
             g == [p \in S |-> {p} \X (1 .. f[p])]
  <1>1. g \in Surjection(S, All)
    BY DEF Surjection
  <1>2. IsFiniteSet(All)
    BY <1>1, FS_Surjection
  <1>3. ASSUME NEW T \in All
        PROVE  IsFiniteSet(T)
    <2>1. PICK p \in S : T = {p} \X (1 .. f[p])
      BY <1>3
    <2>2. IsFiniteSet({p})
      BY FS_Singleton
    <2>3. f[p] \in Int
      OBVIOUS
    <2>4. IsFiniteSet(1 .. f[p])
      BY <2>3, FS_Interval
    <2>5. IsFiniteSet({p} \X (1 .. f[p]))
      BY <2>2, <2>4, FS_Product
    <2> QED BY <2>1, <2>5
  <1> HIDE DEF All
  <1>4. IsFiniteSet(UNION All)
    BY <1>2, <1>3, FS_UNION
  <1> QED BY <1>4 DEF All, Pairs

\* The sum is the share of one proxy and that of the others.
LEMMA TotalSplit ==
    ASSUME NEW S, IsFiniteSet(S), NEW f \in [S -> Nat], NEW p \in S
    PROVE  /\ Total(S, [f EXCEPT ![p] = 0]) \in Nat
           /\ Total(S, f) = Total(S, [f EXCEPT ![p] = 0]) + f[p]
  <1> DEFINE A == Pairs(S, [f EXCEPT ![p] = 0])
             B == {p} \X (1 .. f[p])
  <1>1. IsFiniteSet(A)
    BY PairsFinite
  <1>2. IsFiniteSet({p}) /\ Cardinality({p}) = 1
    BY FS_Singleton
  <1>3. IsFiniteSet(1 .. f[p]) /\ Cardinality(1 .. f[p]) = f[p]
    <2>1. f[p] \in Nat
      OBVIOUS
    <2> QED BY <2>1, FS_Interval
  <1>4. IsFiniteSet(B) /\ Cardinality(B) = f[p]
    <2>1. IsFiniteSet(B) /\ Cardinality(B) = Cardinality({p}) * Cardinality(1 .. f[p])
      BY <1>2, <1>3, FS_Product
    <2> QED BY <1>2, <1>3, <2>1
  <1>5. Cardinality(A) \in Nat
    BY <1>1, FS_CardinalityType
  <1>6. A \cap B = {} /\ Pairs(S, f) = A \cup B
    BY PairsSplit
  <1>7. Cardinality({}) = 0
    BY FS_EmptySet
  <1>8. Cardinality(A \cup B) = Cardinality(A) + Cardinality(B) - Cardinality(A \cap B)
    <2> HIDE DEF A, B
    <2> QED BY <1>1, <1>4, FS_Union
  <1> HIDE DEF A, B
  <1>9. Cardinality(Pairs(S, f)) = Cardinality(A) + f[p]
    <2>1. f[p] \in Nat
      OBVIOUS
    <2>2. Cardinality(A \cap B) = 0 /\ Cardinality(Pairs(S, f)) = Cardinality(A \cup B)
      BY <1>6, <1>7, Zenon
    <2> QED BY <1>4, <1>5, <1>8, <2>1, <2>2
  <1> QED BY <1>5, <1>9 DEF A, Total

\* Another share of one proxy changes the sum by the difference.
LEMMA TotalChange ==
    ASSUME NEW S, IsFiniteSet(S), NEW f \in [S -> Nat], NEW g \in [S -> Nat], NEW p \in S,
           \A q \in S : q # p => g[q] = f[q]
    PROVE  Total(S, f) \in Nat /\ Total(S, g) = Total(S, f) - f[p] + g[p]
  <1>1. [f EXCEPT ![p] = 0] = [g EXCEPT ![p] = 0]
    OBVIOUS
  <1>2. /\ Total(S, [f EXCEPT ![p] = 0]) \in Nat
        /\ Total(S, f) = Total(S, [f EXCEPT ![p] = 0]) + f[p]
    BY TotalSplit
  <1>3. Total(S, g) = Total(S, [g EXCEPT ![p] = 0]) + g[p]
    BY TotalSplit
  <1>4. f[p] \in Nat /\ g[p] \in Nat
    OBVIOUS
  <1> QED BY <1>1, <1>2, <1>3, <1>4

\* The shares of two proxies are part of the sum.
LEMMA TotalTwo ==
    ASSUME NEW S, IsFiniteSet(S), NEW f \in [S -> Nat], NEW p \in S
    PROVE  /\ Total(S, f) >= f[p]
           /\ \A q \in S : q # p => Total(S, f) >= f[p] + f[q]
  <1> DEFINE g == [f EXCEPT ![p] = 0]
  <1>1. g \in [S -> Nat] /\ \A q \in S : q # p => g[q] = f[q]
    OBVIOUS
  <1>2. Total(S, g) \in Nat /\ Total(S, f) = Total(S, g) + f[p]
    BY TotalSplit
  <1> HIDE DEF g
  <1>3. ASSUME NEW q \in S
        PROVE  Total(S, g) >= g[q]
    <2>1. Total(S, [g EXCEPT ![q] = 0]) \in Nat /\ Total(S, g) = Total(S, [g EXCEPT ![q] = 0]) + g[q]
      BY <1>1, TotalSplit
    <2> QED BY <1>1, <2>1
  <1>4. f[p] \in Nat
    OBVIOUS
  <1> QED BY <1>1, <1>2, <1>3, <1>4

\* Nothing is owed when no proxy owes anything.
LEMMA TotalZero ==
    ASSUME NEW S, IsFiniteSet(S), NEW f \in [S -> Nat], \A p \in S : f[p] = 0
    PROVE  Total(S, f) = 0
  <1>1. Pairs(S, f) = {}
    BY DEF Pairs
  <1> QED BY <1>1, FS_EmptySet DEF Total

-----------------------------------------------------------------------------
(* The invariant.                                                           *)

HoldersOf(p) == {u \in Users : user[u].at = "holds" /\ user[u].p = p}
Inside(p) == inbound.at = "inside" /\ inbound.p = p
Finishing(p) == inbound.at = "gap" /\ inbound.gone /\ inbound.p = p
Listed(p) == \E i \in DOMAIN known : known[i] = p

\* Those who refer to a proxy.
Refs(p) == Cardinality(HoldersOf(p)) + One(kept = p) + One(Inside(p)) + One(p \in dead)

\* Complete is not at work on a proxy, or its last reference went in the gap.
Apart(p) == inbound.p = p => inbound.at = "gap" /\ ~ inbound.gone /\ "gap" \in slips

\* The four conditions a proxy can be in.  It is not there; somebody refers to
\* it; its last reference is being dropped by a thread, or by Complete.
Absent(p) ==
    /\ proxy[p] = NoProxy /\ ~ Listed(p) /\ Refs(p) = 0
    /\ Apart(p) /\ \A u \in Users : user[u].p # p
Live(p) ==
    /\ Refs(p) >= 1 /\ proxy[p].count = 1 + Refs(p)
    /\ ~ proxy[p].lock /\ ~ Finishing(p) /\ proxy[p].remote >= 1
    /\ \A u \in Users : user[u].p = p => user[u].at = "holds"
Ending(p, u) ==
    /\ Refs(p) = 0 /\ proxy[p].count = 1 /\ proxy[p].remote >= 1 /\ Apart(p)
    /\ user[u].p = p /\ \A v \in Users : user[v].p = p => v = u
    /\ \/ /\ user[u].at \in {"releasing", "telling", "shutting"}
          /\ proxy[p].lock /\ proxy[p].channel /\ proxy[p].mode = {}
       \/ user[u].at = "leaving" /\ ~ proxy[p].lock /\ ~ proxy[p].channel
Finished(p) ==
    /\ Refs(p) = 0 /\ proxy[p].count = 1 /\ Finishing(p) /\ ~ Listed(p)
    /\ ~ proxy[p].channel /\ ~ proxy[p].lock /\ proxy[p].remote >= 1
    /\ \A v \in Users : user[v].p # p

\* ... and what the channel knows of it.
OnChannel(p) ==
    /\ p \in dead => ~ proxy[p].channel /\ ~ Listed(p)
    /\ proxy[p].count >= 2 /\ link # "deleted" => proxy[p].channel
    /\ proxy[p].channel => Listed(p)

ProxyInv(p) ==
    /\ Absent(p) \/ Live(p) \/ (\E u \in Users : Ending(p, u)) \/ Finished(p)
    /\ OnChannel(p)

\* Who refers to a proxy, and where an offer can be.
PlaceInv ==
    /\ \A u \in Users :
        /\ user[u].at \in {"idle", "asking", "returned"} => user[u].p = None
        /\ user[u].at \in {"holds", "releasing", "telling", "leaving"} => user[u].p # None
    /\ inbound.p = None <=> inbound.at \notin {"inside", "gap"}
    /\ inbound.gone => inbound.at = "gap"
    /\ inbound.cached # "none" => inbound.at = "answer"
    /\ inbound.at \in {"sent", "answer"} => link = "open"
    /\ dead # {} => link = "deleted"

\* A message is as it was made, and who waits for it is where it was made.
MessageIs(m, channel, threads) ==
    /\ m.kind = "none" => m = NoCall
    /\ m.kind # "none" => m.stage # "none"
    /\ m.stage \in {"sent", "answered"} => channel = "open"
    /\ m.kind = "get" => m.refs \in {0, 1} /\ (m.refs = 1 => m.stage = "answered")
    /\ m.kind = "release" /\ m.stage # "answered" => m.refs >= 1
    /\ m.by # "nobody" /\ channel = "open" =>
        \/ m.kind = "get" /\ threads[m.by].at = "asking"
        \/ m.kind = "release" /\ threads[m.by].at = "telling"
OneCaller ==
    link = "open" => \A c, d \in Calls : call[c].by # "nobody" /\ call[d].by # "nobody" => c = d
CallInv == (\A c \in Calls : MessageIs(call[c], link, user)) /\ OneCaller

\* Who offers the object refers to it, and waits unless the offer was given up.
OfferInv ==
    /\ offerer # "idle" => own
    /\ offerer = "shutting" => "unheard" \in slips
    /\ link = "open" /\ inbound # NoInbound => offerer = "waiting" \/ "unheard" \in slips

\* An object that calls return is never a parameter, and the reverse.
ServiceInv ==
    setup.role = "service" =>
        /\ inbound = NoInbound /\ offerer = "idle" /\ kept = None
        /\ \A p \in Proxies : proxy[p].mode = {}
SinkInv ==
    setup.role = "sink" =>
        /\ \A u \in Users : user[u].at \notin {"asking", "returned"}
        /\ \A c \in Calls : call[c].kind # "get"
ModeInv ==
    Sound /\ setup.role = "sink" =>
        \A p \in Proxies :
            /\ proxy[p].count > 0 => proxy[p].remote = 1
            /\ proxy[p].mode \in {{}, {"addref"}, {"release"}}
            /\ proxy[p].mode # {} <=> inbound.p = p

-----------------------------------------------------------------------------
(* How the counts change.                                                   *)

\* A set of threads that changes at one thread.
LEMMA ThreadsChange ==
    ASSUME NEW S \in SUBSET Users, NEW T \in SUBSET Users, NEW u \in Users,
           \A v \in Users : v # u => (v \in S <=> v \in T)
    PROVE  /\ Cardinality(S) \in Nat /\ Cardinality(T) \in Nat
           /\ Cardinality(T) = Cardinality(S) - One(u \in S) + One(u \in T)
           /\ Cardinality(S) >= One(u \in S)
  <1>1. IsFiniteSet(S) /\ IsFiniteSet(T)
    BY UserAssumption, FS_Subset
  <1>2. /\ Cardinality(S \ {u}) = Cardinality(S) - One(u \in S)
        /\ Cardinality(T \ {u}) = Cardinality(T) - One(u \in T)
        /\ IsFiniteSet(S \ {u})
    <2>1. Cardinality(S) \in Nat /\ Cardinality(T) \in Nat
      BY <1>1, FS_CardinalityType
    <2>2. /\ IsFiniteSet(S \ {u})
          /\ Cardinality(S \ {u}) = IF u \in S THEN Cardinality(S) - 1 ELSE Cardinality(S)
      BY <1>1, FS_RemoveElement
    <2>3. Cardinality(T \ {u}) = IF u \in T THEN Cardinality(T) - 1 ELSE Cardinality(T)
      BY <1>1, FS_RemoveElement
    <2> QED BY <2>1, <2>2, <2>3 DEF One
  <1>3. S \ {u} = T \ {u}
    OBVIOUS
  <1>4. Cardinality(S) \in Nat /\ Cardinality(T) \in Nat /\ Cardinality(S \ {u}) \in Nat
    BY <1>1, <1>2, FS_CardinalityType
  <1> QED BY <1>2, <1>3, <1>4 DEF One


Threads == [at : {"idle", "asking", "returned", "holds", "releasing", "telling",
                  "shutting", "leaving"},
            p : Proxies \cup {None}]
OnlyUser(u) == \A v \in Users : v # u => user'[v] = user[v]

\* ... those that refer to a proxy, and those that have been answered.
LEMMA HoldersChange ==
    ASSUME NEW u \in Users, NEW p, OnlyUser(u)
    PROVE  /\ Cardinality(HoldersOf(p)) \in Nat /\ Cardinality(HoldersOf(p)') \in Nat
           /\ Cardinality(HoldersOf(p)') = Cardinality(HoldersOf(p))
                 - One(user[u].at = "holds" /\ user[u].p = p)
                 + One(user'[u].at = "holds" /\ user'[u].p = p)
           /\ user[u].at = "holds" /\ user[u].p = p => Cardinality(HoldersOf(p)) >= 1
  <1> DEFINE S == HoldersOf(p)
             T == {v \in Users : user'[v].at = "holds" /\ user'[v].p = p}
  <1>1. S \in SUBSET Users /\ T \in SUBSET Users
    BY DEF HoldersOf
  <1>2. \A v \in Users : v # u => (v \in S <=> v \in T)
    BY DEF HoldersOf, OnlyUser
  <1>3. /\ (u \in S) = (user[u].at = "holds" /\ user[u].p = p)
        /\ (u \in T) = (user'[u].at = "holds" /\ user'[u].p = p)
    BY DEF HoldersOf
  <1>4. T = HoldersOf(p)'
    BY DEF HoldersOf
  <1> HIDE DEF S, T
  <1>5. /\ Cardinality(S) \in Nat /\ Cardinality(T) \in Nat
        /\ Cardinality(T) = Cardinality(S) - One(u \in S) + One(u \in T)
        /\ Cardinality(S) >= One(u \in S)
    BY <1>1, <1>2, ThreadsChange
  <1> QED BY <1>3, <1>4, <1>5 DEF S, One

\* The threads with a reference that no proxy stands for yet change by one
\* thread.
LEMMA ReturnedChange ==
    ASSUME NEW u \in Users, OnlyUser(u)
    PROVE  /\ Cardinality(Returned) \in Nat /\ Cardinality(Returned') \in Nat
           /\ Cardinality(Returned') = Cardinality(Returned)
                 - One(user[u].at = "returned") + One(user'[u].at = "returned")
           /\ user[u].at = "returned" => Cardinality(Returned) >= 1
  <1> DEFINE S == Returned
             T == {v \in Users : user'[v].at = "returned"}
  <1>1. S \in SUBSET Users /\ T \in SUBSET Users
    BY DEF Returned
  <1>2. \A v \in Users : v # u => (v \in S <=> v \in T)
    BY DEF Returned, OnlyUser
  <1>3. /\ (u \in S) = (user[u].at = "returned")
        /\ (u \in T) = (user'[u].at = "returned")
    BY DEF Returned
  <1>4. T = Returned'
    BY DEF Returned
  <1> HIDE DEF S, T
  <1>5. /\ Cardinality(S) \in Nat /\ Cardinality(T) \in Nat
        /\ Cardinality(T) = Cardinality(S) - One(u \in S) + One(u \in T)
        /\ Cardinality(S) >= One(u \in S)
    BY <1>1, <1>2, ThreadsChange
  <1> QED BY <1>3, <1>4, <1>5 DEF S, One

\* The references to one proxy: a step moves at most one thread.
LEMMA RefsChange ==
    ASSUME NEW u \in Users, NEW p \in Proxies, OnlyUser(u)
    PROVE  /\ Refs(p) \in Nat /\ Refs(p)' \in Nat
           /\ Refs(p)' = Refs(p)
                 - One(user[u].at = "holds" /\ user[u].p = p)
                 + One(user'[u].at = "holds" /\ user'[u].p = p)
                 - One(kept = p) + One(kept' = p)
                 - One(Inside(p)) + One(Inside(p)')
                 - One(p \in dead) + One(p \in dead')
           /\ Refs(p) >= One(user[u].at = "holds" /\ user[u].p = p) + One(kept = p)
                          + One(Inside(p)) + One(p \in dead)
  <1> DEFINE n == Cardinality(HoldersOf(p))
             m == Cardinality(HoldersOf(p)')
  <1>1. /\ n \in Nat /\ m \in Nat
        /\ m = n - One(user[u].at = "holds" /\ user[u].p = p)
                 + One(user'[u].at = "holds" /\ user'[u].p = p)
        /\ user[u].at = "holds" /\ user[u].p = p => n >= 1
    BY HoldersChange
  <1>2. /\ Refs(p) = n + One(kept = p) + One(Inside(p)) + One(p \in dead)
        /\ Refs(p)' = m + One(kept' = p) + One(Inside(p)') + One(p \in dead')
    BY DEF Refs, One
  <1> HIDE DEF n, m
  <1> QED BY <1>1, <1>2 DEF One

\* ... or none.
LEMMA RefsKept ==
    ASSUME NEW p \in Proxies, user' = user
    PROVE  /\ Refs(p) \in Nat /\ Refs(p)' \in Nat
           /\ Refs(p)' = Refs(p)
                 - One(kept = p) + One(kept' = p)
                 - One(Inside(p)) + One(Inside(p)')
                 - One(p \in dead) + One(p \in dead')
           /\ Refs(p) >= One(kept = p) + One(Inside(p)) + One(p \in dead)
  <1> DEFINE n == Cardinality(HoldersOf(p))
  <1>1. n \in Nat
    <2>1. HoldersOf(p) \in SUBSET Users
      BY DEF HoldersOf
    <2> QED BY <2>1, UserAssumption, FS_Subset, FS_CardinalityType
  <1>2. HoldersOf(p)' = HoldersOf(p)
    BY DEF HoldersOf
  <1>3. /\ Refs(p) = n + One(kept = p) + One(Inside(p)) + One(p \in dead)
        /\ Refs(p)' = n + One(kept' = p) + One(Inside(p)') + One(p \in dead')
    BY <1>2 DEF Refs, One
  <1> HIDE DEF n
  <1> QED BY <1>1, <1>3 DEF One

-----------------------------------------------------------------------------

-----------------------------------------------------------------------------
(* The types, those of the process of the user first.                       *)

Messages == [kind : {"none", "get", "release"}, by : Users \cup {"nobody"}, refs : Nat,
             stage : {"none", "sent", "queued", "handling", "answered"}]
Offers == [at : {"none", "sent", "begun", "inside", "gap", "answer"},
           p : Proxies \cup {None}, gone : BOOLEAN, cached : {"none", "addref", "release"}]
Counts == [count : Nat, mode : SUBSET {"addref", "release"}, remote : Nat,
           channel : BOOLEAN, lock : BOOLEAN]
Windows == {"gap", "unregistered", "unheard", "late"}

LocalTypes ==
    /\ setup \in [role : Roles, server : {"owner", "user"}]
    /\ link \in {"open", "closed", "deleted"}
    /\ inbound \in Offers /\ proxy \in [Proxies -> Counts]
    /\ known \in Seq(Proxies) /\ \A i, j \in DOMAIN known : known[i] = known[j] => i = j
    /\ dead \subseteq Proxies /\ user \in [Users -> Threads]
    /\ kept \in Proxies \cup {None} /\ slips \subseteq Windows
OwnerTypes ==
    /\ count \in Nat /\ own \in BOOLEAN /\ registered \in Nat /\ held \in Nat
    /\ call \in [Calls -> Messages] /\ offerer \in {"idle", "waiting", "shutting"}
    /\ takes \in 0 .. MaxTakes /\ lost \in Nat

\* The types of both processes are those of TypeOK.
LEMMA TypesAre == TypeOK <=> LocalTypes /\ OwnerTypes
  BY DEF TypeOK, LocalTypes, OwnerTypes, Messages, Offers, Counts, Threads, Windows

\* The process of the user, whatever the calls and the owner do.
LocalInv == LocalTypes /\ PlaceInv /\ \A p \in Proxies : ProxyInv(p)

\* Proxies are numbered from 1 on.
LEMMA ProxyNumbers == \A p \in Proxies : p # None /\ p \in Nat
  BY BoundAssumption DEF Proxies, None

-----------------------------------------------------------------------------
(* How a step leaves a proxy alone.                                         *)

\* The threads, offers and lists are about q as they were before.
Untouched(q) ==
    /\ proxy'[q] = proxy[q]
    /\ \A v \in Users : user'[v] = user[v] \/ (user[v].p # q /\ user'[v].p # q)
    /\ kept' = q <=> kept = q
    /\ inbound' = inbound \/ (inbound.p # q /\ inbound'.p # q)
    /\ q \in dead' <=> q \in dead
    /\ Listed(q)' <=> Listed(q)
    /\ link = "deleted" => link' = "deleted"
    /\ slips \subseteq slips'

\* A proxy that a step leaves alone stays what it is.
LEMMA UntouchedInv ==
    ASSUME NEW q \in Proxies, ProxyInv(q), Untouched(q)
    PROVE  ProxyInv(q)'
  <1>1. HoldersOf(q)' = HoldersOf(q)
    BY DEF HoldersOf, Untouched
  <1>2. (Inside(q)' <=> Inside(q)) /\ (Finishing(q)' <=> Finishing(q)) /\ (Apart(q) => Apart(q)')
    BY DEF Inside, Finishing, Apart, Untouched
  <1>3. Refs(q)' = Refs(q)
    BY <1>1, <1>2 DEF Refs, One, Untouched
  <1>4. OnChannel(q)'
    BY DEF ProxyInv, OnChannel, Untouched
  <1>5. CASE Absent(q)
    <2>1. Absent(q)'
      BY <1>2, <1>3, <1>5 DEF Absent, Untouched
    <2> QED BY <1>4, <2>1 DEF ProxyInv
  <1>6. CASE Live(q)
    <2>1. Live(q)'
      BY <1>2, <1>3, <1>6 DEF Live, Untouched
    <2> QED BY <1>4, <2>1 DEF ProxyInv
  <1>7. CASE \E u \in Users : Ending(q, u)
    <2>1. PICK u \in Users : Ending(q, u)
      BY <1>7
    <2>2. Ending(q, u)'
      BY <1>2, <1>3, <2>1 DEF Ending, Untouched
    <2> QED BY <1>4, <2>2 DEF ProxyInv
  <1>8. CASE Finished(q)
    <2>1. Finished(q)'
      BY <1>2, <1>3, <1>8 DEF Finished, Untouched
    <2> QED BY <1>4, <2>1 DEF ProxyInv
  <1> QED BY <1>5, <1>6, <1>7, <1>8 DEF ProxyInv

\* A step of messages and of threads that refer to no proxy.
LEMMA Elsewhere ==
    ASSUME LocalInv, UNCHANGED <<proxy, known, dead, kept>>, link = "deleted" => link' = "deleted",
           slips \subseteq slips',
           \A v \in Users : user'[v] = user[v] \/ (user[v].p = None /\ user'[v].p = None),
           inbound' = inbound \/ (inbound.p = None /\ inbound'.p = None)
    PROVE  \A p \in Proxies : ProxyInv(p)'
  <1>1. ASSUME NEW p \in Proxies
        PROVE  ProxyInv(p)'
    <2>1. p # None
      BY ProxyNumbers
    <2>2. Untouched(p)
      BY <2>1 DEF Untouched, Listed
    <2> QED BY <2>2, UntouchedInv DEF LocalInv
  <1> QED BY <1>1

\* A step that changes no variable of this process.
LEMMA Outside ==
    ASSUME LocalInv, UNCHANGED <<setup, link, inbound, proxy, known, dead, user, kept>>,
           slips \subseteq slips', slips' \subseteq Windows
    PROVE  LocalInv'
  <1>1. \A p \in Proxies : ProxyInv(p)'
    BY Elsewhere
  <1>2. LocalTypes' /\ PlaceInv'
    BY DEF LocalInv, LocalTypes, PlaceInv
  <1> QED BY <1>1, <1>2 DEF LocalInv

\* A thread that goes on with the proxy it refers to.
LEMMA UserAt ==
    ASSUME LocalTypes, NEW u \in Users,
           NEW a \in {"idle", "asking", "returned", "holds", "releasing", "telling", "shutting", "leaving"},
           user' = [user EXCEPT ![u].at = a]
    PROVE  /\ user' \in [Users -> Threads] /\ OnlyUser(u)
           /\ user'[u].at = a /\ user'[u].p = user[u].p
  <1> DEFINE r == [user[u] EXCEPT !.at = a]
  <1>1. user \in [Users -> Threads]
    BY DEF LocalTypes, Threads
  <1>2. r \in Threads /\ r.at = a /\ r.p = user[u].p
    BY <1>1 DEF Threads
  <1>3. user' = [user EXCEPT ![u] = r]
    OBVIOUS
  <1> HIDE DEF r
  <1> QED BY <1>1, <1>2, <1>3 DEF OnlyUser

\* ... or that refers to another one, or to none.
LEMMA UserIs ==
    ASSUME LocalTypes, NEW u \in Users, NEW r \in Threads, user' = [user EXCEPT ![u] = r]
    PROVE  user' \in [Users -> Threads] /\ OnlyUser(u) /\ user'[u] = r
  <1>1. user \in [Users -> Threads]
    BY DEF LocalTypes, Threads
  <1> QED BY <1>1 DEF OnlyUser

-----------------------------------------------------------------------------
(* What is needed of one proxy when it changes.                             *)

\* A proxy that somebody refers to is live.
LEMMA Referred ==
    ASSUME LocalInv, NEW p \in Proxies, Refs(p) >= 1 \/ proxy[p].count >= 2
    PROVE  Live(p) /\ proxy[p].count = 1 + Refs(p) /\ proxy[p].count >= 2 /\ Refs(p) \in Nat
  <1>1. ProxyInv(p) /\ proxy[p].count \in Nat
    BY DEF LocalInv, LocalTypes, Counts
  <1>2. Refs(p) \in Nat
    <2>1. HoldersOf(p) \in SUBSET Users
      BY DEF HoldersOf
    <2>2. Cardinality(HoldersOf(p)) \in Nat
      BY <2>1, UserAssumption, FS_Subset, FS_CardinalityType
    <2> QED BY <2>2 DEF Refs, One
  <1>3. Live(p)
    BY <1>1, <1>2 DEF ProxyInv, Absent, Ending, Finished, NoProxy
  <1> QED BY <1>2, <1>3 DEF Live

\* Who refers to it: a thread, the callee that keeps it, the stub.
LEMMA ReferredBy ==
    ASSUME LocalInv, NEW p \in Proxies,
           \/ \E u \in Users : user[u].at = "holds" /\ user[u].p = p
           \/ kept = p \/ Inside(p) \/ p \in dead
    PROVE  Live(p) /\ proxy[p].count = 1 + Refs(p) /\ proxy[p].count >= 2 /\ Refs(p) \in Nat
  <1>1. Cardinality(HoldersOf(p)) \in Nat
    <2>1. HoldersOf(p) \in SUBSET Users
      BY DEF HoldersOf
    <2> QED BY <2>1, UserAssumption, FS_Subset, FS_CardinalityType
  <1>2. ASSUME NEW u \in Users, user[u].at = "holds", user[u].p = p
        PROVE  Cardinality(HoldersOf(p)) >= 1
    <2>1. HoldersOf(p) \in SUBSET Users /\ u \in HoldersOf(p)
      BY <1>2 DEF HoldersOf
    <2>2. IsFiniteSet(HoldersOf(p)) /\ HoldersOf(p) # {}
      BY <2>1, UserAssumption, FS_Subset
    <2>3. Cardinality(HoldersOf(p)) # 0
      BY <2>2, FS_EmptySet
    <2> QED BY <1>1, <2>3
  <1>3. Refs(p) >= 1
    BY <1>1, <1>2 DEF Refs, One
  <1> QED BY <1>3, Referred

\* Nobody is in a set of threads that counts none.
LEMMA NoThreads ==
    ASSUME NEW S \in SUBSET Users, Cardinality(S) = 0
    PROVE  S = {}
  BY UserAssumption, FS_Subset, FS_EmptySet

\* After a step that leaves a proxy without holders no thread holds it.
LEMMA NobodyHoldsNext ==
    ASSUME NEW p, Cardinality(HoldersOf(p)') = 0
    PROVE  \A u \in Users : ~ (user'[u].at = "holds" /\ user'[u].p = p)
  <1>1. HoldersOf(p)' \in SUBSET Users
    BY DEF HoldersOf
  <1>2. HoldersOf(p)' = {}
    BY <1>1, NoThreads
  <1> QED BY <1>2 DEF HoldersOf

\* A step changes one proxy.
OnlyProxy(p) ==
    /\ proxy' \in [Proxies -> Counts]
    /\ \A q \in Proxies : q # p => proxy'[q] = proxy[q]

\* What a step that assigns to one proxy changes.
LEMMA ProxyIs ==
    ASSUME LocalTypes, NEW p \in Proxies, NEW r \in Counts, proxy' = [proxy EXCEPT ![p] = r]
    PROVE  OnlyProxy(p) /\ proxy'[p] = r
  <1>1. proxy \in [Proxies -> Counts]
    BY DEF LocalTypes, Counts
  <1> QED BY <1>1 DEF OnlyProxy

\* The types of the fields of a proxy.
LEMMA ProxyType ==
    ASSUME LocalTypes, NEW p \in Proxies
    PROVE  /\ proxy[p] \in Counts /\ proxy[p].count \in Nat /\ proxy[p].remote \in Nat
           /\ proxy[p].mode \in SUBSET {"addref", "release"}
           /\ proxy[p].channel \in BOOLEAN /\ proxy[p].lock \in BOOLEAN
  BY DEF LocalTypes, Counts

\* ... in its count alone,
LEMMA CountTo ==
    ASSUME LocalTypes, NEW p \in Proxies, NEW n \in Nat, proxy' = [proxy EXCEPT ![p].count = n]
    PROVE  /\ OnlyProxy(p) /\ proxy'[p].count = n
           /\ proxy'[p].mode = proxy[p].mode /\ proxy'[p].remote = proxy[p].remote
           /\ proxy'[p].channel = proxy[p].channel /\ proxy'[p].lock = proxy[p].lock
  <1> DEFINE r == [proxy[p] EXCEPT !.count = n]
  <1>1. proxy[p] \in Counts
    BY ProxyType
  <1>2. /\ r \in Counts /\ r.count = n /\ r.mode = proxy[p].mode /\ r.remote = proxy[p].remote
        /\ r.channel = proxy[p].channel /\ r.lock = proxy[p].lock
    BY <1>1 DEF Counts
  <1>3. proxy' = [proxy EXCEPT ![p] = r]
    OBVIOUS
  <1> HIDE DEF r
  <1> QED BY <1>2, <1>3, ProxyIs

\* ... in its count and its channel,
LEMMA CountAndChannel ==
    ASSUME LocalTypes, NEW p \in Proxies, NEW n \in Nat, NEW b \in BOOLEAN,
           proxy' = [proxy EXCEPT ![p].count = n, ![p].channel = b]
    PROVE  /\ OnlyProxy(p) /\ proxy'[p].count = n /\ proxy'[p].channel = b
           /\ proxy'[p].mode = proxy[p].mode /\ proxy'[p].remote = proxy[p].remote
           /\ proxy'[p].lock = proxy[p].lock
  <1> DEFINE r == [[proxy[p] EXCEPT !.count = n] EXCEPT !.channel = b]
  <1>1. proxy[p] \in Counts
    BY ProxyType
  <1>2. /\ r \in Counts /\ r.count = n /\ r.mode = proxy[p].mode /\ r.remote = proxy[p].remote
        /\ r.channel = b /\ r.lock = proxy[p].lock
    BY <1>1 DEF Counts
  <1>3. proxy' = [proxy EXCEPT ![p] = r]
    OBVIOUS
  <1> HIDE DEF r
  <1> QED BY <1>2, <1>3, ProxyIs

\* ... its count and its lock,
LEMMA CountAndLock ==
    ASSUME LocalTypes, NEW p \in Proxies, NEW n \in Nat, NEW b \in BOOLEAN,
           proxy' = [proxy EXCEPT ![p].count = n, ![p].lock = b]
    PROVE  /\ OnlyProxy(p) /\ proxy'[p].count = n /\ proxy'[p].lock = b
           /\ proxy'[p].mode = proxy[p].mode /\ proxy'[p].remote = proxy[p].remote
           /\ proxy'[p].channel = proxy[p].channel
  <1> DEFINE r == [[proxy[p] EXCEPT !.count = n] EXCEPT !.lock = b]
  <1>1. proxy[p] \in Counts
    BY ProxyType
  <1>2. /\ r \in Counts /\ r.count = n /\ r.mode = proxy[p].mode /\ r.remote = proxy[p].remote
        /\ r.channel = proxy[p].channel /\ r.lock = b
    BY <1>1 DEF Counts
  <1>3. proxy' = [proxy EXCEPT ![p] = r]
    OBVIOUS
  <1> HIDE DEF r
  <1> QED BY <1>2, <1>3, ProxyIs

\* ... its channel and its lock.
LEMMA ChannelAndLock ==
    ASSUME LocalTypes, NEW p \in Proxies,
           proxy' = [proxy EXCEPT ![p].channel = FALSE, ![p].lock = FALSE]
    PROVE  /\ OnlyProxy(p) /\ proxy'[p].count = proxy[p].count
           /\ proxy'[p].mode = proxy[p].mode /\ proxy'[p].remote = proxy[p].remote
           /\ ~ proxy'[p].channel /\ ~ proxy'[p].lock
  <1> DEFINE r == [[proxy[p] EXCEPT !.channel = FALSE] EXCEPT !.lock = FALSE]
  <1>1. proxy[p] \in Counts
    BY ProxyType
  <1>2. /\ r \in Counts /\ r.count = proxy[p].count /\ r.mode = proxy[p].mode
        /\ r.remote = proxy[p].remote /\ ~ r.channel /\ ~ r.lock
    BY <1>1 DEF Counts
  <1>3. proxy' = [proxy EXCEPT ![p] = r]
    OBVIOUS
  <1> HIDE DEF r
  <1> QED BY <1>2, <1>3, ProxyIs

-----------------------------------------------------------------------------
(* Finding, making and forgetting a proxy.                                  *)

\* An entry more, of a proxy that was not listed.
LEMMA AppendListed ==
    ASSUME NEW s \in Seq(Proxies), NEW p \in Proxies,
           \A i, j \in DOMAIN s : s[i] = s[j] => i = j,
           \A i \in DOMAIN s : s[i] # p
    PROVE  /\ Append(s, p) \in Seq(Proxies)
           /\ \A i, j \in DOMAIN Append(s, p) : Append(s, p)[i] = Append(s, p)[j] => i = j
           /\ \A q : (\E i \in DOMAIN Append(s, p) : Append(s, p)[i] = q)
                       <=> q = p \/ \E i \in DOMAIN s : s[i] = q
  <1> DEFINE t == Append(s, p)
  <1>1. /\ t \in Seq(Proxies) /\ DOMAIN t = 1 .. (Len(s) + 1) /\ DOMAIN s = 1 .. Len(s)
        /\ Len(s) \in Nat /\ t[Len(s) + 1] = p /\ \A i \in 1 .. Len(s) : t[i] = s[i]
    BY AppendProperties, LenProperties
  <1> HIDE DEF t
  <1>2. \A i, j \in DOMAIN t : t[i] = t[j] => i = j
    BY <1>1
  <1>3. ASSUME NEW q
        PROVE  (\E i \in DOMAIN t : t[i] = q) <=> q = p \/ \E i \in DOMAIN s : s[i] = q
    <2>1. ASSUME \E i \in DOMAIN s : s[i] = q
          PROVE  \E i \in DOMAIN t : t[i] = q
      BY <1>1, <2>1
    <2>2. Len(s) + 1 \in DOMAIN t
      BY <1>1
    <2> QED BY <1>1, <2>1, <2>2
  <1> QED BY <1>1, <1>2, <1>3 DEF t

\* An entry less.
LEMMA RemoveElements ==
    ASSUME NEW S, NEW s \in Seq(S), NEW k \in 1 .. Len(s)
    PROVE  /\ RemoveAt(s, k) \in Seq(S) /\ Len(RemoveAt(s, k)) = Len(s) - 1
           /\ \A i \in 1 .. (Len(s) - 1) : RemoveAt(s, k)[i] = IF i < k THEN s[i] ELSE s[i + 1]
  <1> DEFINE front == SubSeq(s, 1, k - 1)
             back == SubSeq(s, k + 1, Len(s))
  <1>1. front \in Seq(S) /\ Len(front) = k - 1 /\ \A i \in 1 .. (k - 1) : front[i] = s[i]
    BY SubSeqProperties, ElementOfSeq, LenProperties
  <1>2. /\ back \in Seq(S) /\ Len(back) = Len(s) - k
        /\ \A i \in 1 .. (Len(s) - k) : back[i] = s[i + k]
    BY SubSeqProperties, ElementOfSeq, LenProperties
  <1>3. RemoveAt(s, k) = front \o back
    BY DEF RemoveAt
  <1> HIDE DEF front, back
  <1>4. /\ front \o back \in Seq(S) /\ Len(front \o back) = Len(front) + Len(back)
        /\ \A i \in 1 .. (Len(front) + Len(back)) :
             (front \o back)[i] = IF i <= Len(front) THEN front[i] ELSE back[i - Len(front)]
    BY <1>1, <1>2, ConcatProperties
  <1>5. ASSUME NEW i \in 1 .. (Len(s) - 1)
        PROVE  (front \o back)[i] = IF i < k THEN s[i] ELSE s[i + 1]
    <2>1. CASE i < k
      BY <1>1, <1>2, <1>4, <2>1, LenProperties
    <2>2. CASE ~ (i < k)
      <3>1. i - Len(front) \in 1 .. (Len(s) - k) /\ back[i - Len(front)] = s[i + 1]
        BY <1>1, <1>2, <2>2, LenProperties
      <3> QED BY <1>1, <1>2, <1>4, <2>2, <3>1, LenProperties
    <2> QED BY <2>1, <2>2
  <1> QED BY <1>1, <1>2, <1>3, <1>4, <1>5, LenProperties

\* UnregisterUnknownProxy takes out the one entry of the proxy.
LEMMA WithoutListed ==
    ASSUME LocalTypes, NEW p \in Proxies, known' = Without(p)
    PROVE  /\ known' \in Seq(Proxies)
           /\ \A i, j \in DOMAIN known' : known'[i] = known'[j] => i = j
           /\ \A q \in Proxies : Listed(q)' <=> Listed(q) /\ q # p
  <1>1. /\ known \in Seq(Proxies) /\ \A i, j \in DOMAIN known : known[i] = known[j] => i = j
    BY DEF LocalTypes
  <1>2. Len(known) \in Nat /\ DOMAIN known = 1 .. Len(known)
    BY <1>1, LenProperties
  <1>3. CASE \E i \in DOMAIN known : known[i] = p
    <2> DEFINE k == CHOOSE i \in DOMAIN known : known[i] = p
    <2>1. k \in 1 .. Len(known) /\ known[k] = p
      BY <1>2, <1>3
    <2>2. known' = RemoveAt(known, k)
      BY <1>3 DEF Without
    <2> HIDE DEF k
    <2>3. /\ known' \in Seq(Proxies) /\ Len(known') = Len(known) - 1
          /\ \A i \in 1 .. (Len(known) - 1) : known'[i] = IF i < k THEN known[i] ELSE known[i + 1]
      <3>1. /\ RemoveAt(known, k) \in Seq(Proxies) /\ Len(RemoveAt(known, k)) = Len(known) - 1
            /\ \A i \in 1 .. (Len(known) - 1) :
                 RemoveAt(known, k)[i] = IF i < k THEN known[i] ELSE known[i + 1]
        BY <1>1, <2>1, RemoveElements
      <3> QED BY <2>2, <3>1, Zenon
    <2>4. DOMAIN known' = 1 .. (Len(known) - 1)
      BY <2>3, LenProperties
    <2>5. ASSUME NEW i \in DOMAIN known', NEW j \in DOMAIN known', known'[i] = known'[j]
          PROVE  i = j
      <3> DEFINE at(n) == IF n < k THEN n ELSE n + 1
      <3>1. /\ at(i) \in DOMAIN known /\ known'[i] = known[at(i)]
            /\ at(j) \in DOMAIN known /\ known'[j] = known[at(j)]
        BY <1>2, <2>1, <2>3, <2>4
      <3>2. at(i) = at(j)
        BY <1>1, <2>5, <3>1
      <3> QED BY <1>2, <2>1, <2>4, <3>2
    <2>6. ASSUME NEW q \in Proxies
          PROVE  Listed(q)' <=> Listed(q) /\ q # p
      <3>1. ASSUME Listed(q)'
            PROVE  Listed(q) /\ q # p
        <4>1. PICK i \in 1 .. (Len(known) - 1) : known'[i] = q
          BY <2>4, <3>1 DEF Listed
        <4>2. CASE i < k
          <5>1. known[i] = q /\ i \in DOMAIN known /\ i # k /\ k \in DOMAIN known
            BY <1>2, <2>1, <2>3, <4>1, <4>2
          <5> QED BY <1>1, <2>1, <5>1 DEF Listed
        <4>3. CASE ~ (i < k)
          <5>1. known[i + 1] = q /\ i + 1 \in DOMAIN known /\ i + 1 # k /\ k \in DOMAIN known
            BY <1>2, <2>1, <2>3, <4>1, <4>3
          <5> QED BY <1>1, <2>1, <5>1 DEF Listed
        <4> QED BY <4>2, <4>3
      <3>2. ASSUME Listed(q), q # p
            PROVE  Listed(q)'
        <4>1. PICK i \in 1 .. Len(known) : known[i] = q
          BY <1>2, <3>2 DEF Listed
        <4>2. CASE i < k
          <5>1. i \in 1 .. (Len(known) - 1) /\ known'[i] = q
            BY <1>2, <2>1, <2>3, <4>1, <4>2
          <5> QED BY <2>4, <5>1 DEF Listed
        <4>3. CASE i > k
          <5>1. i - 1 \in 1 .. (Len(known) - 1) /\ known'[i - 1] = q
            BY <1>2, <2>1, <2>3, <4>1, <4>3
          <5> QED BY <2>4, <5>1 DEF Listed
        <4>4. i # k
          BY <2>1, <3>2, <4>1
        <4> QED BY <1>2, <2>1, <4>2, <4>3, <4>4
      <3> QED BY <3>1, <3>2
    <2> QED BY <2>3, <2>5, <2>6
  <1>4. CASE ~ \E i \in DOMAIN known : known[i] = p
    BY <1>1, <1>4 DEF Without, Listed
  <1> QED BY <1>3, <1>4

\* The proxy that is found is live, the one that is made was not there.
LEMMA ChosenProxy ==
    ASSUME LocalInv, Possible
    PROVE  /\ Chosen \in Proxies
           /\ IF Chosen = Existing THEN Live(Chosen) /\ Listed(Chosen) ELSE Absent(Chosen)
  <1> USE DEF LocalInv
  <1>1. known \in Seq(Proxies) /\ \A p \in Proxies : p # None
    BY ProxyNumbers DEF LocalTypes
  <1>2. CASE Existing # None
    <2>1. /\ known # << >> /\ Existing = Head(known) /\ proxy[Existing].count > 1
          /\ Chosen = Existing
      BY <1>2 DEF Existing, Chosen, None
    <2>2. /\ 1 \in DOMAIN known /\ Head(known) = known[1] /\ known[1] \in Proxies
      BY <1>1, <2>1
    <2>3. Existing \in Proxies /\ Listed(Existing)
      BY <2>1, <2>2 DEF Listed
    <2>4. proxy[Existing].count >= 2
      BY <2>1, <2>3, ProxyType
    <2> QED BY <2>1, <2>3, <2>4, Referred
  <1>3. CASE Existing = None
    <2>1. Chosen = Fresh /\ \E p \in Proxies : proxy[p].count = 0
      BY <1>3 DEF Chosen, Possible, Room
    <2>2. Fresh \in Proxies /\ proxy[Fresh].count = 0
      BY <2>1 DEF Fresh
    <2>3. Absent(Fresh)
      <3>1. ProxyInv(Fresh)
        BY <2>2
      <3>2. Refs(Fresh) >= 1 => proxy[Fresh].count >= 2
        BY <2>2, Referred
      <3> QED BY <2>2, <3>1, <3>2 DEF ProxyInv, Live, Ending, Finished
    <2> QED BY <1>1, <1>3, <2>1, <2>2, <2>3
  <1> QED BY <1>2, <1>3

\* What ProxyInstance does to it, and to the vector of the channel.
LEMMA InstanceStep ==
    ASSUME LocalInv, Possible, NEW p, p = Chosen, NEW mode \in {{}, {"release"}}, Instance(p, mode)
    PROVE  /\ p \in Proxies /\ OnlyProxy(p) /\ ~ proxy'[p].lock /\ Listed(p)'
           /\ known' \in Seq(Proxies)
           /\ \A i, j \in DOMAIN known' : known'[i] = known'[j] => i = j
           /\ \A q \in Proxies : q # p => (Listed(q)' <=> Listed(q))
           /\ \/ /\ Absent(p) /\ proxy'[p].count = 2 /\ proxy'[p].channel
                 /\ proxy'[p].remote = 1
                 /\ proxy'[p].mode = IF mode = {} THEN {} ELSE {"addref"}
              \/ /\ Live(p) /\ Listed(p) /\ proxy'[p].count = proxy[p].count + 1
                 /\ proxy'[p].channel = proxy[p].channel
                 /\ proxy'[p].remote = proxy[p].remote + (IF mode = {} THEN 1 ELSE 0)
                 /\ proxy'[p].mode = proxy[p].mode \cup mode
  <1> USE DEF LocalInv
  <1>1. p \in Proxies /\ IF p = Existing THEN Live(p) /\ Listed(p) ELSE Absent(p)
    BY ChosenProxy
  <1>2. known \in Seq(Proxies) /\ \A i, j \in DOMAIN known : known[i] = known[j] => i = j
    BY DEF LocalTypes
  <1>3. proxy[p] \in Counts /\ proxy[p].count \in Nat /\ proxy[p].remote \in Nat
    BY <1>1, ProxyType
  <1>4. CASE p = Existing
    <2> DEFINE n == proxy[p].count + 1
               m == proxy[p].mode \cup mode
               k == proxy[p].remote + (IF mode = {} THEN 1 ELSE 0)
               r == [[[proxy[p] EXCEPT !.count = n] EXCEPT !.mode = m] EXCEPT !.remote = k]
    <2>1. n \in Nat /\ m \in SUBSET {"addref", "release"} /\ k \in Nat
      BY <1>1, <1>3, ProxyType
    <2>2. proxy' = [proxy EXCEPT ![p] = r] /\ known' = known
      BY <1>4 DEF Instance
    <2> HIDE DEF n, m, k
    <2>3. /\ r \in Counts /\ r.count = n /\ r.mode = m /\ r.remote = k
          /\ r.channel = proxy[p].channel /\ r.lock = proxy[p].lock
      BY <1>3, <2>1 DEF Counts
    <2> HIDE DEF r
    <2>4. OnlyProxy(p) /\ proxy'[p] = r
      BY <1>1, <2>2, <2>3, ProxyIs
    <2>5. \A q : Listed(q)' <=> Listed(q)
      BY <2>2 DEF Listed
    <2>6. Live(p) /\ Listed(p) /\ ~ proxy[p].lock
      BY <1>1, <1>4 DEF Live
    <2> QED BY <1>1, <1>2, <2>2, <2>3, <2>4, <2>5, <2>6 DEF n, m, k
  <1>5. CASE p # Existing
    <2> DEFINE r == [count |-> 2, mode |-> IF mode = {} THEN {} ELSE {"addref"},
                     remote |-> 1, channel |-> TRUE, lock |-> FALSE]
    <2>1. proxy' = [proxy EXCEPT ![p] = r] /\ known' = Append(known, p)
      BY <1>5 DEF Instance
    <2>2. r \in Counts
      BY DEF Counts
    <2>3. OnlyProxy(p) /\ proxy'[p] = r
      <3> HIDE DEF r
      <3> QED BY <1>1, <2>1, <2>2, ProxyIs
    <2>4. Absent(p) /\ \A i \in DOMAIN known : known[i] # p
      BY <1>1, <1>5 DEF Absent, Listed
    <2>5. /\ known' \in Seq(Proxies)
          /\ \A i, j \in DOMAIN known' : known'[i] = known'[j] => i = j
          /\ \A q : Listed(q)' <=> q = p \/ Listed(q)
      <3>1. \A q : Listed(q)' <=> \E i \in DOMAIN Append(known, p) : Append(known, p)[i] = q
        BY <2>1 DEF Listed
      <3> QED BY SMTT(20), <1>1, <1>2, <2>1, <2>4, <3>1, AppendListed DEF Listed
    <2> QED BY <1>1, <2>3, <2>4, <2>5
  <1> QED BY <1>4, <1>5

-----------------------------------------------------------------------------
(* The threads of the user and their proxies.                               *)

\* A thread that works on one proxy leaves the others alone,
LEMMA OthersByUser ==
    ASSUME LocalInv, NEW u \in Users, NEW p \in Proxies, OnlyUser(u), OnlyProxy(p),
           user[u].p \in {None, p}, user'[u].p \in {None, p},
           UNCHANGED <<inbound, dead, link>>, slips \subseteq slips',
           \A q \in Proxies : q # p => (kept' = q <=> kept = q) /\ (Listed(q)' <=> Listed(q))
    PROVE  \A q \in Proxies : q # p => ProxyInv(q)'
  <1>1. ASSUME NEW q \in Proxies, q # p
        PROVE  ProxyInv(q)'
    <2>1. q # None
      BY ProxyNumbers
    <2>2. Untouched(q)
      BY <1>1, <2>1 DEF Untouched, OnlyUser, OnlyProxy, Listed
    <2> QED BY <2>2, UntouchedInv DEF LocalInv
  <1> QED BY <1>1

\* ... and so does the call that offers one.
LEMMA OthersByOffer ==
    ASSUME LocalInv, NEW p \in Proxies, OnlyProxy(p), UNCHANGED <<user, link>>, slips \subseteq slips',
           inbound.p \in {None, p}, inbound'.p \in {None, p},
           \A q \in Proxies : q # p => /\ kept' = q <=> kept = q
                                       /\ q \in dead' <=> q \in dead
                                       /\ Listed(q)' <=> Listed(q)
    PROVE  \A q \in Proxies : q # p => ProxyInv(q)'
  <1>1. ASSUME NEW q \in Proxies, q # p
        PROVE  ProxyInv(q)'
    <2>1. q # None
      BY ProxyNumbers
    <2>2. Untouched(q)
      BY <1>1, <2>1 DEF Untouched, OnlyProxy, Listed
    <2> QED BY <2>2, UntouchedInv DEF LocalInv
  <1> QED BY <1>1

\* The references when only the threads change.
LEMMA RefsByUser ==
    ASSUME NEW u \in Users, NEW p \in Proxies, OnlyUser(u), UNCHANGED <<kept, inbound, dead>>
    PROVE  /\ Refs(p) \in Nat /\ Refs(p)' \in Nat
           /\ Refs(p)' = Refs(p) - One(user[u].at = "holds" /\ user[u].p = p)
                                 + One(user'[u].at = "holds" /\ user'[u].p = p)
           /\ Refs(p) >= One(user[u].at = "holds" /\ user[u].p = p) + One(kept = p)
                          + One(Inside(p)) + One(p \in dead)
  <1>1. /\ Refs(p) \in Nat /\ Refs(p)' \in Nat
        /\ Refs(p)' = Refs(p)
              - One(user[u].at = "holds" /\ user[u].p = p)
              + One(user'[u].at = "holds" /\ user'[u].p = p)
              - One(kept = p) + One(kept' = p)
              - One(Inside(p)) + One(Inside(p)')
              - One(p \in dead) + One(p \in dead')
        /\ Refs(p) >= One(user[u].at = "holds" /\ user[u].p = p) + One(kept = p)
                       + One(Inside(p)) + One(p \in dead)
    BY RefsChange
  <1>2. kept' = kept /\ dead' = dead /\ Inside(p)' = Inside(p)
    BY DEF Inside
  <1> QED BY <1>1, <1>2 DEF One

\* A thread that refers to no proxy goes on to where it refers to none.
LEMMA FreeThread ==
    ASSUME LocalInv, NEW u \in Users,
           NEW a \in {"idle", "asking", "returned", "shutting"},
           user[u].at \in {"idle", "asking", "returned", "shutting"}, user[u].p = None,
           \/ user' = [user EXCEPT ![u].at = a]
           \/ user' = [user EXCEPT ![u] = Idle],
           UNCHANGED <<setup, proxy, known, dead, kept, slips>>,
           link = "deleted" => link' = "deleted", link' \in {"open", "closed", "deleted"},
           inbound' = inbound \/ (inbound.p = None /\ inbound' = NoInbound),
           inbound'.at \in {"sent", "answer"} => link' = "open"
    PROVE  LocalInv'
  <1> USE DEF LocalInv
  <1>1. /\ user' \in [Users -> Threads] /\ OnlyUser(u) /\ user'[u].p = None
        /\ user'[u].at \in {"idle", "asking", "returned", "shutting"}
    <2>1. CASE user' = [user EXCEPT ![u].at = a]
      BY <2>1, UserAt
    <2>2. CASE user' = [user EXCEPT ![u] = Idle]
      <3>1. Idle \in Threads
        BY DEF Idle, Threads
      <3> QED BY <2>2, <3>1, UserIs DEF Idle
    <2> QED BY <2>1, <2>2
  <1>2. \A p \in Proxies : ProxyInv(p)'
    <2>1. \A v \in Users : user'[v] = user[v] \/ (user[v].p = None /\ user'[v].p = None)
      BY <1>1 DEF OnlyUser
    <2>2. inbound' = inbound \/ (inbound.p = None /\ inbound'.p = None)
      BY DEF NoInbound
    <2> QED BY <2>1, <2>2, Elsewhere
  <1>3. NoInbound \in Offers
    BY DEF NoInbound, Offers
  <1>4. LocalTypes'
    BY <1>1, <1>3 DEF LocalTypes
  <1>5. PlaceInv'
    BY <1>1 DEF PlaceInv, OnlyUser, NoInbound
  <1> QED BY <1>2, <1>4, <1>5

\* A call is made: LocalInv is kept.
LEMMA AskLocal ==
    ASSUME LocalInv, NEW u \in Users, Ask(u)
    PROVE  LocalInv'
  <1>1. /\ user[u].at = "idle" /\ user' = [user EXCEPT ![u].at = "asking"]
        /\ UNCHANGED <<setup, link, inbound, proxy, known, dead, kept, slips>>
    BY DEF Ask
  <1>2. user[u].p = None /\ (inbound.at \in {"sent", "answer"} => link = "open")
        /\ link \in {"open", "closed", "deleted"}
    BY <1>1 DEF LocalInv, PlaceInv, LocalTypes
  <1> QED BY <1>1, <1>2, FreeThread

\* A call is answered: LocalInv is kept.
LEMMA ReturnLocal ==
    ASSUME LocalInv, NEW u \in Users, Return(u)
    PROVE  LocalInv'
  <1>1. PICK a \in {"idle", "returned"} :
          /\ user[u].at = "asking" /\ user' = [user EXCEPT ![u].at = a]
          /\ UNCHANGED <<setup, link, inbound, proxy, known, dead, kept, slips>>
    BY DEF Return
  <1>2. user[u].p = None /\ (inbound.at \in {"sent", "answer"} => link = "open")
        /\ link \in {"open", "closed", "deleted"}
    BY <1>1 DEF LocalInv, PlaceInv, LocalTypes
  <1> QED BY <1>1, <1>2, FreeThread

\* A call fails with the channel: LocalInv is kept.
LEMMA AskFailsLocal ==
    ASSUME LocalInv, NEW u \in Users, AskFails(u)
    PROVE  LocalInv'
  <1>1. /\ user[u].at = "asking" /\ user' = [user EXCEPT ![u] = Idle]
        /\ UNCHANGED <<setup, link, inbound, proxy, known, dead, kept, slips>>
    BY DEF AskFails
  <1>2. user[u].p = None /\ (inbound.at \in {"sent", "answer"} => link = "open")
        /\ link \in {"open", "closed", "deleted"}
    BY <1>1 DEF LocalInv, PlaceInv, LocalTypes
  <1> QED BY <1>1, <1>2, FreeThread

\* The end of the channel takes an offer back that has not arrived, or its answer.
LEMMA ClosingLocal ==
    ASSUME LocalInv, link = "open", Closing
    PROVE  /\ link' = "closed"
           /\ inbound' = inbound \/ (inbound.p = None /\ inbound' = NoInbound)
           /\ inbound'.at \notin {"sent", "answer"}
  BY DEF LocalInv, PlaceInv, Closing, NoInbound

\* The channel closes: LocalInv is kept.
LEMMA CloseLocal ==
    ASSUME LocalInv, link = "open", Closing,
           UNCHANGED <<setup, proxy, known, dead, user, kept, slips>>
    PROVE  LocalInv'
  <1>1. /\ link' = "closed"
        /\ inbound' = inbound \/ (inbound.p = None /\ inbound' = NoInbound)
        /\ inbound'.at \notin {"sent", "answer"}
    BY ClosingLocal
  <1>2. \A p \in Proxies : ProxyInv(p)'
    <2>1. inbound' = inbound \/ (inbound.p = None /\ inbound'.p = None)
      BY <1>1 DEF NoInbound
    <2> QED BY <1>1, <2>1, Elsewhere
  <1>3. NoInbound \in Offers
    BY DEF NoInbound, Offers
  <1>4. LocalTypes'
    BY <1>1, <1>3 DEF LocalInv, LocalTypes
  <1>5. PlaceInv'
    BY <1>1 DEF LocalInv, PlaceInv, NoInbound
  <1> QED BY <1>2, <1>4, <1>5 DEF LocalInv

\* The proxy that a thread releases for the last time, and the one it deletes.
LEMMA EndingProxy ==
    ASSUME LocalInv, NEW u \in Users, user[u].p # None,
           user[u].at \in {"releasing", "telling", "shutting", "leaving"}
    PROVE  user[u].p \in Proxies /\ Ending(user[u].p, u)
  <1> DEFINE p == user[u].p
  <1>1. p \in Proxies
    BY DEF LocalInv, LocalTypes, Threads
  <1>2. ProxyInv(p)
    BY <1>1 DEF LocalInv
  <1>3. ~ Absent(p) /\ ~ Live(p) /\ ~ Finished(p)
    BY DEF Absent, Live, Finished
  <1>4. PICK v \in Users : Ending(p, v)
    BY <1>2, <1>3 DEF ProxyInv
  <1>5. u = v
    BY <1>4 DEF Ending
  <1> QED BY <1>1, <1>4, <1>5

\* It goes on with it,
LEMMA EndingGoes ==
    ASSUME LocalInv, NEW u \in Users, user[u].at \in {"releasing", "telling", "shutting"},
           user[u].p # None, NEW a \in {"telling", "shutting"},
           user' = [user EXCEPT ![u].at = a],
           UNCHANGED <<setup, link, inbound, proxy, known, dead, kept, slips>>
    PROVE  LocalInv'
  <1> USE DEF LocalInv
  <1>1. PICK p \in Proxies : p = user[u].p /\ Ending(p, u)
    BY EndingProxy
  <1>2. user' \in [Users -> Threads] /\ OnlyUser(u) /\ user'[u].at = a /\ user'[u].p = p
    BY <1>1, UserAt
  <1>3. p # None
    BY ProxyNumbers
  <1>4. Refs(p)' = Refs(p)
    BY <1>2, RefsByUser DEF One
  <1>5. Ending(p, u)'
    <2>1. \A v \in Users : user'[v].p = p => v = u
      BY <1>1, <1>2 DEF Ending, OnlyUser
    <2> QED BY <1>1, <1>2, <1>4, <2>1 DEF Ending, Apart
  <1>6. OnChannel(p)'
    BY <1>1 DEF ProxyInv, OnChannel, Listed
  <1>7. OnlyProxy(p)
    BY DEF OnlyProxy, LocalTypes
  <1>8. \A q \in Proxies : ProxyInv(q)'
    <2>1. \A q \in Proxies : q # p => ProxyInv(q)'
      BY <1>1, <1>2, <1>7, OthersByUser DEF Listed
    <2>2. ProxyInv(p)'
      BY <1>5, <1>6 DEF ProxyInv
    <2> QED BY <2>1, <2>2
  <1>9. LocalTypes' /\ PlaceInv'
    BY <1>2, <1>3 DEF LocalTypes, PlaceInv, OnlyUser
  <1> QED BY <1>8, <1>9

\* ... or has done with the channel, which may be the end of it.
LEMMA EndingParts ==
    ASSUME LocalInv, NEW u \in Users, user[u].at \in {"releasing", "telling", "shutting"},
           user[u].p # None, proxy' = Parted(user[u].p),
           user' = [user EXCEPT ![u].at = "leaving"],
           UNCHANGED <<setup, known, dead, kept, slips>>,
           \/ UNCHANGED <<link, inbound>>
           \/ link = "open" /\ Closing
    PROVE  LocalInv'
  <1> USE DEF LocalInv
  <1>1. PICK p \in Proxies : p = user[u].p /\ Ending(p, u)
    BY EndingProxy
  <1>2. user' \in [Users -> Threads] /\ OnlyUser(u) /\ user'[u].at = "leaving" /\ user'[u].p = p
    BY <1>1, UserAt
  <1>3. p # None
    BY ProxyNumbers
  <1>4. /\ OnlyProxy(p) /\ proxy'[p].count = proxy[p].count
        /\ proxy'[p].mode = proxy[p].mode /\ proxy'[p].remote = proxy[p].remote
        /\ ~ proxy'[p].channel /\ ~ proxy'[p].lock
    <2>1. proxy' = [proxy EXCEPT ![p].channel = FALSE, ![p].lock = FALSE]
      BY <1>1 DEF Parted
    <2> QED BY <2>1, ChannelAndLock
  <1>5. /\ link = "deleted" => link' = "deleted"
        /\ link' \in {"open", "closed", "deleted"}
        /\ inbound' = inbound \/ (inbound.p = None /\ inbound' = NoInbound)
        /\ inbound'.at \in {"sent", "answer"} => link' = "open"
    <2>1. CASE UNCHANGED <<link, inbound>>
      BY <2>1 DEF PlaceInv, LocalTypes
    <2>2. CASE link = "open" /\ Closing
      BY <2>2, ClosingLocal
    <2> QED BY <2>1, <2>2
  <1>6. /\ inbound'.p = p <=> inbound.p = p
        /\ inbound.p = p => inbound' = inbound
    BY <1>3, <1>5 DEF NoInbound
  <1>7. Refs(p)' = Refs(p)
    <2>1. Inside(p)' = Inside(p)
      BY <1>6 DEF Inside
    <2>2. HoldersOf(p)' = HoldersOf(p)
      BY <1>2 DEF HoldersOf, OnlyUser
    <2> QED BY <2>1, <2>2 DEF Refs, One
  <1>8. ProxyInv(p)'
    <2>1. \A v \in Users : user'[v].p = p => v = u
      BY <1>1, <1>2 DEF Ending, OnlyUser
    <2>2. Apart(p)'
      BY <1>1, <1>6 DEF Ending, Apart
    <2>3. Ending(p, u)'
      BY <1>1, <1>2, <1>4, <1>7, <2>1, <2>2 DEF Ending
    <2>4. ~ (proxy'[p].count >= 2) /\ (p \in dead' => ~ Listed(p)')
      BY <1>1, <1>4 DEF ProxyInv, OnChannel, Listed, Ending
    <2>5. OnChannel(p)'
      BY <1>4, <2>4 DEF OnChannel
    <2> QED BY <2>3, <2>5 DEF ProxyInv
  <1>9. ASSUME NEW q \in Proxies, q # p
        PROVE  ProxyInv(q)'
    <2>1. q # None
      BY ProxyNumbers
    <2>2. Untouched(q)
      BY <1>1, <1>2, <1>4, <1>5, <1>9, <2>1 DEF Untouched, OnlyUser, OnlyProxy, Listed, NoInbound
    <2> QED BY <2>2, UntouchedInv
  <1>10. LocalTypes'
    <2>1. NoInbound \in Offers
      BY DEF NoInbound, Offers
    <2> QED BY <1>2, <1>4, <1>5, <2>1 DEF LocalTypes, OnlyProxy
  <1>11. PlaceInv'
    BY <1>2, <1>3, <1>5 DEF PlaceInv, OnlyUser, NoInbound
  <1> QED BY <1>8, <1>9, <1>10, <1>11

\* A RELEASE is sent: LocalInv is kept.
LEMMA SendReleaseLocal ==
    ASSUME LocalInv, NEW u \in Users, SendRelease(u)
    PROVE  LocalInv'
  <1>1. /\ user[u].at = "releasing" /\ user' = [user EXCEPT ![u].at = "telling"]
        /\ UNCHANGED <<setup, link, inbound, proxy, known, dead, kept, slips>>
    BY DEF SendRelease
  <1>2. user[u].p # None
    BY <1>1 DEF LocalInv, PlaceInv
  <1> QED BY <1>1, <1>2, EndingGoes

\* A call is given up: LocalInv is kept.
LEMMA TimedOutLocal ==
    ASSUME LocalInv, NEW u \in Users, TimedOut(u)
    PROVE  LocalInv'
  <1>1. /\ user[u].at \in {"asking", "telling"}
        /\ \/ user' = [user EXCEPT ![u].at = "shutting"]
           \/ user[u].at = "asking" /\ user' = [user EXCEPT ![u] = Idle]
        /\ UNCHANGED <<setup, link, inbound, proxy, known, dead, kept, slips>>
    BY DEF TimedOut
  <1>2. /\ user[u].at = "asking" => user[u].p = None
        /\ user[u].at = "telling" => user[u].p # None
        /\ inbound.at \in {"sent", "answer"} => link = "open"
        /\ link \in {"open", "closed", "deleted"}
    BY <1>1 DEF LocalInv, PlaceInv, LocalTypes
  <1>3. CASE user[u].at = "asking"
    BY <1>1, <1>2, <1>3, FreeThread
  <1>4. CASE user[u].at = "telling"
    <2>1. user' = [user EXCEPT ![u].at = "shutting"]
      BY <1>1, <1>4
    <2> QED BY <1>1, <1>2, <1>4, <2>1, EndingGoes
  <1> QED BY <1>1, <1>3, <1>4

\* A RELEASE is answered, or has failed: LocalInv is kept.
LEMMA ReleasedLocal ==
    ASSUME LocalInv, NEW u \in Users, Released(u) \/ ReleaseFails(u)
    PROVE  LocalInv'
  <1>1. /\ user[u].at \in {"releasing", "telling"} /\ proxy' = Parted(user[u].p)
        /\ user' = [user EXCEPT ![u].at = "leaving"]
        /\ UNCHANGED <<setup, link, inbound, known, dead, kept, slips>>
    BY DEF Released, ReleaseFails
  <1>2. user[u].p # None
    BY <1>1 DEF LocalInv, PlaceInv
  <1> QED BY <1>1, <1>2, EndingParts

\* Shutdown closes the channel, or leaves it.
LEMMA ShutIs ==
    ASSUME NEW side, Shut(side)
    PROVE  (link = "open" /\ Closing) \/ UNCHANGED <<link, call, inbound>>
  BY DEF Shut

\* The caller in time-out shuts down and goes on: LocalInv is kept.
LEMMA ShutdownLocal ==
    ASSUME LocalInv, NEW u \in Users, Shutdown(u)
    PROVE  LocalInv'
  <1>1. /\ user[u].at = "shutting"
        /\ (link = "open" /\ Closing) \/ UNCHANGED <<link, call, inbound>>
        /\ UNCHANGED <<setup, known, dead, kept, slips>>
    BY ShutIs DEF Shutdown
  <1>2. CASE user[u].p = None
    <2>1. user' = [user EXCEPT ![u] = Idle] /\ UNCHANGED proxy
      BY <1>2 DEF Shutdown
    <2>2. /\ link = "deleted" => link' = "deleted"
          /\ link' \in {"open", "closed", "deleted"}
          /\ inbound' = inbound \/ (inbound.p = None /\ inbound' = NoInbound)
          /\ inbound'.at \in {"sent", "answer"} => link' = "open"
      <3>1. CASE UNCHANGED <<link, call, inbound>>
        BY <3>1 DEF LocalInv, PlaceInv, LocalTypes
      <3>2. CASE link = "open" /\ Closing
        BY <3>2, ClosingLocal
      <3> QED BY <1>1, <3>1, <3>2
    <2> QED BY <1>1, <1>2, <2>1, <2>2, FreeThread
  <1>3. CASE user[u].p # None
    <2>1. user' = [user EXCEPT ![u].at = "leaving"] /\ proxy' = Parted(user[u].p)
      BY <1>3 DEF Shutdown
    <2> QED BY <1>1, <1>3, <2>1, EndingParts
  <1> QED BY <1>2, <1>3

\* A step of one thread and one proxy leaves the rest as it is.
LEMMA UserStep ==
    ASSUME LocalInv, NEW u \in Users, NEW p \in Proxies, OnlyUser(u), OnlyProxy(p),
           user' \in [Users -> Threads],
           user[u].p \in {None, p}, user'[u].p \in {None, p},
           user'[u].at \in {"idle", "asking", "returned"} => user'[u].p = None,
           user'[u].at \in {"holds", "releasing", "telling", "leaving"} => user'[u].p # None,
           UNCHANGED <<setup, link, inbound, dead>>,
           known' \in Seq(Proxies), \A i, j \in DOMAIN known' : known'[i] = known'[j] => i = j,
           kept' \in Proxies \cup {None}, slips \subseteq slips', slips' \subseteq Windows,
           \A q \in Proxies : q # p => (kept' = q <=> kept = q) /\ (Listed(q)' <=> Listed(q)),
           ProxyInv(p)'
    PROVE  LocalInv'
  <1> USE DEF LocalInv
  <1>1. \A q \in Proxies : ProxyInv(q)'
    BY OthersByUser
  <1>2. LocalTypes'
    BY DEF LocalTypes, OnlyProxy
  <1>3. PlaceInv'
    BY DEF PlaceInv, OnlyUser
  <1> QED BY <1>1, <1>2, <1>3

\* A thread comes to hold a proxy.
LEMMA HoldsOne ==
    ASSUME LocalTypes, NEW u \in Users, NEW p \in Proxies,
           user' = [user EXCEPT ![u] = [at |-> "holds", p |-> p]]
    PROVE  /\ user' \in [Users -> Threads] /\ OnlyUser(u)
           /\ user'[u].at = "holds" /\ user'[u].p = p /\ p # None
  <1> DEFINE r == [at |-> "holds", p |-> p]
  <1>1. r \in Threads /\ r.at = "holds" /\ r.p = p /\ user' = [user EXCEPT ![u] = r]
    BY DEF Threads
  <1> HIDE DEF r
  <1> QED BY <1>1, UserIs, ProxyNumbers

\* ... or to work on none.
LEMMA WorksOnNone ==
    ASSUME LocalTypes, NEW u \in Users, user' = [user EXCEPT ![u] = Idle]
    PROVE  /\ user' \in [Users -> Threads] /\ OnlyUser(u)
           /\ user'[u].at = "idle" /\ user'[u].p = None
  <1>1. Idle \in Threads /\ Idle.at = "idle" /\ Idle.p = None
    BY DEF Idle, Threads
  <1> QED BY <1>1, UserIs

\* A proxy is made or found for what was returned: LocalInv is kept.
LEMMA ObtainLocal ==
    ASSUME LocalInv, NEW u \in Users, Obtain(u)
    PROVE  LocalInv'
  <1> USE DEF LocalInv
  <1>0. PICK p : p = Chosen
    OBVIOUS
  <1>1. /\ user[u].at = "returned" /\ Possible /\ Instance(p, {})
        /\ user' = [user EXCEPT ![u] = [at |-> "holds", p |-> p]]
        /\ UNCHANGED <<setup, link, inbound, dead, kept, slips>>
    BY <1>0 DEF Obtain
  <1>2. /\ p \in Proxies /\ OnlyProxy(p) /\ ~ proxy'[p].lock /\ Listed(p)'
        /\ known' \in Seq(Proxies)
        /\ \A i, j \in DOMAIN known' : known'[i] = known'[j] => i = j
        /\ \A q \in Proxies : q # p => (Listed(q)' <=> Listed(q))
        /\ \/ /\ Absent(p) /\ proxy'[p].count = 2 /\ proxy'[p].channel
              /\ proxy'[p].remote = 1
           \/ /\ Live(p) /\ Listed(p) /\ proxy'[p].count = proxy[p].count + 1
              /\ proxy'[p].channel = proxy[p].channel
              /\ proxy'[p].remote = proxy[p].remote + 1
    <2>1. {} \in {{}, {"release"}}
      OBVIOUS
    <2> QED BY <1>0, <1>1, <2>1, InstanceStep
  <1>3. /\ user' \in [Users -> Threads] /\ OnlyUser(u)
        /\ user'[u].at = "holds" /\ user'[u].p = p /\ p # None
    BY <1>1, <1>2, HoldsOne
  <1>4. user[u].p = None
    BY <1>1 DEF PlaceInv
  <1>5. proxy[p].count \in Nat /\ proxy[p].remote \in Nat
    BY <1>2, ProxyType
  <1>6. Refs(p) \in Nat /\ Refs(p)' = Refs(p) + 1 /\ Refs(p) >= One(p \in dead)
    <2>1. /\ Refs(p) \in Nat /\ Refs(p)' \in Nat
          /\ Refs(p)' = Refs(p) - One(user[u].at = "holds" /\ user[u].p = p)
                                + One(user'[u].at = "holds" /\ user'[u].p = p)
          /\ Refs(p) >= One(user[u].at = "holds" /\ user[u].p = p) + One(kept = p)
                         + One(Inside(p)) + One(p \in dead)
      BY <1>1, <1>2, <1>3, RefsByUser
    <2> QED BY <1>1, <1>3, <1>4, <2>1 DEF One
  <1>7. ProxyInv(p)'
    <2>1. ~ Finishing(p)'
      BY <1>1, <1>2 DEF Finishing, Absent, Live, Apart
    <2>2. \A v \in Users : user'[v].p = p => user'[v].at = "holds"
      BY <1>2, <1>3 DEF OnlyUser, Absent, Live
    <2>3. proxy'[p].count = 1 + Refs(p)' /\ proxy'[p].remote >= 1
      <3>1. Absent(p) => Refs(p) = 0
        BY DEF Absent
      <3>2. Live(p) => proxy[p].count = 1 + Refs(p)
        BY DEF Live
      <3> QED BY <1>2, <1>5, <1>6, <3>1, <3>2
    <2>4. Live(p)'
      BY <1>2, <1>6, <2>1, <2>2, <2>3 DEF Live
    <2>5. OnChannel(p)'
      <3>1. CASE Absent(p)
        <4>1. p \notin dead /\ proxy'[p].channel
          BY <1>2, <1>6, <3>1 DEF Absent, One, Live
        <4> QED BY <1>1, <1>2, <4>1 DEF OnChannel
      <3>2. CASE Live(p) /\ Listed(p) /\ proxy'[p].channel = proxy[p].channel
        <4>1. OnChannel(p) /\ proxy[p].count >= 2
          BY <1>2, <1>5, <1>6, <3>2 DEF ProxyInv, Live
        <4> QED BY <1>1, <1>2, <3>2, <4>1 DEF OnChannel
      <3> QED BY <1>2, <3>1, <3>2
    <2> QED BY <2>4, <2>5 DEF ProxyInv
  <1>8. kept' \in Proxies \cup {None} /\ slips' \subseteq Windows /\ slips \subseteq slips'
    BY <1>1 DEF LocalTypes
  <1> QED BY <1>1, <1>2, <1>3, <1>4, <1>7, <1>8, UserStep

\* A thread adds a reference: LocalInv is kept.
LEMMA CopyLocal ==
    ASSUME LocalInv, NEW u \in Users, Copy(u)
    PROVE  LocalInv'
  <1> USE DEF LocalInv
  <1>1. PICK p \in Proxies :
            /\ p = kept \/ \E v \in Users : user[v] = [at |-> "holds", p |-> p]
            /\ proxy' = [proxy EXCEPT ![p].count = @ + 1]
            /\ user' = [user EXCEPT ![u] = [at |-> "holds", p |-> p]]
    BY DEF Copy
  <1>2. /\ user[u].at = "idle" /\ user[u].p = None
        /\ UNCHANGED <<setup, link, inbound, known, dead, kept, slips>>
    BY DEF Copy, PlaceInv
  <1>3. Live(p) /\ proxy[p].count = 1 + Refs(p) /\ proxy[p].count >= 2 /\ Refs(p) \in Nat
    BY <1>1, ReferredBy
  <1>4. /\ OnlyProxy(p) /\ proxy'[p].count = proxy[p].count + 1
        /\ proxy'[p].mode = proxy[p].mode /\ proxy'[p].remote = proxy[p].remote
        /\ proxy'[p].channel = proxy[p].channel /\ proxy'[p].lock = proxy[p].lock
    <2> DEFINE n == proxy[p].count + 1
    <2>1. n \in Nat /\ proxy' = [proxy EXCEPT ![p].count = n]
      BY <1>1, <1>3
    <2> HIDE DEF n
    <2>2. /\ OnlyProxy(p) /\ proxy'[p].count = n
          /\ proxy'[p].mode = proxy[p].mode /\ proxy'[p].remote = proxy[p].remote
          /\ proxy'[p].channel = proxy[p].channel /\ proxy'[p].lock = proxy[p].lock
      BY <2>1, CountTo
    <2> QED BY <2>2 DEF n
  <1>5. /\ user' \in [Users -> Threads] /\ OnlyUser(u) /\ user'[u].at = "holds" /\ user'[u].p = p
        /\ p # None
    BY <1>1, HoldsOne
  <1>6. Refs(p)' = Refs(p) + 1
    BY <1>2, <1>3, <1>5, RefsByUser DEF One
  <1>7. ProxyInv(p)'
    <2>1. ~ Finishing(p)' /\ \A v \in Users : user'[v].p = p => user'[v].at = "holds"
      BY <1>2, <1>3, <1>5 DEF Finishing, Live, OnlyUser
    <2>2. Live(p)'
      BY <1>3, <1>4, <1>6, <2>1 DEF Live
    <2>3. OnChannel(p)'
      BY <1>2, <1>3, <1>4 DEF OnChannel, ProxyInv, Listed
    <2> QED BY <2>2, <2>3 DEF ProxyInv
  <1>8. /\ known' \in Seq(Proxies) /\ \A i, j \in DOMAIN known' : known'[i] = known'[j] => i = j
        /\ kept' \in Proxies \cup {None} /\ slips' \subseteq Windows /\ slips \subseteq slips'
        /\ \A q \in Proxies : Listed(q)' <=> Listed(q)
    BY <1>2 DEF LocalTypes, Listed
  <1> QED BY <1>2, <1>4, <1>5, <1>7, <1>8, UserStep

\* A thread takes over what is kept: LocalInv is kept.
LEMMA TakeKeptLocal ==
    ASSUME LocalInv, NEW u \in Users, TakeKept(u)
    PROVE  LocalInv'
  <1> USE DEF LocalInv
  <1>1. /\ user[u].at = "idle" /\ user[u].p = None /\ kept \in Proxies /\ kept' = None
        /\ UNCHANGED <<setup, link, inbound, proxy, known, dead, slips>>
    BY DEF TakeKept, PlaceInv, LocalTypes
  <1>2. PICK p \in Proxies : p = kept
    BY <1>1
  <1>3. /\ user' \in [Users -> Threads] /\ OnlyUser(u) /\ user'[u].at = "holds" /\ user'[u].p = p
        /\ p # None
    BY <1>2, HoldsOne DEF TakeKept
  <1>4. Live(p) /\ proxy[p].count = 1 + Refs(p) /\ Refs(p) \in Nat
    BY <1>2, ReferredBy
  <1>5. Refs(p)' = Refs(p)
    <2>1. /\ Refs(p)' = Refs(p)
                - One(user[u].at = "holds" /\ user[u].p = p)
                + One(user'[u].at = "holds" /\ user'[u].p = p)
                - One(kept = p) + One(kept' = p)
                - One(Inside(p)) + One(Inside(p)')
                - One(p \in dead) + One(p \in dead')
      BY <1>3, RefsChange
    <2>2. Inside(p)' = Inside(p) /\ dead' = dead
      BY <1>1 DEF Inside
    <2> QED BY <1>1, <1>2, <1>3, <1>4, <2>1, <2>2 DEF One
  <1>6. ProxyInv(p)'
    <2>1. ~ Finishing(p)' /\ \A v \in Users : user'[v].p = p => user'[v].at = "holds"
      BY <1>1, <1>3, <1>4 DEF Finishing, Live, OnlyUser
    <2>2. Live(p)'
      BY <1>1, <1>4, <1>5, <2>1 DEF Live
    <2>3. OnChannel(p)'
      BY <1>1 DEF OnChannel, ProxyInv, Listed
    <2> QED BY <2>2, <2>3 DEF ProxyInv
  <1>7. OnlyProxy(p)
    BY <1>1 DEF OnlyProxy, LocalTypes
  <1>8. /\ known' \in Seq(Proxies) /\ \A i, j \in DOMAIN known' : known'[i] = known'[j] => i = j
        /\ kept' \in Proxies \cup {None} /\ slips' \subseteq Windows /\ slips \subseteq slips'
        /\ \A q \in Proxies : q # p => (kept' = q <=> kept = q) /\ (Listed(q)' <=> Listed(q))
    BY <1>1, <1>2, ProxyNumbers DEF LocalTypes, Listed
  <1> QED BY <1>1, <1>3, <1>6, <1>7, <1>8, UserStep

\* What Release does to the proxy and the thread.
LEMMA DropIs ==
    ASSUME LocalInv, NEW u \in Users, Drop(u), NEW p \in Proxies, p = user[u].p
    PROVE  /\ OnlyProxy(p) /\ proxy'[p].mode = proxy[p].mode /\ proxy'[p].remote = proxy[p].remote
           /\ user' \in [Users -> Threads] /\ OnlyUser(u)
           /\ \/ /\ proxy[p].count > 2 /\ proxy'[p].count = proxy[p].count - 1
                 /\ proxy'[p].lock = proxy[p].lock /\ proxy'[p].channel = proxy[p].channel
                 /\ user'[u] = Idle /\ slips' = slips
              \/ /\ proxy[p].count = 2 /\ proxy'[p].count = 1 /\ slips' = slips \cup Gap(p)
                 /\ proxy[p].channel /\ proxy[p].mode = {}
                 /\ proxy'[p].lock /\ proxy'[p].channel
                 /\ user'[u].at = "releasing" /\ user'[u].p = p
              \/ /\ proxy[p].count = 2 /\ proxy'[p].count = 1 /\ slips' = slips \cup Gap(p)
                 /\ ~ (proxy[p].channel /\ proxy[p].mode = {})
                 /\ proxy'[p].lock = proxy[p].lock /\ ~ proxy'[p].channel
                 /\ user'[u].at = "leaving" /\ user'[u].p = p
  <1> USE DEF LocalInv
  <1>1. user[u].at = "holds"
    BY DEF Drop
  <1>2. proxy[p].count = 1 + Refs(p) /\ proxy[p].count >= 2 /\ Refs(p) \in Nat
    BY <1>1, ReferredBy
  <1>3. CASE proxy[p].count > 2
    <2> DEFINE n == proxy[p].count - 1
    <2>1. n \in Nat
      BY <1>2
    <2>2. /\ proxy' = [proxy EXCEPT ![p].count = n] /\ user' = [user EXCEPT ![u] = Idle]
          /\ slips' = slips
      BY <1>3 DEF Drop
    <2>3. Idle \in Threads
      BY DEF Idle, Threads
    <2>4. user' \in [Users -> Threads] /\ OnlyUser(u) /\ user'[u] = Idle
      BY <2>2, <2>3, UserIs
    <2> HIDE DEF n
    <2>5. /\ OnlyProxy(p) /\ proxy'[p].count = n
          /\ proxy'[p].mode = proxy[p].mode /\ proxy'[p].remote = proxy[p].remote
          /\ proxy'[p].channel = proxy[p].channel /\ proxy'[p].lock = proxy[p].lock
      BY <2>1, <2>2, CountTo
    <2> QED BY <1>3, <2>2, <2>4, <2>5 DEF n
  <1>4. CASE proxy[p].count = 2 /\ proxy[p].channel /\ proxy[p].mode = {}
    <2>1. /\ proxy' = [proxy EXCEPT ![p].count = 1, ![p].lock = TRUE]
          /\ user' = [user EXCEPT ![u].at = "releasing"]
          /\ slips' = slips \cup Gap(p)
      BY <1>4 DEF Drop
    <2>2. /\ user' \in [Users -> Threads] /\ OnlyUser(u)
          /\ user'[u].at = "releasing" /\ user'[u].p = user[u].p
      BY <2>1, UserAt
    <2>3. /\ OnlyProxy(p) /\ proxy'[p].count = 1 /\ proxy'[p].lock = TRUE
          /\ proxy'[p].mode = proxy[p].mode /\ proxy'[p].remote = proxy[p].remote
          /\ proxy'[p].channel = proxy[p].channel
      BY <2>1, CountAndLock
    <2> QED BY <1>4, <2>1, <2>2, <2>3
  <1>5. CASE proxy[p].count = 2 /\ ~ (proxy[p].channel /\ proxy[p].mode = {})
    <2>1. /\ proxy' = [proxy EXCEPT ![p].count = 1, ![p].channel = FALSE]
          /\ user' = [user EXCEPT ![u].at = "leaving"]
          /\ slips' = slips \cup Gap(p)
      BY <1>5 DEF Drop
    <2>2. /\ user' \in [Users -> Threads] /\ OnlyUser(u)
          /\ user'[u].at = "leaving" /\ user'[u].p = user[u].p
      BY <2>1, UserAt
    <2>3. /\ OnlyProxy(p) /\ proxy'[p].count = 1 /\ proxy'[p].channel = FALSE
          /\ proxy'[p].mode = proxy[p].mode /\ proxy'[p].remote = proxy[p].remote
          /\ proxy'[p].lock = proxy[p].lock
      BY <2>1, CountAndChannel
    <2> QED BY <1>5, <2>1, <2>2, <2>3
  <1> QED BY <1>2, <1>3, <1>4, <1>5

\* Complete is not at work on a proxy whose last reference a thread drops, or
\* that is in its gap.
LEMMA DropApart ==
    ASSUME LocalInv, NEW u \in Users, user[u].at = "holds", NEW p \in Proxies, p = user[u].p,
           proxy[p].count = 2, OnlyUser(u), UNCHANGED <<kept, inbound, dead>>,
           slips' = slips \cup Gap(p)
    PROVE  Apart(p)' /\ p \notin dead
  <1> USE DEF LocalInv
  <1>1. Live(p) /\ proxy[p].count = 1 + Refs(p) /\ Refs(p) \in Nat
    BY ReferredBy
  <1>2. Refs(p) >= One(user[u].at = "holds" /\ user[u].p = p) + One(kept = p)
                    + One(Inside(p)) + One(p \in dead)
    BY RefsByUser
  <1>3. ~ Inside(p) /\ p \notin dead
    BY <1>1, <1>2 DEF One
  <1>4. inbound.p = p => inbound.at = "gap" /\ ~ inbound.gone
    <2>1. p # None
      BY ProxyNumbers
    <2>2. inbound.p = p => inbound.at \in {"inside", "gap"}
      BY <2>1 DEF PlaceInv
    <2> QED BY <1>1, <1>3, <2>2 DEF Inside, Live, Finishing
  <1> QED BY <1>3, <1>4 DEF Apart, Gap

\* A thread drops its reference: LocalInv is kept.
LEMMA DropLocal ==
    ASSUME LocalInv, NEW u \in Users, Drop(u)
    PROVE  LocalInv'
  <1> USE DEF LocalInv
  <1>1. /\ user[u].at = "holds" /\ user[u].p # None
        /\ UNCHANGED <<setup, link, inbound, known, dead, kept>>
    BY DEF Drop, PlaceInv
  <1>2. PICK p \in Proxies : p = user[u].p
    BY <1>1 DEF LocalTypes, Threads
  <1>3. /\ OnlyProxy(p) /\ proxy'[p].mode = proxy[p].mode /\ proxy'[p].remote = proxy[p].remote
        /\ user' \in [Users -> Threads] /\ OnlyUser(u)
        /\ \/ /\ proxy[p].count > 2 /\ proxy'[p].count = proxy[p].count - 1
              /\ proxy'[p].lock = proxy[p].lock /\ proxy'[p].channel = proxy[p].channel
              /\ user'[u] = Idle /\ slips' = slips
           \/ /\ proxy[p].count = 2 /\ proxy'[p].count = 1 /\ slips' = slips \cup Gap(p)
              /\ proxy[p].channel /\ proxy[p].mode = {}
              /\ proxy'[p].lock /\ proxy'[p].channel
              /\ user'[u].at = "releasing" /\ user'[u].p = p
           \/ /\ proxy[p].count = 2 /\ proxy'[p].count = 1 /\ slips' = slips \cup Gap(p)
              /\ ~ (proxy[p].channel /\ proxy[p].mode = {})
              /\ proxy'[p].lock = proxy[p].lock /\ ~ proxy'[p].channel
              /\ user'[u].at = "leaving" /\ user'[u].p = p
    BY <1>2, DropIs
  <1>4. Live(p) /\ proxy[p].count = 1 + Refs(p) /\ proxy[p].count >= 2 /\ Refs(p) \in Nat
    BY <1>1, <1>2, ReferredBy
  <1>5. p # None
    BY ProxyNumbers
  <1>6. Refs(p)' = Refs(p) - 1 /\ Refs(p)' \in Nat
    <2>1. /\ Refs(p) \in Nat /\ Refs(p)' \in Nat
          /\ Refs(p)' = Refs(p) - One(user[u].at = "holds" /\ user[u].p = p)
                                + One(user'[u].at = "holds" /\ user'[u].p = p)
      BY <1>1, <1>3, RefsByUser
    <2> QED BY <1>1, <1>2, <1>3, <2>1 DEF One, Idle
  <1>7. slips \subseteq slips' /\ slips' \subseteq Windows
    BY <1>3 DEF Gap, Windows, LocalTypes
  <1>8. Listed(p)' = Listed(p) /\ OnChannel(p)
    BY <1>1 DEF Listed, ProxyInv
  <1>9. CASE proxy[p].count > 2
    <2>1. /\ proxy'[p].count = proxy[p].count - 1 /\ user'[u] = Idle
          /\ proxy'[p].lock = proxy[p].lock /\ proxy'[p].channel = proxy[p].channel
      BY <1>3, <1>9
    <2>2. ~ Finishing(p)' /\ \A v \in Users : user'[v].p = p => user'[v].at = "holds"
      BY <1>1, <1>3, <1>4, <1>5, <2>1 DEF Finishing, Live, OnlyUser, Idle
    <2>3. Live(p)'
      <3>1. Refs(p)' >= 1 /\ proxy'[p].count = 1 + Refs(p)'
        BY <1>4, <1>6, <1>9, <2>1
      <3> QED BY <1>3, <1>4, <2>1, <2>2, <3>1 DEF Live
    <2>4. OnChannel(p)'
      BY <1>1, <1>4, <1>8, <2>1 DEF OnChannel
    <2>5. ProxyInv(p)'
      BY <2>3, <2>4 DEF ProxyInv
    <2> QED BY <1>1, <1>2, <1>3, <1>7, <2>1, <2>5, UserStep DEF LocalTypes, Listed, Idle
  <1>10. CASE proxy[p].count = 2
    <2>1. Apart(p)' /\ p \notin dead
      BY <1>1, <1>2, <1>3, <1>10, DropApart
    <2>2. Refs(p)' = 0 /\ proxy'[p].count = 1
      BY <1>3, <1>4, <1>6, <1>10
    <2>3. \A v \in Users : user'[v].p = p => v = u
      <3>1. Cardinality(HoldersOf(p)') = 0
        <4>1. Cardinality(HoldersOf(p)') \in Nat
          BY <1>3, HoldersChange
        <4> QED BY <2>2, <4>1 DEF Refs, One
      <3>2. \A v \in Users : ~ (user'[v].at = "holds" /\ user'[v].p = p)
        BY <3>1, NobodyHoldsNext
      <3> QED BY <1>3, <1>4, <3>2 DEF OnlyUser, Live
    <2>4. Ending(p, u)'
      BY <1>3, <1>4, <1>10, <2>1, <2>2, <2>3 DEF Ending, Live
    <2>5. OnChannel(p)'
      BY <1>1, <1>3, <1>8, <1>10, <2>1, <2>2 DEF OnChannel
    <2>6. ProxyInv(p)'
      BY <2>4, <2>5 DEF ProxyInv
    <2>7. user'[u].p = p /\ user'[u].at \in {"releasing", "leaving"}
      BY <1>3, <1>10
    <2> QED BY <1>1, <1>2, <1>3, <1>5, <1>7, <2>6, <2>7, UserStep DEF LocalTypes, Listed
  <1> QED BY <1>4, <1>9, <1>10

\* A proxy leaves the administration: LocalInv is kept.
LEMMA LeaveLocal ==
    ASSUME LocalInv, NEW u \in Users, Leave(u)
    PROVE  LocalInv'
  <1> USE DEF LocalInv
  <1>1. user[u].at = "leaving" /\ user[u].p # None
    BY DEF Leave, PlaceInv
  <1>2. PICK p \in Proxies : p = user[u].p /\ Ending(p, u)
    BY <1>1, EndingProxy
  <1>3. /\ known' = Without(p)
        /\ proxy' = [proxy EXCEPT ![p] = NoProxy] /\ user' = [user EXCEPT ![u] = Idle]
        /\ UNCHANGED <<setup, link, inbound, dead, kept, slips>>
    BY <1>2 DEF Leave
  <1>4. p # None
    BY ProxyNumbers
  <1>5. OnlyProxy(p) /\ proxy'[p] = NoProxy
    <2>1. NoProxy \in Counts
      BY DEF NoProxy, Counts
    <2> QED BY <1>3, <2>1, ProxyIs
  <1>6. user' \in [Users -> Threads] /\ OnlyUser(u) /\ user'[u].at = "idle" /\ user'[u].p = None
    BY <1>3, WorksOnNone
  <1>7. /\ known' \in Seq(Proxies)
        /\ \A i, j \in DOMAIN known' : known'[i] = known'[j] => i = j
        /\ \A q \in Proxies : Listed(q)' <=> Listed(q) /\ q # p
    BY <1>3, WithoutListed
  <1>8. Refs(p)' = 0
    <2>1. /\ Refs(p)' = Refs(p) - One(user[u].at = "holds" /\ user[u].p = p)
                                + One(user'[u].at = "holds" /\ user'[u].p = p)
      BY <1>3, <1>6, RefsByUser
    <2> QED BY <1>1, <1>2, <1>6, <2>1 DEF One, Ending
  <1>9. ProxyInv(p)'
    <2>1. \A v \in Users : user'[v].p # p
      BY <1>2, <1>4, <1>6 DEF OnlyUser, Ending
    <2>2. Apart(p)'
      BY <1>2, <1>3 DEF Apart, Ending
    <2>3. Absent(p)'
      BY <1>5, <1>7, <1>8, <2>1, <2>2 DEF Absent
    <2>4. OnChannel(p)'
      BY <1>5, <1>7 DEF OnChannel, NoProxy
    <2> QED BY <2>3, <2>4 DEF ProxyInv
  <1> QED BY <1>2, <1>3, <1>5, <1>6, <1>7, <1>9, UserStep DEF LocalTypes

-----------------------------------------------------------------------------
(* The call that offers the object, in the process of the user.             *)

\* The fields of the offer as it goes on.
LEMMA OfferType ==
    ASSUME LocalTypes
    PROVE  /\ inbound \in Offers /\ inbound.gone \in BOOLEAN /\ inbound.p \in Proxies \cup {None}
           /\ inbound.cached \in {"none", "addref", "release"}
  BY DEF LocalTypes, Offers

\* A step of the offer and of one proxy leaves the rest as it is.
LEMMA OfferStep ==
    ASSUME LocalInv, NEW p \in Proxies, OnlyProxy(p),
           UNCHANGED <<setup, link, dead, user>>,
           slips \subseteq slips', slips' \subseteq Windows,
           inbound.p \in {None, p}, inbound'.p \in {None, p}, inbound' \in Offers,
           inbound'.p = None <=> inbound'.at \notin {"inside", "gap"},
           inbound'.gone => inbound'.at = "gap",
           inbound'.cached # "none" => inbound'.at = "answer",
           inbound'.at \in {"sent", "answer"} => link = "open",
           known' \in Seq(Proxies), \A i, j \in DOMAIN known' : known'[i] = known'[j] => i = j,
           kept' \in Proxies \cup {None},
           \A q \in Proxies : q # p => (kept' = q <=> kept = q) /\ (Listed(q)' <=> Listed(q)),
           ProxyInv(p)'
    PROVE  LocalInv'
  <1> USE DEF LocalInv
  <1>1. \A q \in Proxies : ProxyInv(q)'
    BY OthersByOffer
  <1>2. LocalTypes'
    BY DEF LocalTypes, OnlyProxy
  <1>3. PlaceInv'
    BY DEF PlaceInv
  <1> QED BY <1>1, <1>2, <1>3

\* A proxy is made or found for a parameter: LocalInv is kept.
LEMMA UnmarshalLocal ==
    ASSUME LocalInv, Unmarshal
    PROVE  LocalInv'
  <1> USE DEF LocalInv
  <1>0. PICK p : p = Chosen
    OBVIOUS
  <1>1. /\ inbound.at = "begun" /\ Possible /\ Instance(p, {"release"})
        /\ inbound' = [inbound EXCEPT !.at = "inside", !.p = p]
        /\ UNCHANGED <<setup, link, dead, user, kept, slips>>
    BY <1>0 DEF Unmarshal
  <1>2. inbound.p = None /\ inbound.gone = FALSE /\ inbound.cached = "none"
    BY <1>1, OfferType DEF PlaceInv
  <1>3. /\ p \in Proxies /\ OnlyProxy(p) /\ ~ proxy'[p].lock /\ Listed(p)'
        /\ known' \in Seq(Proxies)
        /\ \A i, j \in DOMAIN known' : known'[i] = known'[j] => i = j
        /\ \A q \in Proxies : q # p => (Listed(q)' <=> Listed(q))
        /\ \/ /\ Absent(p) /\ proxy'[p].count = 2 /\ proxy'[p].channel
              /\ proxy'[p].remote = 1
           \/ /\ Live(p) /\ Listed(p) /\ proxy'[p].count = proxy[p].count + 1
              /\ proxy'[p].channel = proxy[p].channel
              /\ proxy'[p].remote = proxy[p].remote + 0
    <2>1. {"release"} \in {{}, {"release"}} /\ {"release"} # {}
      OBVIOUS
    <2> QED BY <1>0, <1>1, <2>1, InstanceStep
  <1>4. p # None
    BY <1>3, ProxyNumbers
  <1>5. /\ inbound' \in Offers /\ inbound'.at = "inside" /\ inbound'.p = p
        /\ inbound'.gone = FALSE /\ inbound'.cached = "none"
    BY <1>1, <1>2, <1>3, OfferType DEF Offers
  <1>6. proxy[p].count \in Nat /\ proxy[p].remote \in Nat
    BY <1>3, ProxyType
  <1>7. Refs(p) \in Nat /\ Refs(p)' = Refs(p) + 1 /\ Refs(p) >= One(p \in dead)
    <2>1. kept' = kept /\ dead' = dead /\ Inside(p)' /\ ~ Inside(p)
      BY <1>1, <1>5 DEF Inside
    <2>2. /\ Refs(p) \in Nat
          /\ Refs(p)' = Refs(p)
                - One(kept = p) + One(kept' = p)
                - One(Inside(p)) + One(Inside(p)')
                - One(p \in dead) + One(p \in dead')
          /\ Refs(p) >= One(kept = p) + One(Inside(p)) + One(p \in dead)
      BY <1>1, <1>3, RefsKept
    <2> QED BY <2>1, <2>2 DEF One
  <1>8. ProxyInv(p)'
    <2>1. ~ Finishing(p)' /\ \A v \in Users : user'[v].p = p => user'[v].at = "holds"
      BY <1>1, <1>3, <1>5 DEF Finishing, Absent, Live
    <2>2. proxy'[p].count = 1 + Refs(p)' /\ proxy'[p].remote >= 1
      <3>1. Absent(p) => Refs(p) = 0
        BY DEF Absent
      <3>2. Live(p) => proxy[p].count = 1 + Refs(p) /\ proxy[p].remote >= 1
        BY DEF Live
      <3> QED BY <1>3, <1>6, <1>7, <3>1, <3>2
    <2>3. Live(p)'
      BY <1>3, <1>7, <2>1, <2>2 DEF Live
    <2>4. p \notin dead
      <3>1. CASE Absent(p)
        BY <1>7, <3>1 DEF Absent, One
      <3>2. CASE Listed(p)
        BY <1>3, <3>2 DEF ProxyInv, OnChannel
      <3> QED BY <1>3, <3>1, <3>2
    <2>5. OnChannel(p)'
      <3>1. proxy[p].count >= 2 /\ link # "deleted" => proxy[p].channel
        BY <1>3 DEF ProxyInv, OnChannel
      <3>2. Live(p) => proxy[p].count >= 2
        BY <1>6, <1>7 DEF Live
      <3> QED BY <1>1, <1>3, <2>4, <3>1, <3>2 DEF OnChannel
    <2> QED BY <2>3, <2>5 DEF ProxyInv
  <1>9. kept' \in Proxies \cup {None} /\ slips' \subseteq Windows /\ slips \subseteq slips'
    BY <1>1 DEF LocalTypes
  <1> QED BY <1>1, <1>2, <1>3, <1>4, <1>5, <1>8, <1>9, OfferStep

\* The callee keeps or lets go of the proxy, inside of the call.
LEMMA KeepingLocal ==
    ASSUME LocalInv, Keep \/ LetGo
    PROVE  LocalInv'
  <1> USE DEF LocalInv
  <1>1. /\ inbound.at = "inside"
        /\ UNCHANGED <<setup, link, inbound, known, dead, user, slips>>
    BY DEF Keep, LetGo
  <1>2. PICK p \in Proxies : p = inbound.p
    BY <1>1, OfferType DEF PlaceInv
  <1>3. p # None
    BY ProxyNumbers
  <1>4. Live(p) /\ proxy[p].count = 1 + Refs(p) /\ proxy[p].count >= 2 /\ Refs(p) \in Nat
    BY <1>1, <1>2, ReferredBy DEF Inside
  <1>5. PICK n : n = IF Keep THEN proxy[p].count + 1 ELSE proxy[p].count - 1
    OBVIOUS
  <1>6. /\ n \in Nat /\ proxy' = [proxy EXCEPT ![p].count = n]
        /\ \/ n = proxy[p].count + 1 /\ kept = None /\ kept' = p
           \/ n = proxy[p].count - 1 /\ kept = p /\ kept' = None
    BY <1>2, <1>4, <1>5 DEF Keep, LetGo
  <1>7. /\ OnlyProxy(p) /\ proxy'[p].count = n
        /\ proxy'[p].mode = proxy[p].mode /\ proxy'[p].remote = proxy[p].remote
        /\ proxy'[p].channel = proxy[p].channel /\ proxy'[p].lock = proxy[p].lock
    BY <1>6, CountTo
  <1>8. Refs(p)' \in Nat /\ Refs(p)' >= 1 /\ n = 1 + Refs(p)'
    <2>1. dead' = dead /\ Inside(p)' = Inside(p) /\ Inside(p)
      BY <1>1, <1>2 DEF Inside
    <2>2. /\ Refs(p) \in Nat /\ Refs(p)' \in Nat
          /\ Refs(p)' = Refs(p)
                - One(kept = p) + One(kept' = p)
                - One(Inside(p)) + One(Inside(p)')
                - One(p \in dead) + One(p \in dead')
          /\ Refs(p) >= One(kept = p) + One(Inside(p)) + One(p \in dead)
      BY <1>1, RefsKept
    <2> QED BY <1>3, <1>4, <1>6, <2>1, <2>2 DEF One
  <1>9. ProxyInv(p)'
    <2>1. Live(p)'
      BY <1>1, <1>4, <1>7, <1>8 DEF Live, Finishing
    <2>2. OnChannel(p)'
      BY <1>1, <1>4, <1>7 DEF OnChannel, ProxyInv, Listed
    <2> QED BY <2>1, <2>2 DEF ProxyInv
  <1>10. /\ known' \in Seq(Proxies) /\ \A i, j \in DOMAIN known' : known'[i] = known'[j] => i = j
         /\ kept' \in Proxies \cup {None} /\ slips' \subseteq Windows /\ slips \subseteq slips'
         /\ \A q \in Proxies : q # p => (kept' = q <=> kept = q) /\ (Listed(q)' <=> Listed(q))
    BY <1>1, <1>6, ProxyNumbers DEF LocalTypes, Listed
  <1>11. /\ inbound' \in Offers
         /\ inbound'.p = None <=> inbound'.at \notin {"inside", "gap"}
         /\ inbound'.gone => inbound'.at = "gap"
         /\ inbound'.cached # "none" => inbound'.at = "answer"
    BY <1>1, OfferType DEF PlaceInv
  <1>12. inbound' = inbound /\ (inbound'.at \in {"sent", "answer"} => link = "open")
    BY <1>1 DEF PlaceInv
  <1> QED BY <1>1, <1>2, <1>7, <1>9, <1>10, <1>11, <1>12, OfferStep

\* Complete begins.
LEMMA CompleteReleaseIs ==
    ASSUME LocalInv, CompleteRelease, NEW p \in Proxies, p = inbound.p,
           NEW last \in BOOLEAN, last <=> proxy[p].count = 2
    PROVE  /\ inbound.at = "inside" /\ inbound.cached = "none" /\ inbound.gone = FALSE
           /\ Live(p) /\ proxy[p].count = 1 + Refs(p) /\ proxy[p].count >= 2 /\ Refs(p) \in Nat
           /\ inbound' \in Offers /\ inbound'.at = "gap" /\ inbound'.p = p
           /\ inbound'.gone = last /\ inbound'.cached = "none"
           /\ OnlyProxy(p) /\ proxy'[p].count = proxy[p].count - 1
           /\ proxy'[p].channel = IF last THEN FALSE ELSE proxy[p].channel
           /\ proxy'[p].mode = proxy[p].mode /\ proxy'[p].remote = proxy[p].remote
           /\ proxy'[p].lock = proxy[p].lock
           /\ known' = IF last THEN Without(p) ELSE known
           /\ UNCHANGED <<setup, link, dead, user, kept, slips>>
  <1> USE DEF LocalInv
  <1>1. /\ inbound.at = "inside"
        /\ inbound' = [inbound EXCEPT !.at = "gap", !.gone = last]
        /\ known' = IF last THEN Without(p) ELSE known
        /\ UNCHANGED <<setup, link, dead, user, kept, slips>>
    BY DEF CompleteRelease
  <1>2. Live(p) /\ proxy[p].count = 1 + Refs(p) /\ proxy[p].count >= 2 /\ Refs(p) \in Nat
    BY <1>1, ReferredBy DEF Inside
  <1>3. /\ OnlyProxy(p) /\ proxy'[p].count = proxy[p].count - 1
        /\ proxy'[p].channel = IF last THEN FALSE ELSE proxy[p].channel
        /\ proxy'[p].mode = proxy[p].mode /\ proxy'[p].remote = proxy[p].remote
        /\ proxy'[p].lock = proxy[p].lock
    <2>1. PICK n \in Nat : n = proxy[p].count - 1
      BY <1>2
    <2>2. PICK b \in BOOLEAN : b = IF last THEN FALSE ELSE proxy[p].channel
      BY ProxyType
    <2>3. proxy' = [proxy EXCEPT ![p].count = n, ![p].channel = b]
      BY <2>1, <2>2 DEF CompleteRelease
    <2>4. PICK r : r = [[proxy[p] EXCEPT !.count = n] EXCEPT !.channel = b]
      OBVIOUS
    <2>5. /\ r \in Counts /\ r.count = n /\ r.mode = proxy[p].mode /\ r.remote = proxy[p].remote
          /\ r.channel = b /\ r.lock = proxy[p].lock
      BY <2>4, ProxyType DEF Counts
    <2>6. proxy' = [proxy EXCEPT ![p] = r]
      BY <2>3, <2>4
    <2>7. OnlyProxy(p) /\ proxy'[p] = r
      BY <2>5, <2>6, ProxyIs
    <2> QED BY <2>1, <2>2, <2>5, <2>7
  <1>4. inbound \in Offers /\ inbound.gone = FALSE /\ inbound.cached = "none"
    BY <1>1, OfferType DEF PlaceInv
  <1>5. /\ inbound' \in Offers /\ inbound'.at = "gap" /\ inbound'.p = p
        /\ inbound'.gone = last /\ inbound'.cached = "none"
    BY <1>1, <1>4 DEF Offers
  <1> QED BY <1>1, <1>2, <1>3, <1>4, <1>5

\* The first half of Complete: LocalInv is kept.
LEMMA CompleteReleaseLocal ==
    ASSUME LocalInv, CompleteRelease
    PROVE  LocalInv'
  <1> USE DEF LocalInv
  <1>1. PICK p \in Proxies : p = inbound.p
    BY OfferType DEF CompleteRelease, PlaceInv
  <1>2. PICK last \in BOOLEAN : last <=> proxy[p].count = 2
    OBVIOUS
  <1>3. /\ inbound.at = "inside"
        /\ Live(p) /\ proxy[p].count = 1 + Refs(p) /\ proxy[p].count >= 2 /\ Refs(p) \in Nat
        /\ inbound' \in Offers /\ inbound'.at = "gap" /\ inbound'.p = p
        /\ inbound'.gone = last /\ inbound'.cached = "none"
        /\ OnlyProxy(p) /\ proxy'[p].count = proxy[p].count - 1
        /\ proxy'[p].channel = IF last THEN FALSE ELSE proxy[p].channel
        /\ proxy'[p].mode = proxy[p].mode /\ proxy'[p].remote = proxy[p].remote
        /\ proxy'[p].lock = proxy[p].lock
        /\ known' = IF last THEN Without(p) ELSE known
        /\ UNCHANGED <<setup, link, dead, user, kept, slips>>
    BY <1>1, <1>2, CompleteReleaseIs
  <1>4. p # None
    BY ProxyNumbers
  <1>5. /\ known' \in Seq(Proxies)
        /\ \A i, j \in DOMAIN known' : known'[i] = known'[j] => i = j
        /\ \A q \in Proxies : Listed(q)' <=> Listed(q) /\ ~ (last /\ q = p)
    <2>1. CASE last
      <3>1. known' = Without(p)
        BY <1>3, <2>1
      <3> QED BY <2>1, <3>1, WithoutListed
    <2>2. CASE ~ last
      BY <1>3, <2>2 DEF LocalTypes, Listed
    <2> QED BY <2>1, <2>2
  <1>6. Refs(p)' = Refs(p) - 1 /\ Refs(p)' \in Nat /\ (last => p \notin dead)
    <2>1. kept' = kept /\ dead' = dead /\ Inside(p) /\ ~ Inside(p)'
      BY <1>1, <1>3 DEF Inside
    <2>2. /\ Refs(p) \in Nat /\ Refs(p)' \in Nat
          /\ Refs(p)' = Refs(p)
                - One(kept = p) + One(kept' = p)
                - One(Inside(p)) + One(Inside(p)')
                - One(p \in dead) + One(p \in dead')
          /\ Refs(p) >= One(kept = p) + One(Inside(p)) + One(p \in dead)
      BY <1>3, RefsKept
    <2> QED BY <1>2, <1>3, <2>1, <2>2 DEF One
  <1>7. ProxyInv(p)'
    <2>1. OnChannel(p)'
      <3>1. ~ last => proxy'[p].channel = proxy[p].channel /\ (Listed(p)' <=> Listed(p))
        BY <1>3, <1>5
      <3>2. last => ~ (proxy'[p].count >= 2) /\ ~ proxy'[p].channel /\ p \notin dead'
        BY <1>2, <1>3, <1>6
      <3>3. OnChannel(p) /\ dead' = dead /\ link' = link
        BY <1>3 DEF ProxyInv
      <3>4. CASE last
        BY <3>2, <3>4 DEF OnChannel
      <3>5. CASE ~ last
        BY <1>3, <3>1, <3>3, <3>5 DEF OnChannel
      <3> QED BY <3>4, <3>5
    <2>2. CASE last
      <3>1. Refs(p)' = 0 /\ proxy'[p].count = 1
        BY <1>2, <1>3, <1>6, <2>2
      <3>2. Cardinality(HoldersOf(p)') = 0
        <4>1. Cardinality(HoldersOf(p)') \in Nat
          <5>1. HoldersOf(p)' \in SUBSET Users
            BY DEF HoldersOf
          <5> QED BY <5>1, UserAssumption, FS_Subset, FS_CardinalityType
        <4> QED BY <3>1, <4>1 DEF Refs, One
      <3>3. \A v \in Users : user'[v].p # p
        BY <1>3, <3>2, NobodyHoldsNext DEF Live
      <3>4. Finished(p)'
        BY <1>3, <1>5, <2>2, <3>1, <3>3 DEF Finished, Finishing, Live
      <3> QED BY <2>1, <3>4 DEF ProxyInv
    <2>3. CASE ~ last
      <3>1. Refs(p)' >= 1 /\ proxy'[p].count = 1 + Refs(p)'
        BY <1>2, <1>3, <1>6, <2>3
      <3>2. Live(p)'
        BY <1>3, <2>3, <3>1 DEF Live, Finishing
      <3> QED BY <2>1, <3>2 DEF ProxyInv
    <2> QED BY <2>2, <2>3
  <1>8. kept' \in Proxies \cup {None} /\ slips' \subseteq Windows /\ slips \subseteq slips'
    BY <1>3 DEF LocalTypes
  <1> QED BY <1>1, <1>3, <1>4, <1>5, <1>7, <1>8, OfferStep

\* Complete ends.
LEMMA CompleteModeIs ==
    ASSUME LocalInv, CompleteMode, NEW p \in Proxies, p = inbound.p
    PROVE  /\ inbound.at = "gap" /\ ~ proxy[p].lock /\ inbound.cached = "none"
           /\ UNCHANGED <<setup, link, known, dead, user, kept, slips>>
           /\ inbound' \in Offers /\ inbound'.p = None /\ inbound'.gone = FALSE
           /\ inbound'.at = IF link = "open" THEN "answer" ELSE "none"
           /\ link # "open" => inbound'.cached = "none"
           /\ proxy[p].count > 0 /\ link = "open" => inbound'.cached = Cached(p)
           /\ OnlyProxy(p)
           /\ inbound.gone \/ proxy[p] = NoProxy => proxy'[p] = NoProxy
           /\ ~ inbound.gone =>
                /\ proxy'[p].mode = Completed(proxy[p].mode)
                /\ proxy'[p].count = proxy[p].count /\ proxy'[p].remote = proxy[p].remote
                /\ proxy'[p].channel = proxy[p].channel /\ proxy'[p].lock = proxy[p].lock
  <1> USE DEF LocalInv
  <1>1. /\ inbound.at = "gap" /\ ~ proxy[p].lock
        /\ UNCHANGED <<setup, link, known, dead, user, kept, slips>>
    BY DEF CompleteMode
  <1>2. inbound.cached = "none"
    BY <1>1, OfferType DEF PlaceInv
  <1>3. PICK c : /\ c \in {"none", "addref", "release"} /\ (proxy[p].count > 0 => c = Cached(p))
                 /\ inbound' = IF link = "open" THEN [NoInbound EXCEPT !.at = "answer", !.cached = c]
                               ELSE NoInbound
    BY DEF CompleteMode, Cached
  <1>4. /\ inbound' \in Offers /\ inbound'.p = None /\ inbound'.gone = FALSE
        /\ inbound'.at = IF link = "open" THEN "answer" ELSE "none"
        /\ inbound'.cached = IF link = "open" THEN c ELSE "none"
    BY <1>3 DEF NoInbound, Offers
  <1>5. PICK m : m = Completed(proxy[p].mode)
    OBVIOUS
  <1>6. m \in SUBSET {"addref", "release"}
    BY <1>5, ProxyType DEF Completed
  <1>7. PICK r : r = IF inbound.gone THEN NoProxy ELSE [proxy[p] EXCEPT !.mode = m]
    OBVIOUS
  <1>8. proxy' = [proxy EXCEPT ![p] = r]
    BY <1>5, <1>7 DEF CompleteMode
  <1>9. /\ r \in Counts
        /\ ~ inbound.gone => /\ r.mode = m /\ r.count = proxy[p].count /\ r.remote = proxy[p].remote
                             /\ r.channel = proxy[p].channel /\ r.lock = proxy[p].lock
    <2>1. proxy[p] \in Counts
      BY ProxyType
    <2> QED BY <1>6, <1>7, <2>1 DEF Counts, NoProxy
  <1>10. OnlyProxy(p) /\ proxy'[p] = r
    BY <1>8, <1>9, ProxyIs
  <1>11. inbound.gone \/ proxy[p] = NoProxy => r = NoProxy
    <2>1. ASSUME proxy[p] = NoProxy
          PROVE  [proxy[p] EXCEPT !.mode = m] = NoProxy
      <3>1. m = {}
        BY <1>5, <2>1 DEF Completed, NoProxy
      <3> QED BY <2>1, <3>1 DEF NoProxy
    <2> QED BY <1>7, <2>1
  <1> QED BY <1>1, <1>2, <1>3, <1>4, <1>5, <1>7, <1>9, <1>10, <1>11

\* The second half of Complete: LocalInv is kept.
LEMMA CompleteModeLocal ==
    ASSUME LocalInv, CompleteMode
    PROVE  LocalInv'
  <1> USE DEF LocalInv
  <1>1. PICK p \in Proxies : p = inbound.p
    BY OfferType DEF CompleteMode, PlaceInv
  <1>2. /\ inbound.at = "gap" /\ ~ proxy[p].lock /\ inbound.cached = "none"
        /\ UNCHANGED <<setup, link, known, dead, user, kept, slips>>
        /\ inbound' \in Offers /\ inbound'.p = None /\ inbound'.gone = FALSE
        /\ inbound'.at = IF link = "open" THEN "answer" ELSE "none"
        /\ link # "open" => inbound'.cached = "none"
        /\ OnlyProxy(p)
        /\ inbound.gone \/ proxy[p] = NoProxy => proxy'[p] = NoProxy
        /\ ~ inbound.gone =>
             /\ proxy'[p].mode = Completed(proxy[p].mode)
             /\ proxy'[p].count = proxy[p].count /\ proxy'[p].remote = proxy[p].remote
             /\ proxy'[p].channel = proxy[p].channel /\ proxy'[p].lock = proxy[p].lock
    BY <1>1, CompleteModeIs
  <1>3. p # None
    BY ProxyNumbers
  <1>4. /\ Refs(p)' = Refs(p) /\ Apart(p)' /\ ~ Finishing(p)'
        /\ Listed(p)' = Listed(p)
    <2>1. ~ Inside(p) /\ ~ Inside(p)' /\ HoldersOf(p)' = HoldersOf(p)
      BY <1>2 DEF Inside, HoldersOf
    <2> QED BY <1>2, <1>3, <2>1 DEF Refs, One, Apart, Finishing, Listed
  <1>5. ProxyInv(p) /\ OnChannel(p)
    BY DEF ProxyInv
  <1>6. ASSUME inbound.gone
        PROVE  ProxyInv(p)'
    <2>1. Finishing(p)
      BY <1>1, <1>2, <1>6 DEF Finishing
    <2>2. Finished(p)
      BY <1>1, <1>5, <1>6, <2>1 DEF ProxyInv, Absent, Live, Ending, Apart
    <2>3. Absent(p)' /\ p \notin dead
      <3>1. proxy'[p] = NoProxy
        BY <1>2, <1>6
      <3>2. p \notin dead
        <4>1. p \in dead => Live(p) /\ proxy[p].count >= 2
          BY ReferredBy
        <4> QED BY <2>2, <4>1 DEF Finished
      <3> QED BY <1>2, <1>4, <2>2, <3>1, <3>2 DEF Absent, Finished
    <2>4. OnChannel(p)'
      BY <1>2, <1>6, <2>3 DEF OnChannel, NoProxy
    <2> QED BY <2>3, <2>4 DEF ProxyInv
  <1>7. ASSUME ~ inbound.gone
        PROVE  ProxyInv(p)'
    <2>1. /\ proxy'[p].mode = Completed(proxy[p].mode)
          /\ proxy'[p].count = proxy[p].count /\ proxy'[p].remote = proxy[p].remote
          /\ proxy'[p].channel = proxy[p].channel /\ proxy'[p].lock = proxy[p].lock
      BY <1>2, <1>7
    <2>2. OnChannel(p)'
      BY <1>2, <1>4, <1>5, <2>1 DEF OnChannel
    <2>3. CASE Absent(p)
      <3>1. proxy'[p] = NoProxy
        BY <1>2, <2>3 DEF Absent
      <3>2. Absent(p)'
        BY <1>2, <1>4, <2>3, <3>1 DEF Absent
      <3> QED BY <2>2, <3>2 DEF ProxyInv
    <2>4. CASE Live(p)
      <3>1. Live(p)'
        BY <1>2, <1>4, <2>1, <2>4 DEF Live
      <3> QED BY <2>2, <3>1 DEF ProxyInv
    <2>5. CASE \E u \in Users : Ending(p, u)
      <3>1. PICK u \in Users : Ending(p, u)
        BY <2>5
      <3>2. Ending(p, u)'
        BY <1>2, <1>4, <2>1, <3>1 DEF Ending
      <3> QED BY <2>2, <3>2 DEF ProxyInv
    <2>6. ~ Finished(p)
      BY <1>7 DEF Finished, Finishing
    <2> QED BY <1>5, <2>3, <2>4, <2>5, <2>6 DEF ProxyInv
  <1>8. ProxyInv(p)'
    BY <1>6, <1>7
  <1>9. /\ known' \in Seq(Proxies) /\ \A i, j \in DOMAIN known' : known'[i] = known'[j] => i = j
        /\ kept' \in Proxies \cup {None} /\ slips' \subseteq Windows /\ slips \subseteq slips'
        /\ \A q \in Proxies : Listed(q)' <=> Listed(q)
    BY <1>2 DEF LocalTypes, Listed
  <1>10. /\ inbound'.p = None <=> inbound'.at \notin {"inside", "gap"}
         /\ inbound'.gone => inbound'.at = "gap"
         /\ inbound'.cached # "none" => inbound'.at = "answer"
         /\ inbound'.at \in {"sent", "answer"} => link = "open"
    BY <1>2
  <1> QED BY <1>1, <1>2, <1>8, <1>9, <1>10, OfferStep

\* The other steps of the offer refer to no proxy.
LEMMA OfferOnly ==
    ASSUME LocalInv, inbound.p = None, inbound' \in Offers, inbound'.p = None,
           inbound'.at \notin {"inside", "gap"}, ~ inbound'.gone, inbound'.cached = "none",
           UNCHANGED <<setup, link, proxy, known, dead, user, kept>>,
           slips \subseteq slips', slips' \subseteq Windows,
           inbound'.at \in {"sent", "answer"} => link = "open"
    PROVE  LocalInv'
  <1>1. \A p \in Proxies : ProxyInv(p)'
    BY Elsewhere
  <1>2. LocalTypes'
    BY DEF LocalInv, LocalTypes
  <1>3. PlaceInv'
    BY DEF LocalInv, PlaceInv
  <1> QED BY <1>1, <1>2, <1>3 DEF LocalInv

\* The object is offered: LocalInv is kept.
LEMMA OfferLocal ==
    ASSUME LocalInv, Offer \/ BeginOffer \/ Accept \/ Unheard
    PROVE  LocalInv'
  <1>1. UNCHANGED <<setup, link, proxy, known, dead, user, kept, slips>>
    BY DEF Offer, BeginOffer, Accept, Unheard
  <1>2. /\ inbound.at \in {"none", "sent", "answer"} /\ inbound.p = None
    BY DEF LocalInv, PlaceInv, Offer, BeginOffer, Accept, Unheard, NoInbound
  <1>3. /\ inbound' \in Offers /\ inbound'.p = None /\ inbound'.at \notin {"inside", "gap"}
        /\ ~ inbound'.gone /\ inbound'.cached = "none"
        /\ inbound'.at \in {"sent", "answer"} => link = "open"
    <2>1. CASE Offer
      BY <2>1 DEF Offer, NoInbound, Offers
    <2>2. CASE BeginOffer
      <3>1. inbound.at = "sent" /\ inbound' = [inbound EXCEPT !.at = "begun"]
        BY <2>2 DEF BeginOffer
      <3>2. ~ inbound.gone /\ inbound.cached = "none" /\ inbound \in Offers
        BY <3>1, OfferType DEF LocalInv, PlaceInv
      <3> QED BY <1>2, <3>1, <3>2 DEF Offers
    <2>3. CASE Accept \/ Unheard
      <3>1. inbound' = NoInbound
        BY <2>3 DEF Accept, Unheard
      <3> QED BY <3>1 DEF NoInbound, Offers
    <2> QED BY <2>1, <2>2, <2>3
  <1>4. slips \subseteq slips' /\ slips' \subseteq Windows
    BY <1>1 DEF LocalInv, LocalTypes
  <1> QED BY <1>1, <1>2, <1>3, <1>4, OfferOnly

\* What the owner does changes nothing in the process of the user.
LEMMA OwnerLocal ==
    ASSUME LocalInv,
           \/ OfferTimedOut \/ OfferFails \/ Clear \/ OwnerDrop
           \/ \E c \in Calls : CallNext(c)
    PROVE  LocalInv'
  <1>1. UNCHANGED <<setup, link, inbound, proxy, known, dead, user, kept>>
    BY DEF OfferTimedOut, OfferFails, Clear, OwnerDrop, CallNext, Receive, Begin, HandleGet,
           HandleRelease, Unexpected, Mistaken
  <1>2. slips' \in {slips, slips \cup {}, slips \cup {"unheard"}, slips \cup {"late"},
                    slips \cup {"unregistered"}}
    BY DEF OfferTimedOut, OfferFails, Clear, OwnerDrop, CallNext, Receive, Begin, HandleGet,
           HandleRelease, Unexpected, Mistaken
  <1>3. slips \subseteq slips' /\ slips' \subseteq Windows
    BY <1>2 DEF LocalInv, LocalTypes, Windows
  <1> QED BY <1>1, <1>3, Outside

\* The owner shuts down: LocalInv is kept.
LEMMA OfferShutdownLocal ==
    ASSUME LocalInv, OfferShutdown
    PROVE  LocalInv'
  <1>1. /\ (link = "open" /\ Closing) \/ UNCHANGED <<link, call, inbound>>
        /\ UNCHANGED <<setup, proxy, known, dead, user, kept, slips>>
    BY ShutIs DEF OfferShutdown
  <1>2. CASE link = "open" /\ Closing
    BY <1>1, <1>2, CloseLocal
  <1>3. CASE UNCHANGED <<link, call, inbound>>
    <2>1. slips \subseteq slips' /\ slips' \subseteq Windows
      BY <1>1 DEF LocalInv, LocalTypes
    <2> QED BY <1>1, <1>3, <2>1, Outside
  <1> QED BY <1>1, <1>2, <1>3

-----------------------------------------------------------------------------
(* The end of the channel.                                                  *)

\* What the report of a dangling proxy does to it.
LEMMA DanglingIs ==
    ASSUME LocalInv, NEW p \in Proxies, Dangling(p)
    PROVE  /\ p \in dead /\ link = "deleted" /\ ~ proxy[p].channel /\ ~ Listed(p)
           /\ Live(p) /\ proxy[p].count = 1 + Refs(p) /\ proxy[p].count >= 2 /\ Refs(p) \in Nat
           /\ dead' = dead \ {p} /\ kept' = IF kept = p THEN None ELSE kept
           /\ UNCHANGED <<setup, link, inbound, known, user>>
           /\ Refs(p)' \in Nat /\ OnlyProxy(p)
           /\ IF Refs(p)' = 0
              THEN /\ proxy'[p] = NoProxy /\ slips' = slips \cup Gap(p) /\ ~ Inside(p)
              ELSE /\ slips' = slips
                   /\ proxy'[p].count = 1 + Refs(p)' /\ proxy'[p].mode = proxy[p].mode
                   /\ proxy'[p].remote = proxy[p].remote /\ proxy'[p].channel = proxy[p].channel
                   /\ proxy'[p].lock = proxy[p].lock
  <1> USE DEF LocalInv
  <1>1. PICK left : left = proxy[p].count - (IF kept = p THEN 2 ELSE 1)
    OBVIOUS
  <1>2. /\ p \in dead /\ dead' = dead \ {p}
        /\ kept' = IF kept = p THEN None ELSE kept
        /\ proxy' = [proxy EXCEPT ![p] = IF left = 1 THEN NoProxy
                                         ELSE [proxy[p] EXCEPT !.count = left]]
        /\ slips' = slips \cup IF left = 1 THEN Gap(p) ELSE {}
        /\ UNCHANGED <<setup, link, inbound, known, user>>
    BY <1>1 DEF Dangling
  <1>3. Live(p) /\ proxy[p].count = 1 + Refs(p) /\ proxy[p].count >= 2 /\ Refs(p) \in Nat
    BY <1>2, ReferredBy
  <1>4. p # None /\ link = "deleted" /\ ~ proxy[p].channel /\ ~ Listed(p)
    BY <1>2, ProxyNumbers DEF PlaceInv, ProxyInv, OnChannel
  <1>5. /\ Refs(p)' \in Nat /\ left = 1 + Refs(p)'
        /\ Refs(p)' = 0 => ~ Inside(p)
    <2>1. Inside(p)' = Inside(p) /\ (p \notin dead') /\ kept' # p
      BY <1>2, <1>4 DEF Inside
    <2>2. /\ Refs(p) \in Nat /\ Refs(p)' \in Nat
          /\ Refs(p)' = Refs(p)
                - One(kept = p) + One(kept' = p)
                - One(Inside(p)) + One(Inside(p)')
                - One(p \in dead) + One(p \in dead')
          /\ Refs(p) >= One(kept = p) + One(Inside(p)) + One(p \in dead)
      BY <1>2, RefsKept
    <2> QED BY <1>1, <1>2, <1>3, <2>1, <2>2 DEF One
  <1>6. /\ OnlyProxy(p)
        /\ IF left = 1 THEN proxy'[p] = NoProxy
           ELSE /\ proxy'[p].count = left /\ proxy'[p].mode = proxy[p].mode
                /\ proxy'[p].remote = proxy[p].remote /\ proxy'[p].channel = proxy[p].channel
                /\ proxy'[p].lock = proxy[p].lock
    <2>1. CASE left = 1
      <3>1. NoProxy \in Counts /\ proxy' = [proxy EXCEPT ![p] = NoProxy]
        BY <1>2, <2>1 DEF NoProxy, Counts
      <3>2. OnlyProxy(p) /\ proxy'[p] = NoProxy
        BY <3>1, ProxyIs
      <3> QED BY <2>1, <3>2
    <2>2. CASE left # 1
      <3>1. PICK r : r = [proxy[p] EXCEPT !.count = left]
        OBVIOUS
      <3>2. left \in Nat
        BY <1>5
      <3>3. /\ r \in Counts /\ r.count = left /\ r.mode = proxy[p].mode
            /\ r.remote = proxy[p].remote /\ r.channel = proxy[p].channel /\ r.lock = proxy[p].lock
        BY <3>1, <3>2, ProxyType DEF Counts
      <3>4. proxy' = [proxy EXCEPT ![p] = r]
        BY <1>2, <2>2, <3>1
      <3>5. OnlyProxy(p) /\ proxy'[p] = r
        BY <3>3, <3>4, ProxyIs
      <3> QED BY <2>2, <3>3, <3>5
    <2> QED BY <2>1, <2>2
  <1>7. left = 1 <=> Refs(p)' = 0
    BY <1>5
  <1>8. slips' = IF left = 1 THEN slips \cup Gap(p) ELSE slips
    BY <1>2
  <1> QED BY <1>2, <1>3, <1>4, <1>5, <1>6, <1>7, <1>8

\* A dangling proxy is reported: LocalInv is kept.
LEMMA DanglingLocal ==
    ASSUME LocalInv, NEW p \in Proxies, Dangling(p)
    PROVE  LocalInv'
  <1> USE DEF LocalInv
  <1>1. /\ p \in dead /\ link = "deleted" /\ ~ proxy[p].channel /\ ~ Listed(p)
        /\ Live(p) /\ proxy[p].count = 1 + Refs(p) /\ proxy[p].count >= 2 /\ Refs(p) \in Nat
        /\ dead' = dead \ {p} /\ kept' = IF kept = p THEN None ELSE kept
        /\ UNCHANGED <<setup, link, inbound, known, user>>
        /\ Refs(p)' \in Nat /\ OnlyProxy(p)
        /\ IF Refs(p)' = 0
           THEN /\ proxy'[p] = NoProxy /\ slips' = slips \cup Gap(p) /\ ~ Inside(p)
           ELSE /\ slips' = slips
                /\ proxy'[p].count = 1 + Refs(p)' /\ proxy'[p].mode = proxy[p].mode
                /\ proxy'[p].remote = proxy[p].remote /\ proxy'[p].channel = proxy[p].channel
                /\ proxy'[p].lock = proxy[p].lock
    BY DanglingIs
  <1>2. p # None
    BY ProxyNumbers
  <1>3. slips \subseteq slips' /\ slips' \subseteq Windows
    BY <1>1 DEF LocalTypes, Gap, Windows
  <1>4. ~ Listed(p)' /\ p \notin dead'
    BY <1>1 DEF Listed
  <1>5. ASSUME Refs(p)' = 0
        PROVE  ProxyInv(p)'
    <2>1. proxy'[p] = NoProxy /\ slips' = slips \cup Gap(p) /\ ~ Inside(p)
      BY <1>1, <1>5
    <2>2. \A v \in Users : user'[v].p # p
      <3>1. Cardinality(HoldersOf(p)') = 0
        <4>1. Cardinality(HoldersOf(p)') \in Nat
          <5>1. HoldersOf(p)' \in SUBSET Users
            BY DEF HoldersOf
          <5> QED BY <5>1, UserAssumption, FS_Subset, FS_CardinalityType
        <4> QED BY <1>5, <4>1 DEF Refs, One
      <3> QED BY <1>1, <3>1, NobodyHoldsNext DEF Live
    <2>3. Apart(p)'
      <3>1. inbound.p = p => inbound.at = "gap" /\ ~ inbound.gone
        <4>1. inbound.p = p => inbound.at \in {"inside", "gap"}
          BY <1>2 DEF PlaceInv
        <4> QED BY <1>1, <2>1, <4>1 DEF Inside, Live, Finishing
      <3> QED BY <1>1, <2>1, <3>1 DEF Apart, Gap
    <2>4. Absent(p)'
      BY <1>4, <1>5, <2>1, <2>2, <2>3 DEF Absent
    <2>5. OnChannel(p)'
      BY <1>4, <2>1 DEF OnChannel, NoProxy
    <2> QED BY <2>4, <2>5 DEF ProxyInv
  <1>6. ASSUME Refs(p)' # 0
        PROVE  ProxyInv(p)'
    <2>1. Live(p)'
      BY <1>1, <1>6 DEF Live, Finishing
    <2>2. OnChannel(p)'
      BY <1>1, <1>4, <1>6 DEF OnChannel
    <2> QED BY <2>1, <2>2 DEF ProxyInv
  <1>7. ASSUME NEW q \in Proxies, q # p
        PROVE  ProxyInv(q)'
    <2>1. q # None
      BY ProxyNumbers
    <2>2. Untouched(q)
      BY <1>1, <1>3, <1>7, <2>1 DEF Untouched, OnlyProxy, Listed
    <2> QED BY <2>2, UntouchedInv
  <1>8. LocalTypes'
    BY <1>1, <1>3 DEF LocalTypes, OnlyProxy
  <1>9. PlaceInv'
    BY <1>1 DEF PlaceInv
  <1> QED BY <1>5, <1>6, <1>7, <1>8, <1>9

\* At the owner no proxy is concerned.
LEMMA ClosedAtOwner ==
    ASSUME LocalInv, Closed, setup.server = "owner"
    PROVE  LocalInv'
  <1>1. /\ link = "closed" /\ link' = "deleted"
        /\ UNCHANGED <<setup, inbound, proxy, known, dead, user, kept, slips>>
    BY DEF Closed
  <1>2. \A p \in Proxies : ProxyInv(p)'
    BY <1>1, Elsewhere
  <1>3. LocalTypes' /\ PlaceInv'
    BY <1>1 DEF LocalInv, LocalTypes, PlaceInv
  <1> QED BY <1>2, <1>3 DEF LocalInv

\* At the user the proxies with a channel lose it.
ToldOf(p) == Listed(p) /\ proxy[p].channel

\* What DeleteChannel at the user does to each proxy.
LEMMA ClosedIs ==
    ASSUME LocalInv, Closed, setup.server # "owner"
    PROVE  /\ link = "closed" /\ link' = "deleted" /\ dead = {}
           /\ UNCHANGED <<setup, inbound, user, kept, slips>>
           /\ known' = << >> /\ dead' = {p \in Proxies : ToldOf(p)}
           /\ proxy' \in [Proxies -> Counts]
           /\ \A p \in Proxies :
                /\ proxy'[p].mode = proxy[p].mode /\ proxy'[p].remote = proxy[p].remote
                /\ proxy'[p].lock = proxy[p].lock
                /\ ToldOf(p) => /\ proxy'[p].count = proxy[p].count + 1 /\ ~ proxy'[p].channel
                                /\ Live(p)
                /\ ~ ToldOf(p) => proxy'[p] = proxy[p] /\ ~ proxy[p].channel /\ ~ Live(p)
                /\ ~ Listed(p)'
                /\ Refs(p) \in Nat /\ Refs(p)' = Refs(p) + One(ToldOf(p))
  <1> USE DEF LocalInv
  <1>1. /\ link = "closed" /\ link' = "deleted"
        /\ \A p \in Proxies : Listed(p) => ~ proxy[p].lock
        /\ proxy' = [p \in Proxies |-> IF ToldOf(p)
                                       THEN [proxy[p] EXCEPT !.count = @ + 1, !.channel = FALSE]
                                       ELSE proxy[p]]
        /\ known' = << >> /\ dead' = dead \cup {p \in Proxies : ToldOf(p)}
        /\ UNCHANGED <<setup, inbound, user, kept, slips>>
    BY DEF Closed, Listed, ToldOf
  <1>2. dead = {}
    BY <1>1 DEF PlaceInv
  <1>3. ASSUME NEW p \in Proxies
        PROVE  /\ proxy'[p] \in Counts
               /\ proxy'[p].mode = proxy[p].mode /\ proxy'[p].remote = proxy[p].remote
               /\ proxy'[p].lock = proxy[p].lock
               /\ ToldOf(p) => proxy'[p].count = proxy[p].count + 1 /\ ~ proxy'[p].channel
               /\ ~ ToldOf(p) => proxy'[p] = proxy[p]
    <2>1. CASE ToldOf(p)
      <3>1. PICK n : n = proxy[p].count + 1
        OBVIOUS
      <3>2. PICK r : r = [[proxy[p] EXCEPT !.count = n] EXCEPT !.channel = FALSE]
        OBVIOUS
      <3>3. n \in Nat
        BY <3>1, ProxyType
      <3>4. /\ r \in Counts /\ r.count = n /\ r.mode = proxy[p].mode /\ r.remote = proxy[p].remote
            /\ r.channel = FALSE /\ r.lock = proxy[p].lock
        BY <3>2, <3>3, ProxyType DEF Counts
      <3>5. proxy'[p] = r
        BY <1>1, <2>1, <3>1, <3>2
      <3> QED BY <2>1, <3>1, <3>4, <3>5
    <2>2. CASE ~ ToldOf(p)
      BY <1>1, <2>2, ProxyType
    <2> QED BY <2>1, <2>2
  <1>4. ASSUME NEW p \in Proxies
        PROVE  (p \in dead' <=> ToldOf(p)) /\ ~ Listed(p)'
    <2>1. DOMAIN << >> = {}
      OBVIOUS
    <2>2. ~ Listed(p)'
      BY <1>1, <2>1 DEF Listed
    <2>3. p \in dead' <=> p \in {q \in Proxies : ToldOf(q)}
      BY <1>1, <1>2
    <2> QED BY <2>2, <2>3
  <1>5. ASSUME NEW p \in Proxies
        PROVE  ToldOf(p) => Live(p)
    <2>1. ASSUME ToldOf(p)
          PROVE  Live(p)
      <3>1. proxy[p].channel /\ ~ proxy[p].lock
        BY <1>1, <2>1 DEF ToldOf
      <3> QED BY <3>1 DEF ProxyInv, Absent, Ending, Finished, NoProxy
    <2> QED BY <2>1
  <1>6. ASSUME NEW p \in Proxies
        PROVE  ~ ToldOf(p) => ~ proxy[p].channel /\ ~ Live(p)
    <2>1. ASSUME ~ ToldOf(p)
          PROVE  ~ proxy[p].channel /\ ~ Live(p)
      <3>1. ~ proxy[p].channel
        BY <2>1 DEF ProxyInv, OnChannel, ToldOf
      <3>2. ~ (proxy[p].count >= 2)
        BY <1>1, <3>1 DEF ProxyInv, OnChannel
      <3> QED BY <3>1, <3>2, Referred DEF Live
    <2> QED BY <2>1
  <1>7. ASSUME NEW p \in Proxies
        PROVE  Refs(p) \in Nat /\ Refs(p)' = Refs(p) + One(ToldOf(p))
    <2>1. kept' = kept /\ Inside(p)' = Inside(p) /\ (p \in dead' <=> ToldOf(p)) /\ p \notin dead
      BY <1>1, <1>2, <1>4 DEF Inside
    <2>2. /\ Refs(p) \in Nat /\ Refs(p)' \in Nat
          /\ Refs(p)' = Refs(p)
                - One(kept = p) + One(kept' = p)
                - One(Inside(p)) + One(Inside(p)')
                - One(p \in dead) + One(p \in dead')
      BY <1>1, RefsKept
    <2> QED BY <2>1, <2>2 DEF One
  <1>8. proxy' \in [Proxies -> Counts]
    BY <1>1, <1>3
  <1>9. dead' = {p \in Proxies : ToldOf(p)}
    BY <1>1, <1>2
  <1> QED BY <1>1, <1>2, <1>3, <1>4, <1>5, <1>6, <1>7, <1>8, <1>9

\* DeleteChannel at the user keeps LocalInv.
LEMMA ClosedAtUser ==
    ASSUME LocalInv, Closed, setup.server # "owner"
    PROVE  LocalInv'
  <1> USE DEF LocalInv
  <1>1. /\ link = "closed" /\ link' = "deleted" /\ dead = {}
        /\ UNCHANGED <<setup, inbound, user, kept, slips>>
        /\ known' = << >> /\ dead' = {p \in Proxies : ToldOf(p)}
        /\ proxy' \in [Proxies -> Counts]
        /\ \A p \in Proxies :
             /\ proxy'[p].mode = proxy[p].mode /\ proxy'[p].remote = proxy[p].remote
             /\ proxy'[p].lock = proxy[p].lock
             /\ ToldOf(p) => /\ proxy'[p].count = proxy[p].count + 1 /\ ~ proxy'[p].channel
                             /\ Live(p)
             /\ ~ ToldOf(p) => proxy'[p] = proxy[p] /\ ~ proxy[p].channel /\ ~ Live(p)
             /\ ~ Listed(p)'
             /\ Refs(p) \in Nat /\ Refs(p)' = Refs(p) + One(ToldOf(p))
    BY ClosedIs
  <1>2. LocalTypes'
    <2>1. known' \in Seq(Proxies) /\ \A i, j \in DOMAIN known' : known'[i] = known'[j] => i = j
      <3>1. << >> \in Seq(Proxies) /\ DOMAIN << >> = {}
        OBVIOUS
      <3> QED BY <1>1, <3>1
    <2> QED BY <1>1, <2>1 DEF LocalTypes
  <1>3. PlaceInv'
    BY <1>1 DEF PlaceInv
  <1>4. ASSUME NEW p \in Proxies
        PROVE  ProxyInv(p)'
    <2>1. ASSUME ToldOf(p)
          PROVE  ProxyInv(p)'
      <3>1. Live(p) /\ proxy'[p].count = 1 + Refs(p)' /\ Refs(p)' >= 1
        <4>1. Live(p)
          BY <1>1, <2>1
        <4>2. proxy'[p].count = proxy[p].count + 1 /\ proxy[p].count = 1 + Refs(p)
          BY <1>1, <2>1, <4>1 DEF Live
        <4>3. Refs(p) \in Nat /\ Refs(p)' = Refs(p) + 1
          BY <1>1, <2>1 DEF One
        <4> QED BY <4>1, <4>2, <4>3
      <3>2. Live(p)'
        BY <1>1, <2>1, <3>1 DEF Live, Finishing
      <3>3. OnChannel(p)'
        BY <1>1, <2>1 DEF OnChannel
      <3> QED BY <3>2, <3>3 DEF ProxyInv
    <2>2. ASSUME ~ ToldOf(p)
          PROVE  ProxyInv(p)'
      <3>1. /\ proxy'[p] = proxy[p] /\ ~ proxy[p].channel /\ ~ Live(p) /\ ~ Listed(p)'
            /\ p \notin dead'
        BY <1>1, <2>2
      <3>2. Refs(p)' = Refs(p)
        BY <1>1, <2>2 DEF One
      <3>3. OnChannel(p)'
        BY <1>1, <3>1 DEF OnChannel
      <3>4. CASE Absent(p)
        <4>1. Absent(p)'
          BY <1>1, <3>1, <3>2, <3>4 DEF Absent, Apart
        <4> QED BY <3>3, <4>1 DEF ProxyInv
      <3>5. CASE \E u \in Users : Ending(p, u)
        <4>1. PICK u \in Users : Ending(p, u)
          BY <3>5
        <4>2. Ending(p, u)'
          BY <1>1, <3>1, <3>2, <4>1 DEF Ending, Apart
        <4> QED BY <3>3, <4>2 DEF ProxyInv
      <3>6. CASE Finished(p)
        <4>1. Finished(p)'
          BY <1>1, <3>1, <3>2, <3>6 DEF Finished, Finishing
        <4> QED BY <3>3, <4>1 DEF ProxyInv
      <3> QED BY <3>1, <3>4, <3>5, <3>6 DEF ProxyInv
    <2> QED BY <2>1, <2>2
  <1> QED BY <1>2, <1>3, <1>4

-----------------------------------------------------------------------------
(* The process of the user keeps its invariant.                             *)

\* LocalInv holds in the beginning ...
LEMMA LocalInit ==
    ASSUME Init
    PROVE  LocalInv
  <1>1. known = << >> /\ DOMAIN << >> = {} /\ << >> \in Seq(Proxies)
    BY DEF Init
  <1>2. /\ setup \in [role : Roles, server : {"owner", "user"}] /\ link = "open" /\ dead = {}
        /\ inbound = NoInbound /\ proxy = [p \in Proxies |-> NoProxy]
        /\ user = [u \in Users |-> Idle] /\ kept = None /\ slips = {}
    BY DEF Init
  <1>3. LocalTypes
    <2>1. inbound \in Offers /\ proxy \in [Proxies -> Counts] /\ user \in [Users -> Threads]
      BY <1>2 DEF Offers, Counts, Threads, NoInbound, NoProxy, Idle
    <2> QED BY <1>1, <1>2, <2>1 DEF LocalTypes, Windows
  <1>4. PlaceInv
    BY <1>2 DEF PlaceInv, NoInbound, Idle
  <1>5. ASSUME NEW p \in Proxies
        PROVE  ProxyInv(p)
    <2>1. p # None
      BY ProxyNumbers
    <2>2. Cardinality(HoldersOf(p)) = 0
      <3>1. HoldersOf(p) = {}
        BY <1>2 DEF HoldersOf, Idle
      <3> QED BY <3>1, FS_EmptySet
    <2>3. Refs(p) = 0
      BY <1>2, <2>1, <2>2 DEF Refs, One, Inside, NoInbound
    <2>4. Absent(p)
      BY <1>1, <1>2, <2>1, <2>3 DEF Absent, Listed, Apart, NoInbound, Idle
    <2>5. OnChannel(p)
      BY <1>1, <1>2 DEF OnChannel, NoProxy, Listed
    <2> QED BY <2>4, <2>5 DEF ProxyInv
  <1> QED BY <1>3, <1>4, <1>5 DEF LocalInv

\* ... each step of a thread keeps it ...
LEMMA LocalUser ==
    ASSUME LocalInv, NEW u \in Users, UserNext(u)
    PROVE  LocalInv'
  BY AskLocal, ReturnLocal, ObtainLocal, AskFailsLocal, CopyLocal, TakeKeptLocal, DropLocal,
     SendReleaseLocal, ReleasedLocal, TimedOutLocal, ShutdownLocal, LeaveLocal
  DEF UserNext

\* ... each step of a call that offers the object ...
LEMMA LocalInbound ==
    ASSUME LocalInv, InboundNext
    PROVE  LocalInv'
  BY OfferLocal, OwnerLocal, OfferShutdownLocal, UnmarshalLocal, KeepingLocal,
     CompleteReleaseLocal, CompleteModeLocal
  DEF InboundNext

\* ... and every other one.
LEMMA LocalNext ==
    ASSUME LocalInv, [Next]_vars
    PROVE  LocalInv'
  <1>1. CASE UNCHANGED vars
    <2>1. /\ UNCHANGED <<setup, link, inbound, proxy, known, dead, user, kept>>
          /\ slips' = slips
      BY <1>1 DEF vars
    <2>2. slips \subseteq slips' /\ slips' \subseteq Windows
      BY <2>1 DEF LocalInv, LocalTypes
    <2> QED BY <2>1, <2>2, Outside
  <1>2. ASSUME NEW u \in Users, UserNext(u)
        PROVE  LocalInv'
    BY <1>2, LocalUser
  <1>3. ASSUME NEW c \in Calls, CallNext(c)
        PROVE  LocalInv'
    BY <1>3, OwnerLocal
  <1>4. CASE Clear \/ OwnerDrop
    BY <1>4, OwnerLocal
  <1>5. CASE InboundNext
    BY <1>5, LocalInbound
  <1>6. CASE Close
    BY <1>6, CloseLocal DEF Close
  <1>7. CASE Closed
    BY <1>7, ClosedAtOwner, ClosedAtUser
  <1>8. ASSUME NEW p \in Proxies, Dangling(p)
        PROVE  LocalInv'
    BY <1>8, DanglingLocal
  <1> QED BY <1>1, <1>2, <1>3, <1>4, <1>5, <1>6, <1>7, <1>8 DEF Next

\* Nobody works on a proxy that is deleted: that is part of it.
LEMMA LocalNoneOnDeleted ==
    ASSUME LocalInv
    PROVE  NoneOnDeleted
  <1> USE DEF LocalInv
  <1>1. ASSUME NEW p \in Proxies, proxy[p].count = 0
        PROVE  Absent(p)
    <2>1. ~ Live(p)
      BY <1>1, Referred DEF Live
    <2> QED BY <1>1, <2>1 DEF ProxyInv, Ending, Finished
  <1>2. ASSUME NEW u \in Users, user[u].p # None
        PROVE  proxy[user[u].p].count > 0
    <2>1. user[u].p \in Proxies
      BY <1>2 DEF LocalTypes, Threads
    <2>2. proxy[user[u].p].count # 0
      BY <1>1, <2>1 DEF Absent
    <2> QED BY <2>1, <2>2, ProxyType
  <1>3. ASSUME kept # None
        PROVE  proxy[kept].count > 1
    <2>1. kept \in Proxies
      BY <1>3 DEF LocalTypes
    <2>2. proxy[kept].count >= 2 /\ proxy[kept].count \in Nat
      BY <2>1, ReferredBy, ProxyType
    <2> QED BY <2>2
  <1>4. ASSUME inbound.p # None, proxy[inbound.p].count = 0
        PROVE  inbound.at = "gap" /\ "gap" \in slips
    <2>1. inbound.p \in Proxies
      BY <1>4, OfferType
    <2> QED BY <1>1, <1>4, <2>1 DEF Absent, Apart
  <1>5. ASSUME NEW i \in DOMAIN known
        PROVE  proxy[known[i]].count > 0
    <2>1. known[i] \in Proxies /\ Listed(known[i])
      BY DEF LocalTypes, Listed
    <2>2. proxy[known[i]].count # 0
      BY <1>1, <2>1 DEF Absent
    <2> QED BY <2>1, <2>2, ProxyType
  <1>6. ASSUME NEW p \in dead
        PROVE  proxy[p].count > 1
    <2>1. p \in Proxies
      BY DEF LocalTypes
    <2>2. proxy[p].count >= 2 /\ proxy[p].count \in Nat
      BY <2>1, ReferredBy, ProxyType
    <2> QED BY <2>2
  <1> QED BY <1>2, <1>3, <1>4, <1>5, <1>6 DEF NoneOnDeleted

\* Nobody works on a proxy that has been deleted, but Complete when the last
\* reference went in its gap: whatever is given up, lost or late, and whichever
\* side ends the channel.
THEOREM NoneOnDeletedHolds == Spec => []NoneOnDeleted
  <1>1. Init => LocalInv
    BY LocalInit
  <1>2. LocalInv /\ [Next]_vars => LocalInv'
    BY LocalNext
  <1>3. LocalInv => NoneOnDeleted
    BY LocalNoneOnDeleted
  <1> QED BY <1>1, <1>2, <1>3, PTL DEF Spec

-----------------------------------------------------------------------------
(* The messages and the owner.                                              *)

\* A message of a thread, and one call that changes.
LEMMA CallerIs == "nobody" \notin Users
  BY UserAssumption

\* The types of the fields of a call.
LEMMA CallType ==
    ASSUME OwnerTypes, NEW c \in Calls
    PROVE  /\ call[c] \in Messages /\ call[c].refs \in Nat
           /\ call[c].by \in Users \cup {"nobody"} /\ call[c].kind \in {"none", "get", "release"}
           /\ call[c].stage \in {"none", "sent", "queued", "handling", "answered"}
  BY DEF OwnerTypes, Messages

OnlyCall(c) ==
    /\ call' \in [Calls -> Messages]
    /\ \A d \in Calls : d # c => call'[d] = call[d]

\* What a step that assigns to one call changes.
LEMMA CallBecomes ==
    ASSUME OwnerTypes, NEW c \in Calls, NEW m \in Messages, call' = [call EXCEPT ![c] = m]
    PROVE  OnlyCall(c) /\ call'[c] = m
  <1>1. call \in [Calls -> Messages]
    BY DEF OwnerTypes, Messages
  <1> QED BY <1>1 DEF OnlyCall

\* A free slot is a message.
LEMMA NoCallType == NoCall \in Messages
  BY DEF NoCall, Messages

\* What remains is a natural number.
LEMMA LessType ==
    ASSUME NEW n \in Nat, NEW m \in Nat
    PROVE  Less(n, m) \in Nat
  BY DEF Less

\* So is what a late answer brings.
LEMMA CarriedType ==
    ASSUME OwnerTypes, NEW c \in Calls
    PROVE  Carried(c) \in Nat
  BY CallType DEF Carried

\* What Report writes.
LEMMA ReportIs ==
    ASSUME OwnerTypes, NEW c \in Calls, NEW n \in Nat, Report(c, n)
    PROVE  /\ OnlyCall(c)
           /\ link = "open" => /\ call'[c].kind = call[c].kind /\ call'[c].by = call[c].by
                               /\ call'[c].refs = n /\ call'[c].stage = "answered"
           /\ link # "open" => call'[c] = NoCall
  <1>1. PICK m : m = IF link = "open" THEN [[call[c] EXCEPT !.stage = "answered"] EXCEPT !.refs = n]
                     ELSE NoCall
    OBVIOUS
  <1>2. m \in Messages
    BY <1>1, CallType, NoCallType DEF Messages
  <1>3. link = "open" => /\ m.kind = call[c].kind /\ m.by = call[c].by
                         /\ m.refs = n /\ m.stage = "answered"
    BY <1>1, CallType DEF Messages
  <1>4. call' = [call EXCEPT ![c] = m]
    BY <1>1 DEF Report
  <1>5. OnlyCall(c) /\ call'[c] = m
    BY <1>2, <1>4, CallBecomes
  <1> QED BY <1>1, <1>3, <1>5

\* One field of a message.
LEMMA CallIsNot ==
    ASSUME OwnerTypes, NEW c \in Calls, call' = [call EXCEPT ![c].by = "nobody"]
    PROVE  /\ OnlyCall(c) /\ call'[c].by = "nobody" /\ call'[c].kind = call[c].kind
           /\ call'[c].refs = call[c].refs /\ call'[c].stage = call[c].stage
  <1>1. PICK m : m = [call[c] EXCEPT !.by = "nobody"]
    OBVIOUS
  <1>2. /\ m \in Messages /\ m.by = "nobody" /\ m.kind = call[c].kind
        /\ m.refs = call[c].refs /\ m.stage = call[c].stage
    BY <1>1, CallType DEF Messages
  <1>3. call' = [call EXCEPT ![c] = m]
    BY <1>1
  <1> QED BY <1>2, <1>3, CallBecomes

\* A call that goes on to the next stage keeps all else.
LEMMA CallGoes ==
    ASSUME OwnerTypes, NEW c \in Calls, NEW s \in {"queued", "handling"},
           call' = [call EXCEPT ![c].stage = s]
    PROVE  /\ OnlyCall(c) /\ call'[c].by = call[c].by /\ call'[c].kind = call[c].kind
           /\ call'[c].refs = call[c].refs /\ call'[c].stage = s
  <1>1. PICK m : m = [call[c] EXCEPT !.stage = s]
    OBVIOUS
  <1>2. /\ m \in Messages /\ m.by = call[c].by /\ m.kind = call[c].kind
        /\ m.refs = call[c].refs /\ m.stage = s
    BY <1>1, CallType DEF Messages
  <1>3. call' = [call EXCEPT ![c] = m]
    BY <1>1
  <1> QED BY <1>2, <1>3, CallBecomes

\* A closing channel loses the messages on it.
LEMMA ClosingCalls ==
    ASSUME OwnerTypes, Closing
    PROVE  /\ call' \in [Calls -> Messages]
           /\ \A c \in Calls : call'[c] = IF call[c].stage \in {"sent", "answered"} THEN NoCall
                                          ELSE call[c]
  <1>1. \A c \in Calls : call[c] \in Messages /\ NoCall \in Messages
    BY CallType, NoCallType
  <1> QED BY <1>1 DEF Closing

\* The two messages of an answer that is taken for another one's.
LEMMA MistakenIs ==
    ASSUME OwnerTypes, NEW c \in Calls, NEW d \in Calls, Late(c),
           call[d].by # "nobody", call[d].stage # "answered",
           call' = [call EXCEPT ![c] = [kind |-> call[d].kind, by |-> call[d].by,
                                        refs |-> Carried(c), stage |-> "answered"],
                                ![d].by = "nobody"]
    PROVE  /\ c # d /\ call' \in [Calls -> Messages]
           /\ \A e \in Calls : e \notin {c, d} => call'[e] = call[e]
           /\ call'[c].kind = call[d].kind /\ call'[c].by = call[d].by
           /\ call'[c].refs = Carried(c) /\ call'[c].stage = "answered"
           /\ call'[d].by = "nobody" /\ call'[d].kind = call[d].kind
           /\ call'[d].refs = call[d].refs /\ call'[d].stage = call[d].stage
  <1>1. c # d
    BY DEF Late
  <1>2. PICK m : m = [kind |-> call[d].kind, by |-> call[d].by, refs |-> Carried(c),
                      stage |-> "answered"]
    OBVIOUS
  <1>3. PICK n : n = [call[d] EXCEPT !.by = "nobody"]
    OBVIOUS
  <1>4. m \in Messages
    BY <1>2, CallType, CarriedType DEF Messages
  <1>5. /\ n \in Messages /\ n.by = "nobody" /\ n.kind = call[d].kind
        /\ n.refs = call[d].refs /\ n.stage = call[d].stage
    BY <1>3, CallType DEF Messages
  <1>6. call \in [Calls -> Messages]
    BY DEF OwnerTypes, Messages
  <1>7. call' = [[call EXCEPT ![c] = m] EXCEPT ![d] = n]
    BY <1>1, <1>2, <1>3, <1>6
  <1>8. call'[c] = m /\ call'[d] = n /\ call' \in [Calls -> Messages]
        /\ \A e \in Calls : e \notin {c, d} => call'[e] = call[e]
    BY <1>1, <1>4, <1>5, <1>6, <1>7
  <1> QED BY <1>1, <1>2, <1>5, <1>8

\* The types, when no count of the owner changes.
LEMMA OwnerTypesKept ==
    ASSUME OwnerTypes, UNCHANGED ownerVars, call' \in [Calls -> Messages],
           takes' = takes \/ (takes < MaxTakes /\ takes' = takes + 1),
           lost' \in Nat, offerer' \in {"idle", "waiting", "shutting"}
    PROVE  OwnerTypes'
  <1>1. takes' \in 0 .. MaxTakes
    BY BoundAssumption DEF OwnerTypes
  <1> QED BY <1>1 DEF OwnerTypes, ownerVars, Messages

\* The types of the owner and of the calls, one by one.
LEMMA OwnerTypesOpen ==
    ASSUME OwnerTypes
    PROVE  /\ call \in [Calls -> Messages] /\ lost \in Nat
           /\ count \in Nat /\ registered \in Nat /\ held \in Nat /\ own \in BOOLEAN
           /\ offerer \in {"idle", "waiting", "shutting"}
  BY DEF OwnerTypes, Messages

\* The steps of threads keep them ...
LEMMA OwnerTypesUser ==
    ASSUME LocalInv, OwnerTypes, NEW u \in Users, UserNext(u)
    PROVE  OwnerTypes'
  <1> USE OwnerTypesOpen
  <1>1. CASE Ask(u)
    <2>1. PICK c \in Calls :
            call' = [call EXCEPT ![c] = [kind |-> "get", by |-> u, refs |-> 0, stage |-> "sent"]]
      BY <1>1 DEF Ask
    <2>2. [kind |-> "get", by |-> u, refs |-> 0, stage |-> "sent"] \in Messages
      BY DEF Messages
    <2>3. call' \in [Calls -> Messages]
      BY <2>1, <2>2, CallBecomes DEF OnlyCall
    <2> QED BY <1>1, <2>3, OwnerTypesKept DEF Ask
  <1>2. CASE Return(u) \/ Released(u)
    <2>1. PICK c \in Calls : call' = [call EXCEPT ![c] = NoCall]
      BY <1>2 DEF Return, Released
    <2>2. call' \in [Calls -> Messages]
      BY <2>1, NoCallType, CallBecomes DEF OnlyCall
    <2> QED BY <1>2, <2>2, OwnerTypesKept DEF Return, Released
  <1>3. CASE Copy(u)
    BY <1>3, OwnerTypesKept DEF Copy
  <1>4. CASE Obtain(u) \/ AskFails(u) \/ TakeKept(u) \/ Drop(u) \/ ReleaseFails(u) \/ Leave(u)
    <2>1. UNCHANGED ownerVars /\ UNCHANGED <<call, takes, lost, offerer>>
      BY <1>4 DEF Obtain, AskFails, TakeKept, Drop, ReleaseFails, Leave
    <2> QED BY <2>1, OwnerTypesKept
  <1>5. CASE SendRelease(u)
    <2>1. PICK c \in Calls :
            call' = [call EXCEPT ![c] = [kind |-> "release", by |-> u,
                                         refs |-> proxy[user[u].p].remote, stage |-> "sent"]]
      BY <1>5 DEF SendRelease
    <2>2. proxy[user[u].p].remote \in Nat
      <3>1. user[u].at = "releasing" /\ user[u].p # None
        BY <1>5 DEF SendRelease, LocalInv, PlaceInv
      <3>2. user[u].p \in Proxies
        BY <3>1, EndingProxy
      <3> QED BY <3>2, ProxyType DEF LocalInv
    <2>3. [kind |-> "release", by |-> u, refs |-> proxy[user[u].p].remote, stage |-> "sent"]
            \in Messages
      BY <2>2 DEF Messages
    <2>4. call' \in [Calls -> Messages]
      BY <2>1, <2>3, CallBecomes DEF OnlyCall
    <2> QED BY <1>5, <2>4, OwnerTypesKept DEF SendRelease
  <1>6. CASE TimedOut(u)
    <2>1. PICK c \in Calls : call' = [call EXCEPT ![c].by = "nobody"]
      BY <1>6 DEF TimedOut
    <2>2. call' \in [Calls -> Messages]
      BY <2>1, CallIsNot DEF OnlyCall
    <2> QED BY <1>6, <2>2, OwnerTypesKept DEF TimedOut
  <1>7. CASE Shutdown(u)
    <2>1. (link = "open" /\ Closing) \/ UNCHANGED <<link, call, inbound>>
      BY <1>7, ShutIs DEF Shutdown
    <2>2. call' \in [Calls -> Messages]
      BY <2>1, ClosingCalls
    <2> QED BY <1>7, <2>2, OwnerTypesKept DEF Shutdown
  <1> QED BY <1>1, <1>2, <1>3, <1>4, <1>5, <1>6, <1>7 DEF UserNext

\* ... those of calls ...
LEMMA OwnerTypesCall ==
    ASSUME OwnerTypes, NEW c \in Calls, CallNext(c)
    PROVE  OwnerTypes'
  <1> USE OwnerTypesOpen
  <1>1. CASE Receive(c)
    <2>1. call' = [call EXCEPT ![c].stage = "queued"]
      BY <1>1 DEF Receive
    <2>2. call' \in [Calls -> Messages]
      BY <2>1, CallGoes DEF OnlyCall
    <2>3. count' \in Nat /\ held' \in Nat
      BY <1>1 DEF Receive
    <2>4. UNCHANGED <<own, registered, offerer, takes, lost>>
      BY <1>1 DEF Receive
    <2> QED BY <2>2, <2>3, <2>4 DEF OwnerTypes, Messages
  <1>2. CASE Begin(c)
    <2>1. CASE link = "open"
      <3>1. call' = [call EXCEPT ![c].stage = "handling"]
        BY <1>2, <2>1 DEF Begin
      <3>2. call' \in [Calls -> Messages]
        BY <3>1, CallGoes DEF OnlyCall
      <3> QED BY <1>2, <3>2, OwnerTypesKept DEF Begin
    <2>2. CASE link # "open"
      <3>1. call' = [call EXCEPT ![c] = NoCall]
        BY <1>2, <2>2 DEF Begin
      <3>2. call' \in [Calls -> Messages]
        BY <3>1, NoCallType, CallBecomes DEF OnlyCall
      <3> QED BY <1>2, <3>2, OwnerTypesKept DEF Begin
    <2> QED BY <2>1, <2>2
  <1>3. CASE HandleGet(c)
    <2>1. Report(c, 1) \/ Report(c, 0)
      BY <1>3 DEF HandleGet
    <2>2. call' \in [Calls -> Messages]
      BY <2>1, ReportIs DEF OnlyCall
    <2>3. count' \in Nat /\ registered' \in Nat
      BY <1>3 DEF HandleGet
    <2> QED BY <1>3, <2>2, <2>3 DEF OwnerTypes, Messages, HandleGet
  <1>4. CASE HandleRelease(c)
    <2>1. Report(c, call[c].refs) /\ call[c].refs \in Nat
      BY <1>4, CallType DEF HandleRelease
    <2>2. call' \in [Calls -> Messages]
      BY <2>1, ReportIs DEF OnlyCall
    <2>3. count' \in Nat /\ registered' \in Nat
      BY <1>4, <2>1, LessType DEF HandleRelease
    <2> QED BY <1>4, <2>2, <2>3 DEF OwnerTypes, Messages, HandleRelease
  <1>5. CASE Unexpected(c)
    <2>1. call' = [call EXCEPT ![c] = NoCall] /\ lost' = lost + Carried(c) /\ Carried(c) \in Nat
      BY <1>5, CarriedType DEF Unexpected
    <2>2. call' \in [Calls -> Messages]
      BY <2>1, NoCallType, CallBecomes DEF OnlyCall
    <2> QED BY <1>5, <2>1, <2>2, OwnerTypesKept DEF Unexpected
  <1>6. CASE Mistaken(c)
    <2>1. PICK d \in Calls :
            /\ Late(c) /\ call[d].by # "nobody" /\ call[d].stage # "answered"
            /\ call' = [call EXCEPT ![c] = [kind |-> call[d].kind, by |-> call[d].by,
                                            refs |-> Carried(c), stage |-> "answered"],
                                    ![d].by = "nobody"]
            /\ lost' = IF call[d].kind = "get" THEN lost ELSE lost + Carried(c)
      BY <1>6 DEF Mistaken
    <2>2. call' \in [Calls -> Messages]
      BY <2>1, MistakenIs
    <2>3. Carried(c) \in Nat /\ lost' \in Nat
      BY <2>1, CarriedType
    <2> QED BY <1>6, <2>2, <2>3, OwnerTypesKept DEF Mistaken
  <1> QED BY <1>1, <1>2, <1>3, <1>4, <1>5, <1>6 DEF CallNext

\* The jobs at work are finitely many.
LEMMA AtWorkFinite == IsFiniteSet(AtWork) /\ Cardinality(AtWork) \in Nat
  <1>1. AtWork \in SUBSET Calls
    BY DEF AtWork
  <1> QED BY <1>1, BoundAssumption, FS_Subset, FS_CardinalityType

\* ... the others ...
LEMMA OwnerTypesRest ==
    ASSUME OwnerTypes, InboundNext \/ Clear \/ OwnerDrop \/ Close \/ Closed
                         \/ \E p \in Proxies : Dangling(p)
    PROVE  OwnerTypes'
  <1> USE OwnerTypesOpen
  <1>1. CASE Offer \/ OfferTimedOut \/ OfferFails \/ BeginOffer \/ Unmarshal \/ Keep \/ LetGo
             \/ CompleteRelease \/ CompleteMode \/ Unheard \/ \E p \in Proxies : Dangling(p)
    <2>1. /\ UNCHANGED ownerVars /\ UNCHANGED <<call, lost>>
          /\ offerer' \in {"idle", "waiting", "shutting"}
          /\ takes' = takes \/ (takes < MaxTakes /\ takes' = takes + 1)
      BY <1>1 DEF Offer, OfferTimedOut, OfferFails, BeginOffer, Unmarshal, Keep, LetGo,
           CompleteRelease, CompleteMode, Unheard, Dangling
    <2> QED BY <2>1, OwnerTypesKept
  <1>2. CASE OfferShutdown \/ Close
    <2>1. /\ (link = "open" /\ Closing) \/ UNCHANGED <<link, call, inbound>>
          /\ UNCHANGED ownerVars /\ UNCHANGED <<lost, takes>>
          /\ offerer' \in {"idle", "waiting", "shutting"}
      BY <1>2, ShutIs DEF OfferShutdown, Close
    <2>2. call' \in [Calls -> Messages]
      BY <2>1, ClosingCalls
    <2> QED BY <2>1, <2>2, OwnerTypesKept
  <1>3. CASE Accept
    <2>1. count' \in Nat /\ registered' \in Nat
      BY <1>3, LessType DEF Accept
    <2> QED BY <1>3, <2>1 DEF OwnerTypes, Messages, Accept
  <1>4. CASE Clear
    <2>1. held > Cardinality(AtWork) /\ held' = held - 1 /\ count' = Less(count, 1)
      BY <1>4 DEF Clear
    <2>2. held' \in Nat
      BY <2>1, AtWorkFinite
    <2>3. Less(count, 1) \in Nat
      BY LessType
    <2> QED BY <1>4, <2>1, <2>2, <2>3 DEF OwnerTypes, Messages, Clear
  <1>5. CASE OwnerDrop
    <2>1. count' \in Nat
      BY <1>5, LessType DEF OwnerDrop
    <2> QED BY <1>5, <2>1 DEF OwnerTypes, Messages, OwnerDrop
  <1>6. CASE Closed
    <2>1. \/ count' = Less(count, registered) /\ registered' = 0
          \/ UNCHANGED <<count, registered>>
      BY <1>6 DEF Closed
    <2>2. Less(count, registered) \in Nat
      BY LessType
    <2>3. count' \in Nat /\ registered' \in Nat
      BY <2>1, <2>2
    <2> QED BY <1>6, <2>3 DEF OwnerTypes, Messages, Closed
  <1> QED BY <1>1, <1>2, <1>3, <1>4, <1>5, <1>6 DEF InboundNext

\* ... and so every step.
LEMMA OwnerTypesNext ==
    ASSUME LocalInv, OwnerTypes, [Next]_vars
    PROVE  OwnerTypes'
  <1>1. CASE UNCHANGED vars
    BY <1>1 DEF vars, ownerVars, OwnerTypes
  <1> QED BY <1>1, OwnerTypesUser, OwnerTypesCall, OwnerTypesRest DEF Next

\* Every value has its type, and the proxies of the channel are distinct.
THEOREM TypeCorrect == Spec => []TypeOK
  <1>1. Init => LocalInv /\ OwnerTypes
    <2>1. Init => OwnerTypes
      BY NoCallType, BoundAssumption DEF Init, OwnerTypes, Messages
    <2> QED BY <2>1, LocalInit
  <1>2. LocalInv /\ OwnerTypes /\ [Next]_vars => (LocalInv /\ OwnerTypes)'
    BY LocalNext, OwnerTypesNext
  <1>3. LocalInv /\ OwnerTypes => TypeOK
    BY TypesAre DEF LocalInv
  <1> QED BY <1>1, <1>2, <1>3, PTL DEF Spec

-----------------------------------------------------------------------------
(* Messages are as they were made.                                          *)

\* A message goes on agreeing with who waits for it when neither changes.
LEMMA MessageStays ==
    ASSUME NEW m, NEW channel, NEW next, NEW threads, NEW after,
           MessageIs(m, channel, threads),
           next = channel \/ (next # "open" /\ m.stage \notin {"sent", "answered"}),
           next = "open" /\ m.by # "nobody" => after[m.by].at = threads[m.by].at
    PROVE  MessageIs(m, next, after)
  BY DEF MessageIs

\* A free slot agrees with everybody.
LEMMA NoCallIs ==
    ASSUME NEW channel, NEW threads
    PROVE  MessageIs(NoCall, channel, threads)
  BY DEF MessageIs, NoCall

\* CallInv of one call ...
LEMMA CallInvOpen ==
    ASSUME CallInv, NEW c \in Calls
    PROVE  MessageIs(call[c], link, user)
  BY DEF CallInv

\* ... and from all of them, in the next state.
LEMMA CallInvNext ==
    ASSUME \A c \in Calls : MessageIs(call'[c], link', user'), OneCaller'
    PROVE  CallInv'
  BY DEF CallInv, MessageIs

\* The calls stay, and so do those who wait for them.
LEMMA CallsKept ==
    ASSUME OwnerTypes, CallInv, UNCHANGED call,
           link' = link \/ (link # "open" /\ link' # "open"),
           link = "open" => \A u \in Users : user[u].at \in {"asking", "telling"}
                                                => user'[u].at = user[u].at
    PROVE  CallInv'
  <1>1. ASSUME NEW c \in Calls
        PROVE  MessageIs(call'[c], link', user')
    <2>1. PICK m : m = call[c]
      OBVIOUS
    <2>2. MessageIs(m, link, user) /\ m.by \in Users \cup {"nobody"}
      BY <2>1, CallInvOpen, CallType
    <2>3. link' = "open" /\ m.by # "nobody" => user'[m.by].at = user[m.by].at
      BY <2>2 DEF MessageIs
    <2>4. link' = link \/ (link' # "open" /\ m.stage \notin {"sent", "answered"})
      BY <2>2 DEF MessageIs
    <2>5. MessageIs(m, link', user')
      BY <2>2, <2>3, <2>4, MessageStays
    <2> QED BY <2>1, <2>5
  <1>2. OneCaller'
    BY DEF CallInv, OneCaller
  <1> QED BY <1>1, <1>2, CallInvNext

\* The channel closes.
LEMMA CallsClose ==
    ASSUME OwnerTypes, CallInv, Closing
    PROVE  CallInv'
  <1>1. link' = "closed"
    BY DEF Closing
  <1>2. ASSUME NEW c \in Calls
        PROVE  MessageIs(call'[c], link', user')
    <2>1. CASE call[c].stage \in {"sent", "answered"}
      BY <2>1, ClosingCalls, NoCallIs
    <2>2. CASE call[c].stage \notin {"sent", "answered"}
      <3>1. PICK m : m = call[c]
        OBVIOUS
      <3>2. MessageIs(m, link, user) /\ call'[c] = m
        BY <2>2, <3>1, CallInvOpen, ClosingCalls
      <3>3. MessageIs(m, link', user')
        BY <1>1, <2>2, <3>1, <3>2, MessageStays
      <3> QED BY <3>2, <3>3
    <2> QED BY <2>1, <2>2
  <1>3. OneCaller'
    BY <1>1 DEF OneCaller
  <1> QED BY <1>2, <1>3, CallInvNext

\* One call changes, and the other ones nobody waits for or as before.
LEMMA CallChanges ==
    ASSUME OwnerTypes, CallInv, NEW c \in Calls, OnlyCall(c), link' = link,
           MessageIs(call'[c], link', user'),
           \/ user' = user
           \/ \A d \in Calls : d # c => call[d].by = "nobody",
           \/ call'[c].by \in {"nobody", call[c].by}
           \/ \A d \in Calls : d # c => call[d].by = "nobody"
    PROVE  CallInv'
  <1>1. ASSUME NEW d \in Calls
        PROVE  MessageIs(call'[d], link', user')
    <2>1. CASE d = c
      BY <2>1
    <2>2. CASE d # c
      <3>1. PICK m : m = call[d]
        OBVIOUS
      <3>2. MessageIs(m, link, user) /\ call'[d] = m
        BY <2>2, <3>1, CallInvOpen DEF OnlyCall
      <3>3. m.by # "nobody" => user'[m.by].at = user[m.by].at
        BY <2>2, <3>1
      <3>4. MessageIs(m, link', user')
        BY <3>2, <3>3, MessageStays
      <3> QED BY <3>2, <3>4
    <2> QED BY <2>1, <2>2
  <1>2. OneCaller'
    BY DEF CallInv, OneCaller, OnlyCall
  <1> QED BY <1>1, <1>2, CallInvNext

\* Whose answer is there, the channel is open and no other thread waits.
LEMMA Answered ==
    ASSUME OwnerTypes, CallInv, NEW c \in Calls, call[c].stage \in {"sent", "answered"}
    PROVE  /\ link = "open"
           /\ call[c].by # "nobody" => \A d \in Calls : d # c => call[d].by = "nobody"
  <1>1. MessageIs(call[c], link, user)
    BY CallInvOpen
  <1>2. link = "open"
    BY <1>1 DEF MessageIs
  <1> QED BY <1>2 DEF CallInv, OneCaller

\* A step of a thread.
LEMMA CallInvUser ==
    ASSUME LocalInv, OwnerTypes, CallInv, NEW u \in Users, UserNext(u)
    PROVE  CallInv'
  <1> USE OwnerTypesOpen DEF LocalInv
  <1>1. CASE Ask(u)
    <2>1. PICK c \in Calls :
            call' = [call EXCEPT ![c] = [kind |-> "get", by |-> u, refs |-> 0, stage |-> "sent"]]
      BY <1>1 DEF Ask
    <2>2. [kind |-> "get", by |-> u, refs |-> 0, stage |-> "sent"] \in Messages
      BY DEF Messages
    <2>3. OnlyCall(c) /\ call'[c] = [kind |-> "get", by |-> u, refs |-> 0, stage |-> "sent"]
      BY <2>1, <2>2, CallBecomes
    <2>4. link = "open" /\ link' = link /\ user'[u].at = "asking"
      BY <1>1, UserAt DEF Ask
    <2>5. MessageIs(call'[c], link', user')
      BY <2>3, <2>4 DEF MessageIs
    <2>6. \A d \in Calls : d # c => call[d].by = "nobody"
      BY <1>1 DEF Ask, Serial
    <2> QED BY <2>3, <2>4, <2>5, <2>6, CallChanges
  <1>2. CASE Return(u) \/ Released(u)
    <2>1. PICK c \in Calls :
            call[c].by = u /\ call[c].stage = "answered" /\ call' = [call EXCEPT ![c] = NoCall]
      BY <1>2 DEF Return, Released
    <2>2. OnlyCall(c) /\ call'[c] = NoCall
      BY <2>1, NoCallType, CallBecomes
    <2>3. MessageIs(call'[c], link', user')
      BY <2>2, NoCallIs
    <2>4. \A d \in Calls : d # c => call[d].by = "nobody"
      BY <2>1, Answered, CallerIs
    <2>5. link' = link
      BY <1>2 DEF Return, Released
    <2> QED BY <2>2, <2>3, <2>4, <2>5, CallChanges
  <1>3. CASE SendRelease(u)
    <2>1. PICK c \in Calls :
            call' = [call EXCEPT ![c] = [kind |-> "release", by |-> u,
                                         refs |-> proxy[user[u].p].remote, stage |-> "sent"]]
      BY <1>3 DEF SendRelease
    <2>2. proxy[user[u].p].remote \in Nat /\ proxy[user[u].p].remote >= 1
      <3>1. user[u].at = "releasing" /\ user[u].p # None
        BY <1>3 DEF SendRelease, PlaceInv
      <3>2. user[u].p \in Proxies /\ Ending(user[u].p, u)
        BY <3>1, EndingProxy
      <3> QED BY <3>2, ProxyType DEF Ending
    <2>3. [kind |-> "release", by |-> u, refs |-> proxy[user[u].p].remote, stage |-> "sent"]
            \in Messages
      BY <2>2 DEF Messages
    <2>4. OnlyCall(c) /\ call'[c] = [kind |-> "release", by |-> u,
                                     refs |-> proxy[user[u].p].remote, stage |-> "sent"]
      BY <2>1, <2>3, CallBecomes
    <2>5. link = "open" /\ link' = link /\ user'[u].at = "telling"
      BY <1>3, UserAt DEF SendRelease
    <2>6. MessageIs(call'[c], link', user')
      BY <2>2, <2>4, <2>5 DEF MessageIs
    <2>7. \A d \in Calls : d # c => call[d].by = "nobody"
      BY <1>3 DEF SendRelease, Serial
    <2> QED BY <2>4, <2>5, <2>6, <2>7, CallChanges
  <1>4. CASE TimedOut(u)
    <2>1. PICK c \in Calls :
            /\ user[u].at \in {"asking", "telling"} /\ call[c].by = u /\ link = "open"
            /\ call' = [call EXCEPT ![c].by = "nobody"] /\ link' = link
      BY <1>4 DEF TimedOut
    <2>2. /\ OnlyCall(c) /\ call'[c].by = "nobody" /\ call'[c].kind = call[c].kind
          /\ call'[c].refs = call[c].refs /\ call'[c].stage = call[c].stage
      BY <2>1, CallIsNot
    <2>3. \A d \in Calls : d # c => call[d].by = "nobody"
      BY <2>1, CallerIs DEF CallInv, OneCaller
    <2>4. MessageIs(call[c], link, user) /\ call[c].kind # "none"
      BY <2>1, CallInvOpen, CallerIs DEF MessageIs, NoCall
    <2>5. MessageIs(call'[c], link', user')
      BY <2>1, <2>2, <2>4 DEF MessageIs
    <2> QED BY <2>1, <2>2, <2>3, <2>5, CallChanges
  <1>5. CASE AskFails(u) \/ ReleaseFails(u)
    <2>1. link # "open" /\ UNCHANGED <<call, link>>
      BY <1>5 DEF AskFails, ReleaseFails
    <2> QED BY <2>1, CallsKept
  <1>6. CASE Obtain(u) \/ Copy(u) \/ TakeKept(u) \/ Drop(u) \/ Leave(u)
    <2>1. user[u].at \notin {"asking", "telling"} /\ UNCHANGED <<call, link>>
      BY <1>6 DEF Obtain, Copy, TakeKept, Drop, Leave
    <2>2. \A v \in Users : v # u => user'[v] = user[v]
      BY <1>6 DEF Obtain, Copy, TakeKept, Drop, Leave, LocalTypes
    <2>3. \A v \in Users : user[v].at \in {"asking", "telling"} => user'[v].at = user[v].at
      BY <2>1, <2>2
    <2> QED BY <2>1, <2>3, CallsKept
  <1>7. CASE Shutdown(u)
    <2>1. CASE link = "open" /\ Closing
      BY <2>1, CallsClose
    <2>2. CASE UNCHANGED <<link, call, inbound>>
      <3>1. user[u].at = "shutting" /\ \A v \in Users : v # u => user'[v] = user[v]
        BY <1>7 DEF Shutdown, LocalTypes
      <3>2. \A v \in Users : user[v].at \in {"asking", "telling"} => user'[v].at = user[v].at
        BY <3>1
      <3> QED BY <2>2, <3>2, CallsKept
    <2>3. (link = "open" /\ Closing) \/ UNCHANGED <<link, call, inbound>>
      BY <1>7, ShutIs DEF Shutdown
    <2> QED BY <2>1, <2>2, <2>3
  <1> QED BY <1>1, <1>2, <1>3, <1>4, <1>5, <1>6, <1>7 DEF UserNext

\* ... of a message.
LEMMA CallInvCall ==
    ASSUME LocalInv, OwnerTypes, CallInv, NEW c \in Calls, CallNext(c)
    PROVE  CallInv'
  <1>1. MessageIs(call[c], link, user) /\ UNCHANGED <<link, user>>
    BY CallInvOpen DEF CallNext, Receive, Begin, HandleGet, HandleRelease, Unexpected, Mistaken
  <1>2. CASE OnlyCall(c) /\ call'[c] = NoCall
    <2>1. MessageIs(call'[c], link', user')
      BY <1>2, NoCallIs
    <2>2. call'[c].by = "nobody"
      BY <1>2 DEF NoCall
    <2> QED BY <1>1, <1>2, <2>1, <2>2, CallChanges
  <1>3. ASSUME OnlyCall(c), call'[c].by = call[c].by, call'[c].kind = call[c].kind,
               call'[c].refs = call[c].refs,
               call[c].kind # "none", call'[c].stage \in {"queued", "handling"},
               call[c].stage # "answered"
        PROVE  CallInv'
    <2>1. MessageIs(call'[c], link', user')
      BY <1>1, <1>3 DEF MessageIs
    <2> QED BY <1>1, <1>3, <2>1, CallChanges
  <1>4. ASSUME OnlyCall(c), call'[c].by = call[c].by, call'[c].kind = call[c].kind,
               call'[c].stage = "answered", link = "open", call[c].kind # "none",
               call[c].kind = "get" => call'[c].refs \in {0, 1}
        PROVE  CallInv'
    <2>1. MessageIs(call'[c], link', user')
      BY <1>1, <1>4 DEF MessageIs
    <2> QED BY <1>1, <1>4, <2>1, CallChanges
  <1>5. call[c].stage # "none" => call[c].kind # "none"
    BY <1>1 DEF MessageIs, NoCall
  <1>6. CASE Receive(c)
    <2>1. call' = [call EXCEPT ![c].stage = "queued"] /\ call[c].stage = "sent"
      BY <1>6 DEF Receive
    <2>2. /\ OnlyCall(c) /\ call'[c].by = call[c].by /\ call'[c].kind = call[c].kind
          /\ call'[c].refs = call[c].refs /\ call'[c].stage = "queued"
      BY <2>1, CallGoes
    <2> QED BY <1>3, <1>5, <2>1, <2>2
  <1>7. CASE Begin(c)
    <2>1. CASE link = "open"
      <3>1. call' = [call EXCEPT ![c].stage = "handling"] /\ call[c].stage = "queued"
        BY <1>7, <2>1 DEF Begin
      <3>2. /\ OnlyCall(c) /\ call'[c].by = call[c].by /\ call'[c].kind = call[c].kind
            /\ call'[c].refs = call[c].refs /\ call'[c].stage = "handling"
        BY <3>1, CallGoes
      <3> QED BY <1>3, <1>5, <3>1, <3>2
    <2>2. CASE link # "open"
      <3>1. call' = [call EXCEPT ![c] = NoCall]
        BY <1>7, <2>2 DEF Begin
      <3> QED BY <1>2, <3>1, NoCallType, CallBecomes
    <2> QED BY <2>1, <2>2
  <1>8. CASE HandleGet(c) \/ HandleRelease(c)
    <2>1. PICK n \in Nat : Report(c, n) /\ (call[c].kind = "get" => n \in {0, 1})
      BY <1>8, CallType DEF HandleGet, HandleRelease
    <2>2. call[c].kind # "none"
      BY <1>8 DEF HandleGet, HandleRelease
    <2>3. /\ OnlyCall(c)
          /\ link = "open" => /\ call'[c].kind = call[c].kind /\ call'[c].by = call[c].by
                              /\ call'[c].refs = n /\ call'[c].stage = "answered"
          /\ link # "open" => call'[c] = NoCall
      BY <2>1, ReportIs
    <2> QED BY <1>2, <1>4, <2>1, <2>2, <2>3
  <1>9. CASE Unexpected(c)
    <2>1. call' = [call EXCEPT ![c] = NoCall]
      BY <1>9 DEF Unexpected
    <2> QED BY <1>2, <2>1, NoCallType, CallBecomes
  <1>10. CASE Mistaken(c)
    <2>1. PICK d \in Calls :
            /\ Late(c) /\ call[d].by # "nobody" /\ call[d].stage # "answered"
            /\ call' = [call EXCEPT ![c] = [kind |-> call[d].kind, by |-> call[d].by,
                                            refs |-> Carried(c), stage |-> "answered"],
                                    ![d].by = "nobody"]
      BY <1>10 DEF Mistaken
    <2>2. /\ c # d /\ call' \in [Calls -> Messages]
          /\ \A e \in Calls : e \notin {c, d} => call'[e] = call[e]
          /\ call'[c].kind = call[d].kind /\ call'[c].by = call[d].by
          /\ call'[c].refs = Carried(c) /\ call'[c].stage = "answered"
          /\ call'[d].by = "nobody" /\ call'[d].kind = call[d].kind
          /\ call'[d].refs = call[d].refs /\ call'[d].stage = call[d].stage
      <3>1. c # d /\ call' \in [Calls -> Messages]
        BY <2>1, MistakenIs
      <3>2. \A e \in Calls : e \notin {c, d} => call'[e] = call[e]
        BY <2>1, MistakenIs
      <3>3. /\ call'[c].kind = call[d].kind /\ call'[c].by = call[d].by
            /\ call'[c].refs = Carried(c) /\ call'[c].stage = "answered"
        BY <2>1, MistakenIs
      <3>4. /\ call'[d].by = "nobody" /\ call'[d].kind = call[d].kind
            /\ call'[d].refs = call[d].refs /\ call'[d].stage = call[d].stage
        <4>1. PICK n : n = [call[d] EXCEPT !.by = "nobody"]
          OBVIOUS
        <4>2. call'[d] = n
          <5>1. call \in [Calls -> Messages]
            BY OwnerTypesOpen
          <5> QED BY <2>1, <3>1, <4>1, <5>1
        <4>3. /\ n.by = "nobody" /\ n.kind = call[d].kind
              /\ n.refs = call[d].refs /\ n.stage = call[d].stage
          BY <4>1, CallType DEF Messages
        <4> QED BY <4>2, <4>3
      <3> QED BY <3>1, <3>2, <3>3, <3>4
    <2>3. MessageIs(call[d], link, user) /\ call[d].kind # "none"
      BY <2>1, CallInvOpen DEF MessageIs, NoCall
    <2>4. Carried(c) \in {0, 1} /\ link = "open"
      BY <1>1, <2>1 DEF Carried, Late, MessageIs
    <2>5. MessageIs(call'[c], link', user')
      BY <1>1, <2>2, <2>3, <2>4 DEF MessageIs
    <2>6. MessageIs(call'[d], link', user')
      BY <1>1, <2>2, <2>3, <2>4 DEF MessageIs
    <2>7. ASSUME NEW e \in Calls
          PROVE  MessageIs(call'[e], link', user')
      <3>1. CASE e \notin {c, d}
        <4>1. MessageIs(call[e], link, user)
          BY CallInvOpen
        <4> QED BY <1>1, <2>2, <3>1, <4>1
      <3> QED BY <2>5, <2>6, <3>1
    <2>8. OneCaller'
      <3>1. \A e \in Calls : e # d => call[e].by = "nobody"
        BY <2>1, <2>4 DEF CallInv, OneCaller
      <3>2. \A e \in Calls : e # c => call'[e].by = "nobody"
        BY <2>2, <3>1
      <3> QED BY <3>2 DEF OneCaller
    <2> QED BY <2>7, <2>8, CallInvNext
  <1> QED BY <1>6, <1>7, <1>8, <1>9, <1>10 DEF CallNext

\* Every step keeps the agreement of calls and callers.
LEMMA CallInvStep ==
    ASSUME LocalInv, OwnerTypes, CallInv, [Next]_vars
    PROVE  CallInv'
  <1>1. CASE UNCHANGED vars
    <2>1. UNCHANGED <<link, call, user>>
      BY <1>1 DEF vars
    <2> QED BY <2>1, CallsKept
  <1>2. CASE Clear \/ OwnerDrop \/ Offer \/ OfferTimedOut \/ OfferFails \/ BeginOffer \/ Unmarshal
             \/ Keep \/ LetGo \/ CompleteRelease \/ CompleteMode \/ Accept \/ Unheard
             \/ \E p \in Proxies : Dangling(p)
    <2>1. UNCHANGED <<link, call, user>>
      BY <1>2 DEF Clear, OwnerDrop, Offer, OfferTimedOut, OfferFails, BeginOffer, Unmarshal,
           Keep, LetGo, CompleteRelease, CompleteMode, Accept, Unheard, Dangling
    <2> QED BY <2>1, CallsKept
  <1>3. CASE OfferShutdown \/ Close
    <2>1. (link = "open" /\ Closing) \/ UNCHANGED <<link, call, inbound>>
      BY <1>3, ShutIs DEF OfferShutdown, Close
    <2>2. user' = user
      BY <1>3 DEF OfferShutdown, Close
    <2>3. CASE UNCHANGED <<link, call, inbound>>
      BY <2>2, <2>3, CallsKept
    <2> QED BY <2>1, <2>3, CallsClose
  <1>4. CASE Closed
    <2>1. UNCHANGED call /\ link = "closed" /\ link' = "deleted"
      BY <1>4 DEF Closed
    <2> QED BY <2>1, CallsKept
  <1> QED BY <1>1, <1>2, <1>3, <1>4, CallInvUser, CallInvCall DEF Next, InboundNext

-----------------------------------------------------------------------------
(* The offers of the owner.                                                 *)

\* A step that leaves the offer alone keeps OfferInv.
LEMMA OfferInvKept ==
    ASSUME OfferInv, UNCHANGED <<own, inbound, offerer>>, slips \subseteq slips',
           link' = "open" => link = "open"
    PROVE  OfferInv'
  BY DEF OfferInv

\* The end of the channel keeps it.
LEMMA OfferInvClose ==
    ASSUME OfferInv, UNCHANGED <<own, offerer>>, slips \subseteq slips', Closing
    PROVE  OfferInv'
  BY DEF OfferInv, Closing

\* Windows that have been hit stay hit, and the setup is fixed.
LEMMA SlipsGrow ==
    ASSUME [Next]_vars
    PROVE  slips \subseteq slips' /\ setup' = setup
  BY DEF Next, vars, UserNext, CallNext, InboundNext, Ask, Return, Obtain, AskFails, Copy, TakeKept,
         Drop, SendRelease, Released, ReleaseFails, TimedOut, Shutdown, Leave, Receive, Begin,
         HandleGet, HandleRelease, Unexpected, Mistaken, Clear, OwnerDrop, Offer, OfferTimedOut,
         OfferShutdown, OfferFails, BeginOffer, Unmarshal, Keep, LetGo, CompleteRelease,
         CompleteMode, Accept, Unheard, Close, Closed, Dangling

\* The steps of threads keep OfferInv ...
LEMMA OfferInvUser ==
    ASSUME OfferInv, NEW u \in Users, UserNext(u), slips \subseteq slips'
    PROVE  OfferInv'
  <1>1. CASE Shutdown(u)
    <2>1. (link = "open" /\ Closing) \/ UNCHANGED <<link, call, inbound>>
      BY <1>1, ShutIs DEF Shutdown
    <2>2. UNCHANGED <<own, offerer>>
      BY <1>1 DEF Shutdown, ownerVars
    <2> QED BY <2>1, <2>2, OfferInvKept, OfferInvClose
  <1>2. CASE ~ Shutdown(u)
    <2>1. UNCHANGED <<own, inbound, offerer, link>>
      BY <1>2 DEF UserNext, Ask, Return, Obtain, AskFails, Copy, TakeKept,
         Drop, SendRelease, Released, ReleaseFails, TimedOut, Leave, ownerVars
    <2> QED BY <2>1, OfferInvKept
  <1> QED BY <1>1, <1>2

\* ... those of the offer ...
LEMMA OfferInvInbound ==
    ASSUME LocalInv, OfferInv, InboundNext, slips \subseteq slips'
    PROVE  OfferInv'
  <1> USE DEF LocalInv
  <1>1. CASE Offer
    BY <1>1 DEF Offer, OfferInv, ownerVars
  <1>2. CASE OfferTimedOut
    BY <1>2 DEF OfferTimedOut, OfferInv, ownerVars
  <1>3. CASE OfferShutdown
    <2>1. (link = "open" /\ Closing) \/ UNCHANGED <<link, call, inbound>>
      BY <1>3, ShutIs DEF OfferShutdown
    <2>2. offerer = "shutting" /\ offerer' = "idle" /\ slips' = slips
      BY <1>3 DEF OfferShutdown
    <2>3. "unheard" \in slips' /\ offerer' = "idle"
      BY <2>2 DEF OfferInv
    <2> QED BY <2>3 DEF OfferInv
  <1>4. CASE OfferFails
    BY <1>4 DEF OfferFails, OfferInv, ownerVars
  <1>5. CASE BeginOffer \/ Unmarshal \/ Keep \/ LetGo \/ CompleteRelease \/ CompleteMode
    <2>1. UNCHANGED <<own, offerer, link>>
      BY <1>5 DEF BeginOffer, Unmarshal, Keep, LetGo, CompleteRelease, CompleteMode, ownerVars
    <2>2. inbound.at \in {"sent", "begun", "inside", "gap"}
      BY <1>5 DEF BeginOffer, Unmarshal, Keep, LetGo, CompleteRelease, CompleteMode
    <2>3. inbound # NoInbound
      BY <2>2 DEF NoInbound
    <2> QED BY <2>1, <2>3 DEF OfferInv
  <1>6. CASE Accept
    BY <1>6 DEF Accept, OfferInv
  <1>7. CASE Unheard
    BY <1>7 DEF Unheard, OfferInv, ownerVars
  <1> QED BY <1>1, <1>2, <1>3, <1>4, <1>5, <1>6, <1>7 DEF InboundNext

\* ... and so every step.
LEMMA OfferInvStep ==
    ASSUME LocalInv, OfferInv, [Next]_vars
    PROVE  OfferInv'
  <1>1. slips \subseteq slips'
    BY SlipsGrow
  <1>2. CASE UNCHANGED vars \/ (\E c \in Calls : CallNext(c)) \/ Clear \/ Closed
             \/ \E p \in Proxies : Dangling(p)
    <2>1. UNCHANGED <<own, inbound, offerer>> /\ (link' = "open" => link = "open")
      BY <1>2 DEF vars, ownerVars, CallNext, Receive, Begin, HandleGet, HandleRelease, Unexpected,
           Mistaken, Clear, Closed, Dangling
    <2> QED BY <1>1, <2>1, OfferInvKept
  <1>3. CASE OwnerDrop
    BY <1>3 DEF OwnerDrop, OfferInv
  <1>4. CASE Close
    BY <1>1, <1>4, OfferInvClose DEF Close, ownerVars
  <1> QED BY <1>1, <1>2, <1>3, <1>4, OfferInvUser, OfferInvInbound DEF Next

-----------------------------------------------------------------------------
(* The roles of the object.                                                 *)

\* What is returned by calls is no sink: nobody waits for the object.
LEMMA SinkUser ==
    ASSUME LocalInv, OwnerTypes, CallInv, SinkInv, NEW u \in Users, UserNext(u)
    PROVE  SinkInv'
  <1> SUFFICES ASSUME setup.role = "sink", setup' = setup
               PROVE  /\ \A v \in Users : user'[v].at \notin {"asking", "returned"}
                      /\ \A c \in Calls : call'[c].kind # "get"
    BY SlipsGrow DEF SinkInv, Next
  <1>1. /\ \A v \in Users : user[v].at \notin {"asking", "returned"}
        /\ \A c \in Calls : call[c].kind # "get"
    BY DEF SinkInv
  <1>2. ~ Ask(u) /\ ~ Return(u) /\ ~ Obtain(u) /\ ~ AskFails(u)
    BY <1>1 DEF Ask, Return, Obtain, AskFails
  <1>3. \A v \in Users : user'[v].at \notin {"asking", "returned"}
    <2>1. \A v \in Users : v # u => user'[v] = user[v]
      BY <1>2 DEF UserNext, Copy, TakeKept, Drop, SendRelease, Released, ReleaseFails, TimedOut,
           Shutdown, Leave, LocalInv, LocalTypes
    <2>2. user'[u].at \notin {"asking", "returned"}
      <3>1. user \in [Users -> Threads]
        BY DEF LocalInv, LocalTypes
      <3>2. CASE Copy(u) \/ TakeKept(u)
        <4>1. PICK p : user' = [user EXCEPT ![u] = [at |-> "holds", p |-> p]]
          BY <3>2 DEF Copy, TakeKept
        <4>2. user'[u] = [at |-> "holds", p |-> p]
          BY <3>1, <4>1
        <4> QED BY <4>2
      <3>3. CASE Drop(u)
        <4>1. \/ user' = [user EXCEPT ![u] = Idle]
              \/ user' = [user EXCEPT ![u].at = "releasing"]
              \/ user' = [user EXCEPT ![u].at = "leaving"]
          BY <3>3 DEF Drop
        <4> QED BY <4>1, UserAt, WorksOnNone DEF LocalInv
      <3>4. CASE SendRelease(u) \/ Released(u) \/ ReleaseFails(u)
        <4>1. \/ user' = [user EXCEPT ![u].at = "telling"]
              \/ user' = [user EXCEPT ![u].at = "leaving"]
          BY <3>4 DEF SendRelease, Released, ReleaseFails
        <4> QED BY <4>1, UserAt DEF LocalInv
      <3>5. CASE TimedOut(u) \/ Shutdown(u) \/ Leave(u)
        <4>1. \/ user' = [user EXCEPT ![u] = Idle]
              \/ user' = [user EXCEPT ![u].at = "shutting"]
              \/ user' = [user EXCEPT ![u].at = "leaving"]
          BY <3>5 DEF TimedOut, Shutdown, Leave
        <4> QED BY <4>1, UserAt, WorksOnNone DEF LocalInv
      <3> QED BY <1>2, <3>2, <3>3, <3>4, <3>5 DEF UserNext
    <2> QED BY <1>1, <2>1, <2>2
  <1>4. \A c \in Calls : call'[c].kind # "get"
    <2>1. CASE SendRelease(u)
      <3>1. PICK c \in Calls :
              call' = [call EXCEPT ![c] = [kind |-> "release", by |-> u,
                                           refs |-> proxy[user[u].p].remote, stage |-> "sent"]]
        BY <2>1 DEF SendRelease
      <3>2. call \in [Calls -> Messages]
        BY OwnerTypesOpen
      <3> QED BY <1>1, <3>1, <3>2
    <2>2. CASE Released(u)
      <3>1. PICK c \in Calls : call' = [call EXCEPT ![c] = NoCall]
        BY <2>2 DEF Released
      <3>2. call \in [Calls -> Messages]
        BY OwnerTypesOpen
      <3> QED BY <1>1, <3>1, <3>2 DEF NoCall
    <2>3. CASE TimedOut(u)
      <3>1. PICK c \in Calls : call' = [call EXCEPT ![c].by = "nobody"]
        BY <2>3 DEF TimedOut
      <3>2. OnlyCall(c) /\ call'[c].kind = call[c].kind
        BY <3>1, CallIsNot
      <3> QED BY <1>1, <3>2 DEF OnlyCall
    <2>4. CASE Shutdown(u)
      <3>1. (link = "open" /\ Closing) \/ UNCHANGED <<link, call, inbound>>
        BY <2>4, ShutIs DEF Shutdown
      <3>2. ASSUME Closing
            PROVE  \A c \in Calls : call'[c].kind # "get"
        BY <1>1, <3>2, ClosingCalls DEF NoCall
      <3> QED BY <1>1, <3>1, <3>2
    <2>5. CASE Copy(u) \/ TakeKept(u) \/ Drop(u) \/ ReleaseFails(u) \/ Leave(u)
      BY <1>1, <2>5 DEF Copy, TakeKept, Drop, ReleaseFails, Leave
    <2> QED BY <1>2, <2>1, <2>2, <2>3, <2>4, <2>5 DEF UserNext
  <1> QED BY <1>3, <1>4

\* An object that is offered is in no answer: the steps of calls ...
LEMMA SinkCall ==
    ASSUME LocalInv, OwnerTypes, SinkInv, NEW c \in Calls, CallNext(c)
    PROVE  SinkInv'
  <1>1. setup' = setup
    BY SlipsGrow DEF Next
  <1> SUFFICES ASSUME setup.role = "sink"
               PROVE  /\ \A v \in Users : user'[v].at \notin {"asking", "returned"}
                      /\ \A d \in Calls : call'[d].kind # "get"
    BY <1>1 DEF SinkInv
  <1>2. user' = user
    BY DEF CallNext, Receive, Begin, HandleGet, HandleRelease, Unexpected, Mistaken
  <1>3. \A d \in Calls : call[d].kind # "get"
    BY DEF SinkInv
  <1>4. ASSUME OnlyCall(c), call'[c].kind \in {"none", call[c].kind}
        PROVE  \A d \in Calls : call'[d].kind # "get"
    BY <1>3, <1>4 DEF OnlyCall
  <1>5. CASE Receive(c)
    <2>1. call' = [call EXCEPT ![c].stage = "queued"]
      BY <1>5 DEF Receive
    <2> QED BY <1>2, <1>4, <2>1, CallGoes DEF SinkInv
  <1>6. CASE Begin(c)
    <2>1. CASE link = "open"
      <3>1. call' = [call EXCEPT ![c].stage = "handling"]
        BY <1>6, <2>1 DEF Begin
      <3> QED BY <1>2, <1>4, <3>1, CallGoes DEF SinkInv
    <2>2. CASE link # "open"
      <3>1. call' = [call EXCEPT ![c] = NoCall]
        BY <1>6, <2>2 DEF Begin
      <3>2. OnlyCall(c) /\ call'[c] = NoCall
        BY <3>1, NoCallType, CallBecomes
      <3> QED BY <1>2, <1>4, <3>2 DEF SinkInv, NoCall
    <2> QED BY <2>1, <2>2
  <1>7. CASE HandleGet(c) \/ HandleRelease(c)
    <2>1. PICK n \in Nat : Report(c, n)
      BY <1>7, CallType DEF HandleGet, HandleRelease
    <2>2. OnlyCall(c) /\ (call'[c].kind = call[c].kind \/ call'[c] = NoCall)
      BY <2>1, ReportIs
    <2> QED BY <1>2, <1>4, <2>2 DEF SinkInv, NoCall
  <1>8. CASE Unexpected(c)
    <2>1. call' = [call EXCEPT ![c] = NoCall]
      BY <1>8 DEF Unexpected
    <2>2. OnlyCall(c) /\ call'[c] = NoCall
      BY <2>1, NoCallType, CallBecomes
    <2> QED BY <1>2, <1>4, <2>2 DEF SinkInv, NoCall
  <1>9. CASE Mistaken(c)
    <2>1. PICK d \in Calls :
            /\ Late(c) /\ call[d].by # "nobody" /\ call[d].stage # "answered"
            /\ call' = [call EXCEPT ![c] = [kind |-> call[d].kind, by |-> call[d].by,
                                            refs |-> Carried(c), stage |-> "answered"],
                                    ![d].by = "nobody"]
      BY <1>9 DEF Mistaken
    <2>2. /\ \A e \in Calls : e \notin {c, d} => call'[e] = call[e]
          /\ call'[c].kind = call[d].kind
      BY <2>1, MistakenIs
    <2>3. call'[d].kind = call[d].kind
      <3>1. PICK n : n = [call[d] EXCEPT !.by = "nobody"]
        OBVIOUS
      <3>2. call'[d] = n
        <4>1. call \in [Calls -> Messages] /\ c # d
          BY <2>1, OwnerTypesOpen DEF Late
        <4> QED BY <2>1, <3>1, <4>1
      <3>3. n.kind = call[d].kind
        BY <3>1, CallType DEF Messages
      <3> QED BY <3>2, <3>3
    <2> QED BY <1>2, <1>3, <2>2, <2>3 DEF SinkInv
  <1> QED BY <1>5, <1>6, <1>7, <1>8, <1>9 DEF CallNext

\* ... and every other one.
LEMMA SinkStep ==
    ASSUME LocalInv, OwnerTypes, CallInv, SinkInv, [Next]_vars
    PROVE  SinkInv'
  <1>1. setup' = setup
    BY SlipsGrow
  <1>2. CASE UNCHANGED <<call, user>>
    BY <1>1, <1>2 DEF SinkInv
  <1>3. CASE Closing /\ user' = user
    <2>1. \A c \in Calls : call'[c] \in {NoCall, call[c]}
      BY <1>3, ClosingCalls
    <2> QED BY <1>1, <1>3, <2>1 DEF SinkInv, NoCall
  <1>4. CASE OfferShutdown \/ Close
    <2>1. ((link = "open" /\ Closing) \/ UNCHANGED <<link, call, inbound>>) /\ user' = user
      BY <1>4, ShutIs DEF OfferShutdown, Close
    <2> QED BY <1>2, <1>3, <2>1
  <1>5. CASE UNCHANGED vars \/ Clear \/ OwnerDrop \/ Offer \/ OfferTimedOut \/ OfferFails
             \/ BeginOffer \/ Unmarshal \/ Keep \/ LetGo \/ CompleteRelease \/ CompleteMode
             \/ Accept \/ Unheard \/ Closed \/ \E p \in Proxies : Dangling(p)
    BY <1>2, <1>5 DEF vars, Clear, OwnerDrop, Offer, OfferTimedOut, OfferFails, BeginOffer, Unmarshal,
         Keep, LetGo, CompleteRelease, CompleteMode, Accept, Unheard, Closed, Dangling
  <1> QED BY <1>4, <1>5, SinkUser, SinkCall DEF Next, InboundNext

\* What a thread does to the modes of the proxies.
SameMode(p) ==
    /\ proxy'[p].mode = proxy[p].mode /\ proxy'[p].remote = proxy[p].remote
    /\ proxy'[p].count > 0 <=> proxy[p].count > 0

\* A thread changes the mode of a proxy only by deleting it, or by making it.
LEMMA UserModes ==
    ASSUME LocalInv, NEW u \in Users, UserNext(u), NEW p \in Proxies
    PROVE  \/ SameMode(p)
           \/ Leave(u) /\ user[u].p = p /\ proxy'[p] = NoProxy
           \/ Obtain(u) /\ p = Chosen
  <1> USE DEF LocalInv
  <1>1. CASE Ask(u) \/ Return(u) \/ AskFails(u) \/ TakeKept(u) \/ SendRelease(u) \/ TimedOut(u)
    BY <1>1 DEF Ask, Return, AskFails, TakeKept, SendRelease, TimedOut, SameMode
  <1>2. CASE Obtain(u)
    <2>1. Chosen \in Proxies /\ OnlyProxy(Chosen)
      BY <1>2, InstanceStep DEF Obtain
    <2> QED BY <1>2, <2>1 DEF OnlyProxy, SameMode
  <1>3. CASE Copy(u)
    <2>1. PICK q \in Proxies :
            /\ q = kept \/ \E v \in Users : user[v] = [at |-> "holds", p |-> q]
            /\ proxy' = [proxy EXCEPT ![q].count = @ + 1]
      BY <1>3 DEF Copy
    <2>2. proxy[q].count \in Nat /\ proxy[q].count >= 2
      BY <2>1, ReferredBy
    <2>3. PICK n \in Nat : n = proxy[q].count + 1
      BY <2>2
    <2>4. proxy' = [proxy EXCEPT ![q].count = n]
      BY <2>1, <2>3
    <2>5. /\ OnlyProxy(q) /\ proxy'[q].count = n
          /\ proxy'[q].mode = proxy[q].mode /\ proxy'[q].remote = proxy[q].remote
      BY <2>4, CountTo
    <2> QED BY <2>2, <2>3, <2>5 DEF OnlyProxy, SameMode
  <1>4. CASE Drop(u)
    <2>1. user[u].at = "holds"
      BY <1>4 DEF Drop
    <2>2. PICK q \in Proxies : q = user[u].p
      BY <2>1 DEF PlaceInv, LocalTypes, Threads
    <2>3. /\ OnlyProxy(q) /\ proxy'[q].mode = proxy[q].mode /\ proxy'[q].remote = proxy[q].remote
          /\ proxy[q].count >= 2 /\ proxy'[q].count \in {1, proxy[q].count - 1}
      BY <1>4, <2>2, DropIs, ProxyType
    <2>4. proxy[q].count \in Nat
      BY ProxyType
    <2> QED BY <2>3, <2>4 DEF OnlyProxy, SameMode
  <1>5. CASE Released(u) \/ ReleaseFails(u) \/ Shutdown(u)
    <2>1. proxy' = proxy \/ (user[u].p # None /\ proxy' = Parted(user[u].p))
      BY <1>5 DEF Released, ReleaseFails, Shutdown, PlaceInv
    <2>2. CASE proxy' = proxy
      BY <2>2 DEF SameMode
    <2>3. CASE user[u].p # None /\ proxy' = Parted(user[u].p)
      <3>1. PICK q \in Proxies : q = user[u].p
        BY <2>3 DEF LocalTypes, Threads
      <3>2. /\ OnlyProxy(q) /\ proxy'[q].count = proxy[q].count
            /\ proxy'[q].mode = proxy[q].mode /\ proxy'[q].remote = proxy[q].remote
        BY <2>3, <3>1, ChannelAndLock DEF Parted
      <3> QED BY <3>2 DEF OnlyProxy, SameMode
    <2> QED BY <2>1, <2>2, <2>3
  <1>6. CASE Leave(u)
    <2>1. PICK q : q = user[u].p
      OBVIOUS
    <2>2. proxy' = [proxy EXCEPT ![q] = NoProxy]
      BY <1>6, <2>1 DEF Leave
    <2> QED BY <1>6, <2>1, <2>2 DEF SameMode, LocalTypes
  <1> QED BY <1>1, <1>2, <1>3, <1>4, <1>5, <1>6 DEF UserNext

\* What is returned is never offered.
LEMMA ServiceUser ==
    ASSUME LocalInv, ServiceInv, NEW u \in Users, UserNext(u)
    PROVE  ServiceInv'
  <1>1. setup' = setup
    BY SlipsGrow DEF Next
  <1> SUFFICES ASSUME setup.role = "service"
               PROVE  /\ inbound' = NoInbound /\ offerer' = "idle" /\ kept' = None
                      /\ \A p \in Proxies : proxy'[p].mode = {}
    BY <1>1 DEF ServiceInv
  <1>2. /\ inbound = NoInbound /\ offerer = "idle" /\ kept = None
        /\ \A p \in Proxies : proxy[p].mode = {}
    BY DEF ServiceInv
  <1>3. inbound' = NoInbound
    <2>1. CASE Shutdown(u)
      BY <1>2, <2>1, ShutIs DEF Shutdown, Closing, NoInbound
    <2>2. CASE ~ Shutdown(u)
      BY <1>2, <2>2 DEF UserNext, Ask, Return, Obtain, AskFails, Copy, TakeKept,
         Drop, SendRelease, Released, ReleaseFails, TimedOut, Leave
    <2> QED BY <2>1, <2>2
  <1>4. offerer' = "idle" /\ kept' = None
    BY <1>2 DEF UserNext, Ask, Return, Obtain, AskFails, Copy, TakeKept,
         Drop, SendRelease, Released, ReleaseFails, TimedOut, Shutdown, Leave
  <1>5. ASSUME NEW p \in Proxies
        PROVE  proxy'[p].mode = {}
    <2>1. CASE Obtain(u) /\ p = Chosen
      <3>1. Possible /\ Instance(p, {})
        BY <2>1 DEF Obtain
      <3>2. proxy'[p].mode = {} \/ proxy'[p].mode = proxy[p].mode \cup {}
        BY <2>1, <3>1, InstanceStep
      <3> QED BY <1>2, <3>2
    <2> QED BY <1>2, <2>1, UserModes DEF SameMode, NoProxy
  <1> QED BY <1>3, <1>4, <1>5

\* An object that calls return is never a parameter.
LEMMA ServiceStep ==
    ASSUME LocalInv, ServiceInv, [Next]_vars
    PROVE  ServiceInv'
  <1> SUFFICES ASSUME setup.role = "service", setup' = setup, ~ \E u \in Users : UserNext(u)
               PROVE  /\ inbound' = NoInbound /\ offerer' = "idle" /\ kept' = None
                      /\ \A p \in Proxies : proxy'[p].mode = {}
    BY SlipsGrow, ServiceUser DEF ServiceInv
  <1>2. /\ inbound = NoInbound /\ offerer = "idle" /\ kept = None
        /\ \A p \in Proxies : proxy[p].mode = {}
    BY DEF ServiceInv
  <1>3. ~ InboundNext
    <2>1. inbound.at = "none"
      BY <1>2 DEF NoInbound
    <2> QED BY <1>2, <2>1 DEF InboundNext, Offer, OfferTimedOut, OfferShutdown, OfferFails, BeginOffer,
         Unmarshal, Keep, LetGo, CompleteRelease, CompleteMode, Accept, Unheard
  <1>4. CASE UNCHANGED <<inbound, offerer, kept, proxy>>
    BY <1>2, <1>4
  <1>5. CASE UNCHANGED vars \/ (\E c \in Calls : CallNext(c)) \/ Clear \/ OwnerDrop
    BY <1>4, <1>5 DEF vars, CallNext, Receive, Begin, HandleGet, HandleRelease, Unexpected,
         Mistaken, Clear, OwnerDrop
  <1>6. CASE Close
    BY <1>2, <1>6 DEF Close, Closing, NoInbound
  <1>7. CASE Closed
    <2>1. CASE setup.server = "owner"
      BY <1>4, <1>7, <2>1 DEF Closed
    <2>2. CASE setup.server # "owner"
      <3>1. \A p \in Proxies : proxy'[p].mode = proxy[p].mode
        BY <1>7, <2>2, ClosedIs
      <3>2. UNCHANGED <<inbound, offerer, kept>>
        BY <1>7 DEF Closed
      <3> QED BY <1>2, <3>1, <3>2
    <2> QED BY <2>1, <2>2
  <1>8. ASSUME NEW q \in Proxies, Dangling(q)
        PROVE  /\ inbound' = NoInbound /\ offerer' = "idle" /\ kept' = None
               /\ \A p \in Proxies : proxy'[p].mode = {}
    <2>1. UNCHANGED <<inbound, offerer>> /\ kept' \in {None, kept}
      BY <1>8 DEF Dangling
    <2>2. OnlyProxy(q) /\ (proxy'[q] = NoProxy \/ proxy'[q].mode = proxy[q].mode)
      BY <1>8, DanglingIs
    <2> QED BY <1>2, <2>1, <2>2 DEF OnlyProxy, NoProxy
  <1> QED BY <1>3, <1>5, <1>6, <1>7, <1>8 DEF Next

-----------------------------------------------------------------------------
(* What is owed, by the proxies and by the messages.                        *)

Owe == [p \in Proxies |-> Owed(p)]
Way == [c \in Calls |-> OnItsWay(c)]
Debt == Total(Proxies, Owe)
Sent == Total(Calls, Way)

\* There are finitely many proxies.
LEMMA ProxiesFinite == IsFiniteSet(Proxies)
  <1>1. MaxProxies \in Int /\ 1 \in Int
    BY BoundAssumption
  <1> QED BY <1>1, FS_Interval DEF Proxies

\* What a proxy owes is a natural number; one with a channel stands for a
\* reference.
LEMMA OwedNat ==
    ASSUME LocalInv, NEW p \in Proxies
    PROVE  Owed(p) \in Nat /\ (proxy[p].channel => proxy[p].remote >= 1)
  <1>1. proxy[p].remote \in Nat
    BY ProxyType DEF LocalInv
  <1>2. proxy[p].channel => proxy[p].remote >= 1
    BY DEF LocalInv, ProxyInv, Absent, Live, Ending, Finished, NoProxy
  <1> QED BY <1>1, <1>2 DEF Owed, One

\* In the next state too.
LEMMA OwedNatNext ==
    ASSUME LocalInv', NEW p \in Proxies
    PROVE  Owed(p)' \in Nat
  <1>1. proxy'[p].remote \in Nat
    BY DEF LocalInv, LocalTypes, Counts
  <1>2. proxy'[p].channel => proxy'[p].remote >= 1
    BY DEF LocalInv, ProxyInv, Absent, Live, Ending, Finished, NoProxy
  <1> QED BY <1>1, <1>2 DEF Owed, One

\* What the proxies owe as a function.
LEMMA OweType ==
    ASSUME LocalInv
    PROVE  Owe \in [Proxies -> Nat] /\ \A p \in Proxies : Owe[p] = Owed(p)
  BY OwedNat DEF Owe

\* In the next state too.
LEMMA OweTypeNext ==
    ASSUME LocalInv'
    PROVE  Owe' \in [Proxies -> Nat] /\ \A p \in Proxies : Owe'[p] = Owed(p)'
  BY OwedNatNext DEF Owe

\* The sum of what the proxies owe, in the next state.
LEMMA DebtNext == Debt' = Total(Proxies, Owe')
  BY DEF Debt, Total, Pairs

\* The sum of what is on its way, in the next state.
LEMMA SentNext == Sent' = Total(Calls, Way')
  BY DEF Sent, Total, Pairs

\* A step changes what one proxy owes, or none.
LEMMA DebtChange ==
    ASSUME LocalInv, LocalInv', NEW p \in Proxies,
           \A q \in Proxies : q # p => Owed(q)' = Owed(q)
    PROVE  /\ Debt \in Nat /\ Owed(p) \in Nat /\ Owed(p)' \in Nat
           /\ Debt' = Debt - Owed(p) + Owed(p)' /\ Debt >= Owed(p)
  <1>1. Owe \in [Proxies -> Nat] /\ \A q \in Proxies : Owe[q] = Owed(q)
    BY OweType
  <1>2. Owe' \in [Proxies -> Nat] /\ \A q \in Proxies : Owe'[q] = Owed(q)'
    BY OweTypeNext
  <1>3. \A q \in Proxies : q # p => Owe'[q] = Owe[q]
    BY <1>1, <1>2
  <1>4. /\ Total(Proxies, Owe) \in Nat
        /\ Total(Proxies, Owe') = Total(Proxies, Owe) - Owe[p] + Owe'[p]
    BY <1>1, <1>2, <1>3, ProxiesFinite, TotalChange
  <1>5. Total(Proxies, Owe) >= Owe[p]
    BY <1>1, ProxiesFinite, TotalTwo
  <1>6. Owe[p] = Owed(p) /\ Owe'[p] = Owed(p)' /\ Owed(p) \in Nat /\ Owed(p)' \in Nat
    BY <1>1, <1>2
  <1> QED BY <1>4, <1>5, <1>6, DebtNext DEF Debt

\* The first stays when no proxy owes another number.
LEMMA DebtSame ==
    ASSUME LocalInv, \A q \in Proxies : Owed(q)' = Owed(q)
    PROVE  Debt \in Nat /\ Debt' = Debt
  <1>1. Owe \in [Proxies -> Nat]
    BY OweType
  <1>2. Owe' = Owe
    BY DEF Owe
  <1>3. Debt \in Nat
    BY <1>1, ProxiesFinite, PairsFinite, FS_CardinalityType DEF Debt, Total
  <1> QED BY <1>2, <1>3, DebtNext DEF Debt

\* ... and what one message brings, or none.
LEMMA WayType ==
    ASSUME OwnerTypes
    PROVE  Way \in [Calls -> Nat] /\ \A c \in Calls : Way[c] = OnItsWay(c)
  <1>1. \A c \in Calls : OnItsWay(c) \in Nat
    BY CallType DEF OnItsWay
  <1> QED BY <1>1 DEF Way

\* What the calls bring as a function, in the next state.
LEMMA WayTypeNext ==
    ASSUME OwnerTypes'
    PROVE  Way' \in [Calls -> Nat] /\ \A c \in Calls : Way'[c] = OnItsWay(c)'
  <1>1. \A c \in Calls : call'[c].refs \in Nat
    BY DEF OwnerTypes, Messages
  <1>2. \A c \in Calls : OnItsWay(c)' \in Nat
    BY <1>1 DEF OnItsWay
  <1> QED BY <1>2 DEF Way

\* There are finitely many calls.
LEMMA CallsFinite == IsFiniteSet(Calls)
  BY BoundAssumption

\* What is on its way changes by one call ...
LEMMA SentChange ==
    ASSUME OwnerTypes, OwnerTypes', NEW c \in Calls, \A d \in Calls : d # c => call'[d] = call[d]
    PROVE  /\ Sent \in Nat /\ OnItsWay(c) \in Nat /\ OnItsWay(c)' \in Nat
           /\ Sent' = Sent - OnItsWay(c) + OnItsWay(c)' /\ Sent >= OnItsWay(c)
  <1>1. Way \in [Calls -> Nat] /\ \A d \in Calls : Way[d] = OnItsWay(d)
    BY WayType
  <1>2. Way' \in [Calls -> Nat] /\ \A d \in Calls : Way'[d] = OnItsWay(d)'
    BY WayTypeNext
  <1>3. \A d \in Calls : d # c => Way'[d] = Way[d]
    BY <1>1, <1>2 DEF OnItsWay
  <1>4. /\ Total(Calls, Way) \in Nat
        /\ Total(Calls, Way') = Total(Calls, Way) - Way[c] + Way'[c]
    BY <1>1, <1>2, <1>3, CallsFinite, TotalChange
  <1>5. Total(Calls, Way) >= Way[c]
    BY <1>1, CallsFinite, TotalTwo
  <1>6. Way[c] = OnItsWay(c) /\ Way'[c] = OnItsWay(c)' /\ OnItsWay(c) \in Nat /\ OnItsWay(c)' \in Nat
    BY <1>1, <1>2
  <1> QED BY <1>4, <1>5, <1>6, SentNext DEF Sent

\* ... or by none.
LEMMA SentSame ==
    ASSUME OwnerTypes, \A c \in Calls : OnItsWay(c)' = OnItsWay(c)
    PROVE  Sent \in Nat /\ Sent' = Sent
  <1>1. Way \in [Calls -> Nat]
    BY WayType
  <1>2. Way' = Way
    BY DEF Way
  <1>3. Sent \in Nat
    BY <1>1, CallsFinite, PairsFinite, FS_CardinalityType DEF Sent, Total
  <1> QED BY <1>2, <1>3, SentNext DEF Sent

\* A proxy nobody tells the owner of, and one that is told of.
LEMMA NotTold ==
    ASSUME NEW p \in Proxies, Live(p) \/ Absent(p) \/ Finished(p)
    PROVE  ~ Told(p)
  BY DEF Told, Live, Absent, Finished

\* Threads that come and go otherwise tell nobody.
LEMMA ToldSame ==
    ASSUME NEW u \in Users, OnlyUser(u), NEW p \in Proxies,
           user[u].at \in {"telling", "shutting"} /\ user[u].p = p
             <=> user'[u].at \in {"telling", "shutting"} /\ user'[u].p = p
    PROVE  Told(p)' <=> Told(p)
  <1>1. Told(p)' <=> \E v \in Users : user'[v].at \in {"telling", "shutting"} /\ user'[v].p = p
    BY DEF Told
  <1>2. ASSUME NEW v \in Users
        PROVE  user'[v].at \in {"telling", "shutting"} /\ user'[v].p = p
                 <=> user[v].at \in {"telling", "shutting"} /\ user[v].p = p
    BY DEF OnlyUser
  <1> QED BY <1>1, <1>2 DEF Told

\* What a proxy owes depends on its channel, mode and number, and on whether
\* it is told.
LEMMA OwedSame ==
    ASSUME NEW p \in Proxies, proxy'[p].channel = proxy[p].channel, proxy'[p].mode = proxy[p].mode,
           proxy'[p].remote = proxy[p].remote, Told(p)' <=> Told(p)
    PROVE  Owed(p)' = Owed(p)
  BY DEF Owed, One

-----------------------------------------------------------------------------
(* The modes of the proxies of an object that is offered.                   *)

\* If no window has been hit after a step, none was before it.
LEMMA SoundBefore ==
    ASSUME [Next]_vars, Sound'
    PROVE  Sound /\ slips' = {} /\ slips = {} /\ setup' = setup
  BY SlipsGrow DEF Sound

\* ModeInv is kept when no mode changes but by the end of a proxy.
LEMMA ModeKept ==
    ASSUME ModeInv, Sound, setup' = setup, inbound'.p = inbound.p,
           \A p \in Proxies : SameMode(p) \/ (proxy'[p] = NoProxy /\ inbound.p # p)
    PROVE  ModeInv'
  <1> SUFFICES ASSUME setup.role = "sink", NEW p \in Proxies
               PROVE  /\ proxy'[p].count > 0 => proxy'[p].remote = 1
                      /\ proxy'[p].mode \in {{}, {"addref"}, {"release"}}
                      /\ proxy'[p].mode # {} <=> inbound'.p = p
    BY DEF ModeInv
  <1>1. /\ proxy[p].count > 0 => proxy[p].remote = 1
        /\ proxy[p].mode \in {{}, {"addref"}, {"release"}}
        /\ proxy[p].mode # {} <=> inbound.p = p
    BY DEF ModeInv
  <1> QED BY <1>1 DEF SameMode, NoProxy

\* A step that leaves the proxies alone.
LEMMA ModeSame ==
    ASSUME ModeInv, Sound, setup' = setup, inbound'.p = inbound.p, proxy' = proxy
    PROVE  ModeInv'
  BY ModeKept DEF SameMode

\* The end of the channel does not change which proxy is inside a call.
LEMMA ClosingKeepsProxy ==
    ASSUME LocalInv, (link = "open" /\ Closing) \/ UNCHANGED <<link, call, inbound>>
    PROVE  inbound'.p = inbound.p
  BY DEF Closing, LocalInv, PlaceInv, NoInbound

\* The steps of threads keep ModeInv ...
LEMMA ModeUser ==
    ASSUME LocalInv, SinkInv, ModeInv, Sound, slips = {}, setup' = setup, NEW u \in Users, UserNext(u)
    PROVE  ModeInv'
  <1> SUFFICES ASSUME setup.role = "sink"
               PROVE  ModeInv'
    BY DEF ModeInv
  <1>1. inbound'.p = inbound.p
    <2>1. CASE Shutdown(u)
      BY <2>1, ShutIs, ClosingKeepsProxy DEF Shutdown
    <2>2. CASE ~ Shutdown(u)
      BY <2>2 DEF UserNext, Ask, Return, Obtain, AskFails, Copy, TakeKept,
         Drop, SendRelease, Released, ReleaseFails, TimedOut, Leave
    <2> QED BY <2>1, <2>2
  <1>2. ~ Obtain(u)
    BY DEF SinkInv, Obtain
  <1>3. ASSUME NEW p \in Proxies, Leave(u), user[u].p = p
        PROVE  inbound.p # p
    <2>1. user[u].at = "leaving" /\ p # None
      BY <1>3, ProxyNumbers DEF Leave
    <2>2. Ending(p, u)
      BY <1>3, <2>1, EndingProxy
    <2> QED BY <2>2 DEF Ending, Apart
  <1>4. \A p \in Proxies : SameMode(p) \/ (proxy'[p] = NoProxy /\ inbound.p # p)
    BY <1>2, <1>3, UserModes
  <1> QED BY <1>1, <1>4, ModeKept

\* ... making the proxy of a parameter ...
LEMMA ModeUnmarshal ==
    ASSUME LocalInv, ModeInv, Sound, setup' = setup, Unmarshal
    PROVE  ModeInv'
  <1> SUFFICES ASSUME setup.role = "sink"
               PROVE  \A p \in Proxies :
                        /\ proxy'[p].count > 0 => proxy'[p].remote = 1
                        /\ proxy'[p].mode \in {{}, {"addref"}, {"release"}}
                        /\ proxy'[p].mode # {} <=> inbound'.p = p
    BY DEF ModeInv
  <1>1. \A p \in Proxies :
            /\ proxy[p].count > 0 => proxy[p].remote = 1
            /\ proxy[p].mode \in {{}, {"addref"}, {"release"}}
            /\ proxy[p].mode # {} <=> inbound.p = p
    BY DEF ModeInv
  <1>2. PICK p : p = Chosen
    OBVIOUS
  <1>3. Possible /\ Instance(p, {"release"}) /\ inbound.at = "begun"
    BY <1>2 DEF Unmarshal
  <1>4. /\ p \in Proxies /\ OnlyProxy(p)
        /\ \/ /\ Absent(p) /\ proxy'[p].count = 2 /\ proxy'[p].remote = 1
              /\ proxy'[p].mode = {"addref"}
           \/ /\ Live(p) /\ proxy'[p].remote = proxy[p].remote
              /\ proxy'[p].mode = proxy[p].mode \cup {"release"}
    <2>1. {"release"} \in {{}, {"release"}} /\ {"release"} # {}
      OBVIOUS
    <2>2. /\ p \in Proxies /\ OnlyProxy(p)
          /\ \/ /\ Absent(p) /\ proxy'[p].count = 2 /\ proxy'[p].remote = 1
                /\ proxy'[p].mode = {"addref"}
             \/ /\ Live(p) /\ proxy'[p].remote = proxy[p].remote + 0
                /\ proxy'[p].mode = proxy[p].mode \cup {"release"}
      BY <1>2, <1>3, <2>1, InstanceStep
    <2>3. proxy[p].remote \in Nat
      BY <2>2, ProxyType DEF LocalInv
    <2> QED BY <2>2, <2>3
  <1>5. inbound.p = None /\ \A q \in Proxies : q # None
    BY <1>3, ProxyNumbers DEF LocalInv, PlaceInv
  <1>6. inbound'.p = p
    BY <1>2 DEF Unmarshal, LocalInv, LocalTypes, Offers
  <1>7. Live(p) => proxy[p].count > 0
    BY <1>4, Referred DEF Live
  <1>8. ASSUME NEW q \in Proxies, q # p
        PROVE  /\ proxy'[q].count > 0 => proxy'[q].remote = 1
               /\ proxy'[q].mode \in {{}, {"addref"}, {"release"}}
               /\ proxy'[q].mode # {} <=> inbound'.p = q
    BY <1>1, <1>4, <1>5, <1>6, <1>8 DEF OnlyProxy
  <1>9. /\ proxy'[p].remote = 1 /\ proxy'[p].mode \in {{"addref"}, {"release"}}
    BY <1>1, <1>4, <1>5, <1>7
  <1> QED BY <1>6, <1>8, <1>9

\* ... Complete ...
LEMMA ModeComplete ==
    ASSUME LocalInv, ModeInv, Sound, setup' = setup, CompleteMode
    PROVE  ModeInv'
  <1> SUFFICES ASSUME setup.role = "sink"
               PROVE  \A p \in Proxies :
                        /\ proxy'[p].count > 0 => proxy'[p].remote = 1
                        /\ proxy'[p].mode \in {{}, {"addref"}, {"release"}}
                        /\ proxy'[p].mode # {} <=> inbound'.p = p
    BY DEF ModeInv
  <1>1. \A p \in Proxies :
            /\ proxy[p].count > 0 => proxy[p].remote = 1
            /\ proxy[p].mode \in {{}, {"addref"}, {"release"}}
            /\ proxy[p].mode # {} <=> inbound.p = p
    BY DEF ModeInv
  <1>2. inbound.p # None
    BY DEF CompleteMode, LocalInv, PlaceInv
  <1>3. PICK p \in Proxies : p = inbound.p
    BY <1>2 DEF LocalInv, LocalTypes, Offers
  <1>4. /\ inbound'.p = None /\ OnlyProxy(p)
        /\ inbound.gone => proxy'[p] = NoProxy
        /\ ~ inbound.gone => /\ proxy'[p].mode = Completed(proxy[p].mode)
                             /\ proxy'[p].count = proxy[p].count /\ proxy'[p].remote = proxy[p].remote
    BY <1>3, CompleteModeIs
  <1>5. \A q \in Proxies : q # None
    BY ProxyNumbers
  <1>6. /\ proxy'[p].count > 0 => proxy'[p].remote = 1
        /\ proxy'[p].mode = {}
    <2>1. CASE inbound.gone
      BY <1>4, <2>1 DEF NoProxy
    <2>2. CASE ~ inbound.gone
      <3>1. proxy[p].mode \in {{"addref"}, {"release"}}
        BY <1>1, <1>3
      <3> QED BY <1>1, <1>4, <2>2, <3>1 DEF Completed
    <2> QED BY <2>1, <2>2
  <1>7. ASSUME NEW q \in Proxies, q # p
        PROVE  /\ proxy'[q].count > 0 => proxy'[q].remote = 1
               /\ proxy'[q].mode \in {{}, {"addref"}, {"release"}}
               /\ proxy'[q].mode # {} <=> inbound'.p = q
    BY <1>1, <1>3, <1>4, <1>5, <1>7 DEF OnlyProxy
  <1> QED BY <1>4, <1>5, <1>6, <1>7

\* ... all else of an offer ...
LEMMA ModeOffer ==
    ASSUME LocalInv, ModeInv, Sound, setup' = setup, InboundNext
    PROVE  ModeInv'
  <1>1. CASE Offer \/ OfferTimedOut \/ OfferFails \/ BeginOffer \/ Accept \/ Unheard
    <2>1. proxy' = proxy
      BY <1>1 DEF Offer, OfferTimedOut, OfferFails, BeginOffer, Accept, Unheard
    <2>2. inbound'.p = inbound.p
      <3>1. CASE Offer \/ OfferTimedOut \/ OfferFails \/ Accept \/ Unheard
        BY <3>1 DEF Offer, OfferTimedOut, OfferFails, Accept, Unheard, NoInbound, LocalInv, PlaceInv
      <3>2. CASE BeginOffer
        BY <3>2, OfferType DEF BeginOffer, LocalInv, Offers
      <3> QED BY <1>1, <3>1, <3>2
    <2> QED BY <2>1, <2>2, ModeSame
  <1>2. CASE OfferShutdown
    <2>1. proxy' = proxy /\ ((link = "open" /\ Closing) \/ UNCHANGED <<link, call, inbound>>)
      BY <1>2, ShutIs DEF OfferShutdown
    <2> QED BY <2>1, ClosingKeepsProxy, ModeSame
  <1>3. CASE Keep \/ LetGo
    <2>1. inbound.at = "inside" /\ inbound' = inbound
      BY <1>3 DEF Keep, LetGo
    <2>2. PICK p \in Proxies : p = inbound.p
      BY <2>1 DEF LocalInv, PlaceInv, LocalTypes, Offers
    <2>3. proxy[p].count \in Nat /\ proxy[p].count >= 2
      BY <2>1, <2>2, ReferredBy DEF Inside
    <2>4. PICK n : n = IF Keep THEN proxy[p].count + 1 ELSE proxy[p].count - 1
      OBVIOUS
    <2>7. n \in Nat /\ n > 0 /\ proxy' = [proxy EXCEPT ![p].count = n]
      BY <1>3, <2>2, <2>3, <2>4 DEF Keep, LetGo
    <2>5. /\ OnlyProxy(p) /\ proxy'[p].count = n
          /\ proxy'[p].mode = proxy[p].mode /\ proxy'[p].remote = proxy[p].remote
      BY <2>7, CountTo DEF LocalInv
    <2>6. \A q \in Proxies : SameMode(q)
      BY <2>3, <2>7, <2>5 DEF SameMode, OnlyProxy
    <2> QED BY <2>1, <2>6, ModeKept
  <1>4. CASE CompleteRelease
    <2>1. inbound.at = "inside"
      BY <1>4 DEF CompleteRelease
    <2>2. PICK p \in Proxies : p = inbound.p
      BY <2>1 DEF LocalInv, PlaceInv, LocalTypes, Offers
    <2>3. PICK last \in BOOLEAN : last <=> proxy[p].count = 2
      OBVIOUS
    <2>4. /\ inbound'.p = p /\ OnlyProxy(p) /\ proxy'[p].count = proxy[p].count - 1
          /\ proxy[p].count >= 2
          /\ proxy'[p].mode = proxy[p].mode /\ proxy'[p].remote = proxy[p].remote
      BY <1>4, <2>2, <2>3, CompleteReleaseIs
    <2>5. proxy[p].count \in Nat
      BY ProxyType DEF LocalInv
    <2>6. \A q \in Proxies : SameMode(q)
      BY <2>4, <2>5 DEF SameMode, OnlyProxy
    <2> QED BY <2>2, <2>4, <2>6, ModeKept
  <1> QED BY <1>1, <1>2, <1>3, <1>4, ModeUnmarshal, ModeComplete DEF InboundNext

\* ... the report of a dangling proxy ...
LEMMA ModeDangling ==
    ASSUME LocalInv, ModeInv, Sound, setup' = setup, NEW p \in Proxies, Dangling(p), slips' = {}
    PROVE  ModeInv'
  <1>1. /\ Live(p) /\ inbound' = inbound /\ OnlyProxy(p) /\ proxy[p].count >= 2
        /\ IF Refs(p)' = 0
           THEN proxy'[p] = NoProxy /\ slips' = slips \cup Gap(p) /\ ~ Inside(p)
           ELSE /\ proxy'[p].count = 1 + Refs(p)' /\ proxy'[p].mode = proxy[p].mode
                /\ proxy'[p].remote = proxy[p].remote
    BY DanglingIs
  <1>2. Refs(p)' \in Nat /\ proxy[p].count \in Nat
    BY DanglingIs, ProxyType DEF LocalInv
  <1>3. ASSUME Refs(p)' = 0
        PROVE  inbound.p # p
    <2>1. Gap(p) = {} /\ ~ Inside(p) /\ ~ Finishing(p)
      BY <1>1, <1>3 DEF Live
    <2>2. p # None /\ (inbound.p = p => inbound.at \in {"inside", "gap"})
      BY ProxyNumbers DEF LocalInv, PlaceInv
    <2> QED BY <2>1, <2>2 DEF Gap, Inside, Finishing
  <1>4. SameMode(p) \/ (proxy'[p] = NoProxy /\ inbound.p # p)
    BY <1>1, <1>2, <1>3 DEF SameMode
  <1>5. \A q \in Proxies : SameMode(q) \/ (proxy'[q] = NoProxy /\ inbound.p # q)
    BY <1>1, <1>4 DEF OnlyProxy, SameMode
  <1> QED BY <1>1, <1>5, ModeKept

\* ... and so every step.
LEMMA ModeStep ==
    ASSUME LocalInv, SinkInv, ModeInv, [Next]_vars
    PROVE  ModeInv'
  <1> SUFFICES ASSUME Sound'
               PROVE  ModeInv'
    BY DEF ModeInv
  <1>1. Sound /\ slips' = {} /\ slips = {} /\ setup' = setup
    BY SoundBefore
  <1>2. CASE UNCHANGED vars \/ (\E c \in Calls : CallNext(c)) \/ Clear \/ OwnerDrop
    <2>1. UNCHANGED <<inbound, proxy>>
      BY <1>2 DEF vars, CallNext, Receive, Begin, HandleGet, HandleRelease, Unexpected,
         Mistaken, Clear, OwnerDrop
    <2> QED BY <1>1, <2>1, ModeSame
  <1>3. CASE Close
    <2>1. proxy' = proxy /\ inbound'.p = inbound.p
      BY <1>3, ClosingKeepsProxy DEF Close
    <2> QED BY <1>1, <2>1, ModeSame
  <1>4. CASE Closed
    <2>1. CASE setup.server = "owner"
      <3>1. UNCHANGED <<inbound, proxy>>
        BY <1>4, <2>1 DEF Closed
      <3> QED BY <1>1, <3>1, ModeSame
    <2>2. CASE setup.server # "owner"
      <3>1. inbound' = inbound
        BY <1>4 DEF Closed
      <3>2. ASSUME NEW p \in Proxies
            PROVE  SameMode(p)
        <4>1. /\ proxy'[p].mode = proxy[p].mode /\ proxy'[p].remote = proxy[p].remote
              /\ ToldOf(p) => proxy'[p].count = proxy[p].count + 1 /\ Live(p)
              /\ ~ ToldOf(p) => proxy'[p] = proxy[p]
          BY <1>4, <2>2, ClosedIs
        <4>2. Live(p) => proxy[p].count >= 2
          BY Referred DEF Live
        <4>3. proxy[p].count \in Nat
          BY ProxyType DEF LocalInv
        <4> QED BY <4>1, <4>2, <4>3 DEF SameMode
      <3> QED BY <1>1, <3>1, <3>2, ModeKept
    <2> QED BY <2>1, <2>2
  <1> QED BY <1>1, <1>2, <1>3, <1>4, ModeUser, ModeOffer, ModeDangling DEF Next

-----------------------------------------------------------------------------
(* The account, in its parts.                                               *)

CountIs == count = One(own) + registered + held
Balanced ==
    registered + One(inbound.cached = "addref")
      = Debt + Sent + Cardinality(Returned) + ToTheOwner + lost
CleanedUp == link = "deleted" /\ setup.server = "owner" => registered = 0

\* The parts of Account.
LEMMA AccountParts ==
    Account <=> (Sound => CountIs /\ (link = "open" => Balanced) /\ CleanedUp)
  BY DEF Account, CountIs, Balanced, CleanedUp, Debt, Sent, Owe, Way

\* What holds whatever windows are hit.
Base == LocalInv /\ OwnerTypes /\ CallInv /\ OfferInv /\ ServiceInv /\ SinkInv

\* Every step keeps what holds whatever windows are hit ...
LEMMA BaseNext ==
    ASSUME Base, [Next]_vars
    PROVE  Base'
  BY LocalNext, OwnerTypesNext, CallInvStep, OfferInvStep, ServiceStep, SinkStep DEF Base

\* ... and it holds in the beginning.
LEMMA BaseInit ==
    ASSUME Init
    PROVE  Base
  <1>1. LocalInv
    BY LocalInit
  <1>2. OwnerTypes
    BY NoCallType, BoundAssumption DEF Init, OwnerTypes, Messages
  <1>3. CallInv
    BY NoCallIs DEF Init, CallInv, OneCaller, NoCall
  <1>4. OfferInv
    BY DEF Init, OfferInv
  <1>5. ServiceInv /\ SinkInv
    BY DEF Init, ServiceInv, SinkInv, NoProxy, NoCall, Idle
  <1> QED BY <1>1, <1>2, <1>3, <1>4, <1>5 DEF Base

\* Less subtracts what is there.
LEMMA LessIs ==
    ASSUME NEW n \in Nat, NEW m \in Nat, m <= n
    PROVE  Less(n, m) = n - m
  BY DEF Less

\* The threads with a returned reference can be counted.
LEMMA ReturnedNat == Cardinality(Returned) \in Nat
  <1>1. Returned \in SUBSET Users
    BY DEF Returned
  <1> QED BY <1>1, UserAssumption, FS_Subset, FS_CardinalityType

\* The two sums are natural numbers.
LEMMA DebtNat ==
    ASSUME Base
    PROVE  Debt \in Nat /\ Sent \in Nat
  <1>1. Owe \in [Proxies -> Nat]
    BY OweType DEF Base
  <1>2. Way \in [Calls -> Nat]
    BY WayType DEF Base
  <1> QED BY <1>1, <1>2, CallsFinite, ProxiesFinite, PairsFinite, FS_CardinalityType
      DEF Debt, Sent, Total

\* A reference that the response gives back is registered.
LEMMA BackRegistered ==
    ASSUME Base, Balanced, inbound.cached = "release"
    PROVE  registered >= 1
  <1>1. registered \in Nat /\ lost \in Nat
    BY DEF Base, OwnerTypes
  <1>2. ToTheOwner \in Nat /\ ToTheOwner >= 1
    BY DEF ToTheOwner, One
  <1> QED BY <1>1, <1>2, DebtNat, ReturnedNat DEF Balanced, One

\* The count of the object, and the cleaning up: the steps of calls ...
LEMMA CountsCall ==
    ASSUME Base, CountIs, CleanedUp, NEW c \in Calls, CallNext(c), slips' = {}, setup' = setup
    PROVE  CountIs' /\ CleanedUp'
  <1>0. /\ count \in Nat /\ registered \in Nat /\ held \in Nat /\ own \in BOOLEAN
        /\ call[c].refs \in Nat
    BY OwnerTypesOpen, CallType DEF Base
  <1>1. CASE Receive(c)
    <2>1. UNCHANGED <<own, registered, link>> /\ link = "open"
      BY <1>1 DEF Receive
    <2>2. (held' = held + 1 /\ count' = count + 1) \/ UNCHANGED <<held, count>>
      BY <1>1 DEF Receive
    <2> QED BY <1>0, <2>1, <2>2 DEF CountIs, CleanedUp, One
  <1>2. CASE Begin(c) \/ Unexpected(c) \/ Mistaken(c)
    <2>1. UNCHANGED <<count, own, registered, held, link>>
      BY <1>2 DEF Begin, Unexpected, Mistaken, ownerVars
    <2> QED BY <2>1 DEF CountIs, CleanedUp
  <1>3. CASE HandleGet(c)
    <2>1. /\ UNCHANGED <<own, held, link>>
          /\ \/ UNCHANGED <<count, registered>>
             \/ /\ count' = count + 1 /\ registered' = registered + 1
                /\ ~ (link = "deleted" /\ setup.server = "owner")
      BY <1>3 DEF HandleGet
    <2> QED BY <1>0, <2>1 DEF CountIs, CleanedUp, One
  <1>4. CASE HandleRelease(c)
    <2>1. /\ UNCHANGED <<own, held, link>> /\ ~ (registered < call[c].refs)
          /\ registered' = Less(registered, call[c].refs) /\ count' = Less(count, call[c].refs)
      BY <1>4 DEF HandleRelease
    <2>2. call[c].refs <= registered /\ call[c].refs <= count
      BY <1>0, <2>1 DEF CountIs, One
    <2>3. Less(registered, call[c].refs) = registered - call[c].refs
      BY <1>0, <2>2, LessIs
    <2>4. Less(count, call[c].refs) = count - call[c].refs
      BY <1>0, <2>2, LessIs
    <2>5. link = "deleted" /\ setup.server = "owner" => registered' = 0
      BY <1>0, <2>2, <2>1, <2>3 DEF CleanedUp
    <2>6. CountIs'
      BY <1>0, <2>1, <2>2, <2>3, <2>4 DEF CountIs, One
    <2> QED BY <2>1, <2>5, <2>6 DEF CleanedUp
  <1> QED BY <1>1, <1>2, <1>3, <1>4 DEF CallNext

\* ... those of the owner and the end of the channel ...
LEMMA CountsRest ==
    ASSUME Base, CountIs, CleanedUp, link = "open" => Balanced, slips' = {}, setup' = setup,
           Clear \/ OwnerDrop \/ Accept \/ Closed
    PROVE  CountIs' /\ CleanedUp'
  <1>0. /\ count \in Nat /\ registered \in Nat /\ held \in Nat /\ own \in BOOLEAN /\ 1 \in Nat
    BY OwnerTypesOpen DEF Base
  <1>1. CASE Clear
    <2>1. /\ held > Cardinality(AtWork) /\ held' = held - 1 /\ count' = Less(count, 1)
          /\ UNCHANGED <<own, registered, link>>
      BY <1>1 DEF Clear
    <2>2. held >= 1
      BY <1>0, <2>1, AtWorkFinite
    <2>3. 1 <= count
      BY <1>0, <2>2 DEF CountIs, One
    <2>4. Less(count, 1) = count - 1
      BY <1>0, <2>3, LessIs
    <2> QED BY <1>0, <2>1, <2>4 DEF CountIs, CleanedUp, One
  <1>2. CASE OwnerDrop
    <2>1. /\ own /\ own' = FALSE /\ count' = Less(count, 1) /\ UNCHANGED <<held, registered, link>>
      BY <1>2 DEF OwnerDrop
    <2>2. 1 <= count
      BY <1>0, <2>1 DEF CountIs, One
    <2>3. Less(count, 1) = count - 1
      BY <1>0, <2>2, LessIs
    <2> QED BY <1>0, <2>1, <2>3 DEF CountIs, CleanedUp, One
  <1>3. CASE Accept
    <2>1. link = "open" /\ UNCHANGED <<own, held, link>>
      BY <1>3 DEF Accept, Base, LocalInv, PlaceInv
    <2>2. CASE inbound.cached = "release"
      <3>1. registered >= 1
        BY <2>1, <2>2, BackRegistered
      <3>2. 1 <= registered /\ 1 <= count
        BY <1>0, <3>1 DEF CountIs, One
      <3>3. Less(count, 1) = count - 1
        BY <1>0, <3>2, LessIs
      <3>4. Less(registered, 1) = registered - 1
        BY <1>0, <3>2, LessIs
      <3>5. count' = Less(count, 1) /\ registered' = Less(registered, 1)
        BY <1>3, <2>2 DEF Accept
      <3> QED BY <1>0, <2>1, <3>3, <3>4, <3>5 DEF CountIs, CleanedUp, One
    <2>3. CASE inbound.cached # "release"
      <3>1. \/ count' = count + 1 /\ registered' = registered + 1
            \/ UNCHANGED <<count, registered>>
        BY <1>3, <2>3 DEF Accept
      <3> QED BY <1>0, <2>1, <3>1 DEF CountIs, CleanedUp, One
    <2> QED BY <2>2, <2>3
  <1>4. CASE Closed
    <2>1. UNCHANGED <<own, held>>
      BY <1>4 DEF Closed
    <2>2. CASE setup.server = "owner"
      <3>1. count' = Less(count, registered) /\ registered' = 0
        BY <1>4, <2>2 DEF Closed
      <3>2. registered <= count
        BY <1>0 DEF CountIs, One
      <3>3. Less(count, registered) = count - registered
        BY <1>0, <3>2, LessIs
      <3> QED BY <1>0, <2>1, <3>1, <3>3 DEF CountIs, CleanedUp, One
    <2>3. CASE setup.server # "owner"
      <3>1. UNCHANGED <<count, registered>>
        BY <1>4, <2>3 DEF Closed
      <3> QED BY <2>1, <2>3, <3>1 DEF CountIs, CleanedUp
    <2> QED BY <2>2, <2>3
  <1> QED BY <1>1, <1>2, <1>3, <1>4

\* ... and every step.
LEMMA CountsStep ==
    ASSUME Base, CountIs, CleanedUp, link = "open" => Balanced, slips' = {}, setup' = setup,
           [Next]_vars
    PROVE  CountIs' /\ CleanedUp'
  <1>1. CASE UNCHANGED <<count, own, registered, held>> /\ link' # "deleted"
    BY <1>1 DEF CountIs, CleanedUp
  <1>2. CASE UNCHANGED <<count, own, registered, held, link>>
    BY <1>2 DEF CountIs, CleanedUp
  <1>3. ASSUME NEW u \in Users, UserNext(u)
        PROVE  UNCHANGED <<count, own, registered, held>> /\ (link' # "deleted" \/ link' = link)
    <2>1. CASE Shutdown(u)
      BY <2>1, ShutIs DEF Shutdown, Closing, ownerVars
    <2>2. CASE ~ Shutdown(u)
      BY <1>3, <2>2 DEF UserNext, Ask, Return, Obtain, AskFails, Copy, TakeKept,
         Drop, SendRelease, Released, ReleaseFails, TimedOut, Leave, ownerVars
    <2> QED BY <2>1, <2>2
  <1>4. CASE UNCHANGED vars \/ Close \/ Offer \/ OfferTimedOut \/ OfferFails
             \/ BeginOffer \/ Unmarshal \/ Keep \/ LetGo \/ CompleteRelease \/ CompleteMode
             \/ Unheard \/ \E p \in Proxies : Dangling(p)
    <2>1. UNCHANGED <<count, own, registered, held>> /\ (link' # "deleted" \/ link' = link)
      BY <1>4 DEF vars, Close, Closing, Offer, OfferTimedOut, OfferFails, BeginOffer, Unmarshal,
         Keep, LetGo, CompleteRelease, CompleteMode, Unheard, Dangling, ownerVars
    <2> QED BY <1>1, <1>2, <2>1
  <1>5. CASE OfferShutdown
    BY <1>1, <1>2, <1>5, ShutIs DEF OfferShutdown, Closing, ownerVars
  <1> QED BY <1>1, <1>2, <1>3, <1>4, <1>5, CountsCall, CountsRest DEF Next, InboundNext

-----------------------------------------------------------------------------
(* The open channel: a step of a thread.                                    *)

Telling(t, p) == t.at \in {"telling", "shutting"} /\ t.p = p

\* A step of a thread that tells the owner nothing leaves the debt alone.
LEMMA DebtByThread ==
    ASSUME LocalInv, NEW u \in Users, OnlyUser(u),
           \A p \in Proxies : /\ proxy'[p].channel = proxy[p].channel
                              /\ proxy'[p].mode = proxy[p].mode /\ proxy'[p].remote = proxy[p].remote
                              /\ Telling(user[u], p) <=> Telling(user'[u], p)
    PROVE  Debt \in Nat /\ Debt' = Debt
  <1>1. ASSUME NEW p \in Proxies
        PROVE  Owed(p)' = Owed(p)
    <2>1. Told(p)' <=> Told(p)
      BY ToldSame DEF Telling
    <2> QED BY <2>1, OwedSame
  <1> QED BY <1>1, DebtSame

\* What a response tells the owner to release depends on the offer and the
\* mode.
LEMMA ToTheOwnerSame ==
    ASSUME inbound' = inbound,
           inbound.at = "gap" => proxy'[inbound.p].mode = proxy[inbound.p].mode
    PROVE  ToTheOwner' = ToTheOwner
  BY DEF ToTheOwner, One

\* A free slot brings nothing.
LEMMA NoCallWay ==
    ASSUME NEW c \in Calls
    PROVE  /\ call[c] = NoCall => OnItsWay(c) = 0
           /\ call'[c] = NoCall => OnItsWay(c)' = 0
  BY DEF OnItsWay, NoCall

\* The object is either returned or offered.
LEMMA RoleIs ==
    ASSUME LocalInv, Sound
    PROVE  setup.role \in {"service", "sink"}
  <1>1. setup.role \in Roles
    BY DEF LocalInv, LocalTypes
  <1> QED BY <1>1, RoleAssumption DEF Sound

\* Those who neither tell nor are answered move nothing.
LEMMA BalanceKept ==
    ASSUME Base, Base', Balanced, registered' = registered, lost' = lost,
           (inbound.cached = "addref") <=> (inbound'.cached = "addref"),
           Debt' + Sent' + Cardinality(Returned)' + ToTheOwner'
             = Debt + Sent + Cardinality(Returned) + ToTheOwner
    PROVE  Balanced'
  <1>1. /\ Debt \in Nat /\ Sent \in Nat /\ Cardinality(Returned) \in Nat
        /\ lost \in Nat /\ registered \in Nat
    BY DebtNat, ReturnedNat, OwnerTypesOpen DEF Base
  <1>2. ToTheOwner \in Nat
    BY DEF ToTheOwner, One
  <1>3. PICK n : n = Debt' + Sent' + Cardinality(Returned)' + ToTheOwner'
    OBVIOUS
  <1>4. PICK d : d = One(inbound.cached = "addref")
    OBVIOUS
  <1>5. One(inbound.cached = "addref")' = d
    BY <1>4 DEF One
  <1>6. registered + d = n + lost
    <2>1. registered + d = Debt + Sent + Cardinality(Returned) + ToTheOwner + lost
      BY <1>4 DEF Balanced
    <2> QED BY <1>1, <1>2, <1>3, <2>1
  <1> QED BY <1>3, <1>5, <1>6 DEF Balanced

\* Who asks, who has been answered.
LEMMA BalanceAsk ==
    ASSUME Base, Base', NEW u \in Users, Ask(u) \/ Return(u), link = "open"
    PROVE  Debt' + Sent' + Cardinality(Returned)' = Debt + Sent + Cardinality(Returned)
  <1> USE DEF Base
  <1>1. /\ user[u].p = None /\ proxy' = proxy /\ OnlyUser(u) /\ user'[u].p = None
        /\ user[u].at \in {"idle", "asking"}
    BY UserAt DEF Ask, Return, LocalInv, PlaceInv
  <1>2. Debt \in Nat /\ Debt' = Debt
    <2>1. \A p \in Proxies : ~ Telling(user[u], p) /\ ~ Telling(user'[u], p)
      BY <1>1, ProxyNumbers DEF Telling
    <2> QED BY <1>1, <2>1, DebtByThread
  <1>3. /\ Cardinality(Returned) \in Nat
        /\ Cardinality(Returned') = Cardinality(Returned)
              - One(user[u].at = "returned") + One(user'[u].at = "returned")
    BY <1>1, ReturnedChange
  <1>4. Cardinality(Returned)' = Cardinality(Returned')
    OBVIOUS
  <1>5. CASE Ask(u)
    <2>1. PICK c \in Calls :
            /\ call[c] = NoCall
            /\ call' = [call EXCEPT ![c] = [kind |-> "get", by |-> u, refs |-> 0, stage |-> "sent"]]
      BY <1>5 DEF Ask
    <2>2. [kind |-> "get", by |-> u, refs |-> 0, stage |-> "sent"] \in Messages
      BY DEF Messages
    <2>3. OnlyCall(c) /\ call'[c] = [kind |-> "get", by |-> u, refs |-> 0, stage |-> "sent"]
      BY <2>1, <2>2, CallBecomes
    <2>4. OnItsWay(c) = 0 /\ OnItsWay(c)' = 0
      BY <2>1, <2>3, NoCallWay DEF OnItsWay
    <2>5. Sent \in Nat /\ Sent' = Sent - OnItsWay(c) + OnItsWay(c)'
      BY <2>3, SentChange DEF OnlyCall
    <2>6. user[u].at # "returned" /\ user'[u].at # "returned"
      BY <1>5, UserAt DEF Ask, LocalInv
    <2> QED BY <1>2, <1>3, <1>4, <2>4, <2>5, <2>6 DEF One
  <1>6. CASE Return(u)
    <2>1. PICK c \in Calls :
            /\ user[u].at = "asking" /\ call[c].by = u /\ call[c].stage = "answered"
            /\ user' = [user EXCEPT ![u].at = IF call[c].refs = 1 THEN "returned" ELSE "idle"]
            /\ call' = [call EXCEPT ![c] = NoCall]
      BY <1>6 DEF Return
    <2>2. OnlyCall(c) /\ call'[c] = NoCall
      BY <2>1, NoCallType, CallBecomes
    <2>3. MessageIs(call[c], link, user)
      BY CallInvOpen
    <2>4. call[c].kind = "get" /\ call[c].refs \in {0, 1}
      BY <2>1, <2>3, CallerIs DEF MessageIs
    <2>5. OnItsWay(c) = call[c].refs /\ OnItsWay(c)' = 0
      BY <2>1, <2>2, <2>4, NoCallWay DEF OnItsWay
    <2>6. Sent \in Nat /\ Sent' = Sent - OnItsWay(c) + OnItsWay(c)'
      BY <2>2, SentChange DEF OnlyCall
    <2>7. user[u].at # "returned" /\ user'[u].at = IF call[c].refs = 1 THEN "returned" ELSE "idle"
      BY <2>1, UserAt DEF LocalInv
    <2> QED BY <1>2, <1>3, <1>4, <2>4, <2>5, <2>6, <2>7 DEF One
  <1> QED BY <1>5, <1>6

\* ... who makes a proxy of it.
LEMMA BalanceObtain ==
    ASSUME Base, Base', Sound, NEW u \in Users, Obtain(u), link = "open"
    PROVE  Debt' + Sent' + Cardinality(Returned)' = Debt + Sent + Cardinality(Returned)
  <1> USE DEF Base
  <1>1. PICK p : p = Chosen
    OBVIOUS
  <1>2. /\ user[u].at = "returned" /\ Possible /\ Instance(p, {}) /\ call' = call
        /\ user' = [user EXCEPT ![u] = [at |-> "holds", p |-> p]]
    BY <1>1 DEF Obtain
  <1>3. setup.role = "service"
    BY <1>2, RoleIs DEF SinkInv
  <1>4. \A q \in Proxies : proxy[q].mode = {}
    BY <1>3 DEF ServiceInv
  <1>5. /\ p \in Proxies /\ OnlyProxy(p)
        /\ \/ /\ Absent(p) /\ proxy'[p].channel /\ proxy'[p].remote = 1
              /\ proxy'[p].mode = IF {} = {} THEN {} ELSE {"addref"}
           \/ /\ Live(p) /\ proxy'[p].channel = proxy[p].channel
              /\ proxy'[p].remote = proxy[p].remote + (IF {} = {} THEN 1 ELSE 0)
              /\ proxy'[p].mode = proxy[p].mode \cup {}
    <2>1. {} \in {{}, {"release"}}
      OBVIOUS
    <2> QED BY <1>1, <1>2, <2>1, InstanceStep
  <1>6. /\ user' \in [Users -> Threads] /\ OnlyUser(u)
        /\ user'[u].at = "holds" /\ user'[u].p = p
    BY <1>2, <1>5, HoldsOne DEF LocalInv
  <1>7. \A q \in Proxies : Told(q)' <=> Told(q)
    BY <1>2, <1>6, ToldSame
  <1>8. \A q \in Proxies : q # p => Owed(q)' = Owed(q)
    BY <1>5, <1>7, OwedSame DEF OnlyProxy
  <1>9. Owed(p)' = Owed(p) + 1
    <2>1. ~ Told(p) /\ ~ Told(p)'
      BY <1>5, <1>7, NotTold
    <2>2. CASE Absent(p) /\ proxy'[p].channel /\ proxy'[p].remote = 1 /\ proxy'[p].mode = {}
      <3>1. Owed(p) = 0
        BY <2>2 DEF Owed, Absent, NoProxy
      <3>2. Owed(p)' = 1
        BY <2>1, <2>2 DEF Owed, One
      <3> QED BY <3>1, <3>2
    <2>3. CASE /\ Live(p) /\ proxy'[p].channel = proxy[p].channel
               /\ proxy'[p].remote = proxy[p].remote + 1 /\ proxy'[p].mode = {}
      <3>1. proxy[p].channel
        <4>1. proxy[p].count >= 2
          BY <1>5, <2>3, Referred DEF Live
        <4> QED BY <1>5, <4>1 DEF LocalInv, ProxyInv, OnChannel
      <3>2. proxy[p].remote \in Nat /\ proxy[p].mode = {}
        BY <1>4, <1>5, ProxyType DEF LocalInv
      <3> QED BY <2>1, <2>3, <3>1, <3>2 DEF Owed, One
    <2> QED BY <1>4, <1>5, <2>2, <2>3
  <1>10. Debt \in Nat /\ Owed(p) \in Nat /\ Debt' = Debt - Owed(p) + Owed(p)'
    BY <1>5, <1>8, DebtChange
  <1>11. Sent \in Nat /\ Sent' = Sent
    BY <1>2, SentSame DEF OnItsWay
  <1>12. /\ Cardinality(Returned) \in Nat
         /\ Cardinality(Returned') = Cardinality(Returned)
              - One(user[u].at = "returned") + One(user'[u].at = "returned")
    BY <1>6, ReturnedChange
  <1>13. Cardinality(Returned)' = Cardinality(Returned')
    OBVIOUS
  <1> QED BY <1>2, <1>6, <1>9, <1>10, <1>11, <1>12, <1>13 DEF One

\* Who uses a reference, and who drops one.
LEMMA BalanceUse ==
    ASSUME Base, Base', ModeInv, Sound, slips' = {}, NEW u \in Users,
           Copy(u) \/ TakeKept(u) \/ Drop(u), link = "open"
    PROVE  Debt' + Sent' + Cardinality(Returned)' = Debt + Sent + Cardinality(Returned)
  <1> USE DEF Base
  <1>1. user[u].at \in {"idle", "holds"} /\ call' = call
    BY DEF Copy, TakeKept, Drop
  <1>2. /\ OnlyUser(u) /\ user'[u].at \in {"idle", "holds", "releasing", "leaving"}
        /\ \A p \in Proxies : /\ proxy'[p].channel = proxy[p].channel
                              /\ proxy'[p].mode = proxy[p].mode /\ proxy'[p].remote = proxy[p].remote
    <2>1. CASE Copy(u)
      <3>1. PICK p \in Proxies :
              /\ p = kept \/ \E v \in Users : user[v] = [at |-> "holds", p |-> p]
              /\ proxy' = [proxy EXCEPT ![p].count = @ + 1]
              /\ user' = [user EXCEPT ![u] = [at |-> "holds", p |-> p]]
        BY <2>1 DEF Copy
      <3>2. OnlyUser(u) /\ user'[u].at = "holds"
        BY <3>1, HoldsOne DEF LocalInv
      <3>3. PICK n \in Nat : n = proxy[p].count + 1
        BY ProxyType DEF LocalInv
      <3>4. proxy' = [proxy EXCEPT ![p].count = n]
        BY <3>1, <3>3
      <3>5. /\ OnlyProxy(p) /\ proxy'[p].mode = proxy[p].mode /\ proxy'[p].remote = proxy[p].remote
            /\ proxy'[p].channel = proxy[p].channel
        BY <3>4, CountTo DEF LocalInv
      <3> QED BY <3>2, <3>5 DEF OnlyProxy
    <2>2. CASE TakeKept(u)
      <3>1. PICK p \in Proxies : p = kept
        BY <2>2 DEF TakeKept, LocalInv, LocalTypes
      <3>2. user' = [user EXCEPT ![u] = [at |-> "holds", p |-> p]] /\ proxy' = proxy
        BY <2>2, <3>1 DEF TakeKept
      <3> QED BY <3>2, HoldsOne DEF LocalInv
    <2>3. CASE Drop(u)
      <3>1. user[u].at = "holds"
        BY <2>3 DEF Drop
      <3>2. PICK p \in Proxies : p = user[u].p
        BY <3>1 DEF LocalInv, PlaceInv, LocalTypes, Threads
      <3>3. /\ OnlyProxy(p) /\ proxy'[p].mode = proxy[p].mode /\ proxy'[p].remote = proxy[p].remote
            /\ user' \in [Users -> Threads] /\ OnlyUser(u)
            /\ \/ proxy'[p].channel = proxy[p].channel /\ user'[u] = Idle
               \/ proxy[p].channel /\ proxy'[p].channel /\ user'[u].at = "releasing"
               \/ /\ proxy[p].count = 2 /\ slips' = slips \cup Gap(p)
                  /\ ~ (proxy[p].channel /\ proxy[p].mode = {})
                  /\ ~ proxy'[p].channel /\ user'[u].at = "leaving"
        BY <2>3, <3>2, DropIs
      <3>4. ASSUME proxy[p].count = 2, slips' = slips \cup Gap(p), proxy[p].mode # {}
            PROVE  FALSE
        <4>1. setup.role = "sink" /\ inbound.p = p
          BY <3>4, RoleIs DEF ServiceInv, ModeInv
        <4>2. Live(p) /\ proxy[p].count = 1 + Refs(p) /\ Refs(p) \in Nat
          BY <3>1, <3>2, ReferredBy
        <4>3. UNCHANGED <<kept, inbound, dead>>
          BY <2>3 DEF Drop
        <4>4. Refs(p) >= One(user[u].at = "holds" /\ user[u].p = p) + One(kept = p)
                          + One(Inside(p)) + One(p \in dead)
          BY <3>3, <4>3, RefsByUser
        <4>5. ~ Inside(p) /\ ~ Finishing(p)
          BY <3>1, <3>2, <3>4, <4>2, <4>4 DEF One, Live
        <4>6. inbound.at \in {"inside", "gap"}
          BY <4>1, ProxyNumbers DEF LocalInv, PlaceInv
        <4>7. Gap(p) = {"gap"}
          BY <4>1, <4>5, <4>6 DEF Gap, Inside, Finishing
        <4> QED BY <3>4, <4>7
      <3>5. proxy[p].channel
        <4>1. proxy[p].count >= 2
          BY <3>1, <3>2, ReferredBy
        <4> QED BY <4>1 DEF LocalInv, ProxyInv, OnChannel
      <3>6. proxy'[p].channel = proxy[p].channel /\ user'[u].at \in {"idle", "releasing"}
        <4>1. proxy'[p].channel \in BOOLEAN /\ proxy[p].channel \in BOOLEAN
          BY <3>3, ProxyType DEF OnlyProxy, Counts, LocalInv
        <4>2. \/ proxy'[p].channel = proxy[p].channel /\ user'[u] = Idle
              \/ proxy[p].channel /\ proxy'[p].channel /\ user'[u].at = "releasing"
          BY <3>3, <3>4, <3>5
        <4> QED BY <4>1, <4>2 DEF Idle
      <3> QED BY <3>3, <3>6 DEF OnlyProxy
    <2> QED BY <2>1, <2>2, <2>3
  <1>3. Debt \in Nat /\ Debt' = Debt
    <2>1. \A p \in Proxies : ~ Telling(user[u], p) /\ ~ Telling(user'[u], p)
      BY <1>1, <1>2 DEF Telling
    <2> QED BY <1>2, <2>1, DebtByThread
  <1>4. Sent \in Nat /\ Sent' = Sent
    BY <1>1, SentSame DEF OnItsWay
  <1>5. /\ Cardinality(Returned) \in Nat
        /\ Cardinality(Returned') = Cardinality(Returned)
              - One(user[u].at = "returned") + One(user'[u].at = "returned")
    BY <1>2, ReturnedChange
  <1>6. Cardinality(Returned)' = Cardinality(Returned')
    OBVIOUS
  <1> QED BY <1>1, <1>2, <1>3, <1>4, <1>5, <1>6 DEF One

\* What a RELEASE takes with it is owed by the message.
LEMMA BalanceSend ==
    ASSUME Base, Base', NEW u \in Users, SendRelease(u), link = "open"
    PROVE  Debt' + Sent' + Cardinality(Returned)' = Debt + Sent + Cardinality(Returned)
  <1> USE DEF Base
  <1>1. user[u].at = "releasing" /\ user[u].p # None /\ proxy' = proxy
    BY DEF SendRelease, LocalInv, PlaceInv
  <1>2. PICK p \in Proxies : p = user[u].p /\ Ending(p, u)
    BY <1>1, EndingProxy
  <1>3. OnlyUser(u) /\ user'[u].at = "telling" /\ user'[u].p = p
    BY <1>2, UserAt DEF SendRelease, LocalInv
  <1>4. PICK c \in Calls :
            /\ call[c] = NoCall
            /\ call' = [call EXCEPT ![c] = [kind |-> "release", by |-> u,
                                            refs |-> proxy[p].remote, stage |-> "sent"]]
    BY <1>2 DEF SendRelease
  <1>5. proxy[p].remote \in Nat
    BY ProxyType DEF LocalInv
  <1>6. [kind |-> "release", by |-> u, refs |-> proxy[p].remote, stage |-> "sent"] \in Messages
    BY <1>5 DEF Messages
  <1>7. OnlyCall(c) /\ call'[c] = [kind |-> "release", by |-> u,
                                   refs |-> proxy[p].remote, stage |-> "sent"]
    BY <1>4, <1>6, CallBecomes
  <1>8. OnItsWay(c) = 0 /\ OnItsWay(c)' = proxy[p].remote
    BY <1>4, <1>7, NoCallWay DEF OnItsWay
  <1>9. Sent \in Nat /\ Sent' = Sent - OnItsWay(c) + OnItsWay(c)'
    BY <1>7, SentChange DEF OnlyCall
  <1>10. ASSUME NEW q \in Proxies, q # p
         PROVE  Owed(q)' = Owed(q)
    <2>1. Told(q)' <=> Told(q)
      BY <1>2, <1>3, <1>10, ToldSame
    <2> QED BY <1>1, <2>1, OwedSame
  <1>11. Owed(p) = proxy[p].remote /\ Owed(p)' = 0
    <2>1. ~ Told(p)
      BY <1>1, <1>2 DEF Told, Ending
    <2>2. Told(p)'
      BY <1>3 DEF Told
    <2>3. proxy[p].channel /\ proxy[p].mode = {}
      BY <1>1, <1>2 DEF Ending
    <2>4. Owed(p) = proxy[p].remote - 0
      BY <2>1, <2>3 DEF Owed, One
    <2>5. Owed(p)' = 0
      BY <2>2 DEF Owed
    <2> QED BY <1>5, <2>4, <2>5
  <1>12. Debt \in Nat /\ Debt' = Debt - Owed(p) + Owed(p)'
    BY <1>10, DebtChange
  <1>13. /\ Cardinality(Returned) \in Nat
         /\ Cardinality(Returned') = Cardinality(Returned)
              - One(user[u].at = "returned") + One(user'[u].at = "returned")
    BY <1>3, ReturnedChange
  <1>14. Cardinality(Returned)' = Cardinality(Returned')
    OBVIOUS
  <1> QED BY <1>1, <1>3, <1>5, <1>8, <1>9, <1>11, <1>12, <1>13, <1>14 DEF One

\* Who has told, or given up, and the proxy that goes then.
LEMMA PartedOwes ==
    ASSUME LocalInv, NEW u \in Users, NEW p \in Proxies, p = user[u].p,
           user[u].at \in {"telling", "shutting"}, OnlyUser(u), user'[u].p = p,
           user'[u].at = "leaving", proxy' = Parted(p)
    PROVE  \A q \in Proxies : Owed(q)' = Owed(q)
  <1>1. OnlyProxy(p) /\ ~ proxy'[p].channel
    BY ChannelAndLock DEF Parted, LocalInv
  <1>2. ASSUME NEW q \in Proxies, q # p
        PROVE  Owed(q)' = Owed(q)
    <2>1. Told(q)' <=> Told(q)
      BY <1>2, ToldSame
    <2> QED BY <1>1, <1>2, <2>1, OwedSame DEF OnlyProxy
  <1>3. Owed(p) = 0
    BY DEF Owed, Told
  <1>4. Owed(p)' = 0
    BY <1>1 DEF Owed
  <1> QED BY <1>2, <1>3, <1>4

\* The end of a RELEASE leaves what is owed alone ...
LEMMA BalanceReleased ==
    ASSUME Base, Base', NEW u \in Users, Released(u), link = "open"
    PROVE  Debt' + Sent' + Cardinality(Returned)' = Debt + Sent + Cardinality(Returned)
  <1> USE DEF Base
  <1>1. PICK c \in Calls :
            /\ user[u].at = "telling" /\ call[c].by = u /\ call[c].stage = "answered"
            /\ call' = [call EXCEPT ![c] = NoCall]
    BY DEF Released
  <1>2. user[u].p # None
    BY <1>1 DEF LocalInv, PlaceInv
  <1>3. PICK p \in Proxies : p = user[u].p
    BY <1>2 DEF LocalInv, LocalTypes, Threads
  <1>4. proxy' = Parted(p) /\ OnlyUser(u) /\ user'[u].at = "leaving" /\ user'[u].p = p
    BY <1>3, UserAt DEF Released, LocalInv
  <1>5. Debt \in Nat /\ Debt' = Debt
    BY <1>1, <1>3, <1>4, PartedOwes, DebtSame
  <1>6. OnlyCall(c) /\ call'[c] = NoCall
    BY <1>1, NoCallType, CallBecomes
  <1>7. MessageIs(call[c], link, user)
    BY CallInvOpen
  <1>8. call[c].kind = "release"
    BY <1>1, <1>7, CallerIs DEF MessageIs
  <1>9. OnItsWay(c) = 0 /\ OnItsWay(c)' = 0
    BY <1>1, <1>6, <1>8, NoCallWay DEF OnItsWay
  <1>10. Sent \in Nat /\ Sent' = Sent - OnItsWay(c) + OnItsWay(c)'
    BY <1>6, SentChange DEF OnlyCall
  <1>11. /\ Cardinality(Returned) \in Nat
         /\ Cardinality(Returned') = Cardinality(Returned)
              - One(user[u].at = "returned") + One(user'[u].at = "returned")
    BY <1>4, ReturnedChange
  <1>12. Cardinality(Returned)' = Cardinality(Returned')
    OBVIOUS
  <1> QED BY <1>1, <1>4, <1>5, <1>9, <1>10, <1>11, <1>12 DEF One

\* ... and so does giving up a call, whose message brings what it brought ...
LEMMA BalanceGivenUp ==
    ASSUME Base, Base', NEW u \in Users, TimedOut(u) \/ Shutdown(u), link = "open", link' = "open"
    PROVE  Debt' + Sent' + Cardinality(Returned)' = Debt + Sent + Cardinality(Returned)
  <1> USE DEF Base
  <1>1. ASSUME OnlyUser(u), user[u].at # "returned", user'[u].at # "returned"
        PROVE  /\ Cardinality(Returned) \in Nat
               /\ Cardinality(Returned)' = Cardinality(Returned)
    <2>1. /\ Cardinality(Returned) \in Nat
          /\ Cardinality(Returned') = Cardinality(Returned)
               - One(user[u].at = "returned") + One(user'[u].at = "returned")
      BY <1>1, ReturnedChange
    <2> QED BY <1>1, <2>1 DEF One
  <1>2. CASE TimedOut(u)
    <2>1. PICK c \in Calls :
            /\ user[u].at \in {"asking", "telling"} /\ call[c].by = u
            /\ call' = [call EXCEPT ![c].by = "nobody"]
            /\ \/ user' = [user EXCEPT ![u].at = "shutting"]
               \/ user[u].at = "asking" /\ user' = [user EXCEPT ![u] = Idle]
      BY <1>2 DEF TimedOut
    <2>2. /\ OnlyUser(u)
          /\ \/ user'[u].at = "shutting" /\ user'[u].p = user[u].p
             \/ user[u].at = "asking" /\ user'[u].at = "idle" /\ user'[u].p = None
      BY <2>1, UserAt, WorksOnNone DEF LocalInv
    <2>3. user[u].at = "asking" => user[u].p = None
      BY DEF LocalInv, PlaceInv
    <2>4. proxy' = proxy
      BY <1>2 DEF TimedOut
    <2>5. Debt \in Nat /\ Debt' = Debt
      <3>1. \A p \in Proxies : Telling(user[u], p) <=> Telling(user'[u], p)
        BY <2>1, <2>2, <2>3, ProxyNumbers DEF Telling
      <3> QED BY <2>2, <2>4, <3>1, DebtByThread
    <2>6. /\ OnlyCall(c) /\ call'[c].kind = call[c].kind
          /\ call'[c].refs = call[c].refs /\ call'[c].stage = call[c].stage
      BY <2>1, CallIsNot
    <2>7. Sent \in Nat /\ Sent' = Sent
      BY <2>6, SentSame DEF OnItsWay, OnlyCall
    <2> QED BY <1>1, <2>1, <2>2, <2>5, <2>7
  <1>3. CASE Shutdown(u)
    <2>1. user[u].at = "shutting" /\ call' = call
      BY <1>3, ShutIs DEF Shutdown, Closing
    <2>2. Sent \in Nat /\ Sent' = Sent
      BY <2>1, SentSame DEF OnItsWay
    <2>3. CASE user[u].p = None
      <3>1. user' = [user EXCEPT ![u] = Idle] /\ proxy' = proxy
        BY <1>3, <2>3 DEF Shutdown
      <3>2. OnlyUser(u) /\ user'[u].at = "idle" /\ user'[u].p = None
        BY <3>1, WorksOnNone DEF LocalInv
      <3>3. Debt \in Nat /\ Debt' = Debt
        <4>1. \A p \in Proxies : ~ Telling(user[u], p) /\ ~ Telling(user'[u], p)
          BY <2>3, <3>2, ProxyNumbers DEF Telling
        <4> QED BY <3>1, <3>2, <4>1, DebtByThread
      <3> QED BY <1>1, <2>1, <2>2, <3>2, <3>3
    <2>4. CASE user[u].p # None
      <3>1. PICK p \in Proxies : p = user[u].p
        BY <2>4 DEF LocalInv, LocalTypes, Threads
      <3>2. user' = [user EXCEPT ![u].at = "leaving"] /\ proxy' = Parted(p)
        BY <1>3, <2>4, <3>1 DEF Shutdown
      <3>3. OnlyUser(u) /\ user'[u].at = "leaving" /\ user'[u].p = p
        BY <3>1, <3>2, UserAt DEF LocalInv
      <3>4. Debt \in Nat /\ Debt' = Debt
        BY <2>1, <3>1, <3>2, <3>3, PartedOwes, DebtSame
      <3> QED BY <1>1, <2>1, <2>2, <3>3, <3>4
    <2> QED BY <2>3, <2>4
  <1> QED BY <1>2, <1>3

\* ... and the end of a proxy, which owes nothing by then.
LEMMA BalanceLeave ==
    ASSUME Base, Base', NEW u \in Users, Leave(u), link = "open"
    PROVE  Debt' + Sent' + Cardinality(Returned)' = Debt + Sent + Cardinality(Returned)
  <1> USE DEF Base
  <1>1. user[u].at = "leaving" /\ user[u].p # None /\ call' = call
    BY DEF Leave, LocalInv, PlaceInv
  <1>2. PICK p \in Proxies : p = user[u].p /\ Ending(p, u)
    BY <1>1, EndingProxy
  <1>3. proxy' = [proxy EXCEPT ![p] = NoProxy] /\ user' = [user EXCEPT ![u] = Idle]
    BY <1>2 DEF Leave
  <1>4. OnlyProxy(p) /\ proxy'[p] = NoProxy
    <2>1. NoProxy \in Counts
      BY DEF NoProxy, Counts
    <2> QED BY <1>3, <2>1, ProxyIs DEF LocalInv
  <1>5. OnlyUser(u) /\ user'[u].at = "idle" /\ user'[u].p = None
    BY <1>3, WorksOnNone DEF LocalInv
  <1>6. ASSUME NEW q \in Proxies
        PROVE  Owed(q)' = Owed(q)
    <2>1. Told(q)' <=> Told(q)
      BY <1>1, <1>5, ToldSame
    <2>2. CASE q = p
      <3>1. Owed(q) = 0
        BY <1>1, <1>2, <2>2 DEF Owed, Ending
      <3>2. Owed(q)' = 0
        BY <1>4, <2>2 DEF Owed, NoProxy
      <3> QED BY <3>1, <3>2
    <2>3. CASE q # p
      BY <1>4, <2>1, <2>3, OwedSame DEF OnlyProxy
    <2> QED BY <2>2, <2>3
  <1>7. Debt \in Nat /\ Debt' = Debt
    BY <1>6, DebtSame
  <1>8. Sent \in Nat /\ Sent' = Sent
    BY <1>1, SentSame DEF OnItsWay
  <1>9. /\ Cardinality(Returned) \in Nat
        /\ Cardinality(Returned') = Cardinality(Returned)
              - One(user[u].at = "returned") + One(user'[u].at = "returned")
    BY <1>5, ReturnedChange
  <1>10. Cardinality(Returned)' = Cardinality(Returned')
    OBVIOUS
  <1> QED BY <1>1, <1>5, <1>7, <1>8, <1>9, <1>10 DEF One

\* A step of a thread keeps the balance.
LEMMA BalanceUser ==
    ASSUME Base, Base', ModeInv, Sound, slips = {}, slips' = {}, Balanced,
           NEW u \in Users, UserNext(u), link = "open", link' = "open"
    PROVE  Balanced'
  <1>1. UNCHANGED <<inbound, registered, lost>>
    <2>1. CASE Shutdown(u)
      BY <2>1, ShutIs DEF Shutdown, Closing, ownerVars
    <2>2. CASE ~ Shutdown(u)
      BY <2>2 DEF UserNext, Ask, Return, Obtain, AskFails, Copy, TakeKept,
         Drop, SendRelease, Released, ReleaseFails, TimedOut, Leave, ownerVars
    <2> QED BY <2>1, <2>2
  <1>2. ToTheOwner' = ToTheOwner
    <2>1. ASSUME inbound.at = "gap"
          PROVE  proxy'[inbound.p].mode = proxy[inbound.p].mode
      <3>1. inbound.p # None /\ inbound # NoInbound
        BY <2>1 DEF Base, LocalInv, PlaceInv, NoInbound
      <3>2. PICK p \in Proxies : p = inbound.p
        BY <3>1 DEF Base, LocalInv, LocalTypes, Offers
      <3>3. ~ Obtain(u)
        BY <3>1, RoleIs DEF Base, ServiceInv, SinkInv, Obtain
      <3>4. ASSUME Leave(u), user[u].p = p
            PROVE  FALSE
        <4>1. user[u].at = "leaving" /\ p # None
          BY <3>4, ProxyNumbers DEF Leave
        <4>2. Ending(p, u)
          BY <3>4, <4>1, EndingProxy DEF Base
        <4> QED BY <3>2, <4>2 DEF Ending, Apart
      <3>5. SameMode(p)
        BY <3>3, <3>4, UserModes DEF Base
      <3> QED BY <3>2, <3>5 DEF SameMode
    <2> QED BY <1>1, <2>1, ToTheOwnerSame
  <1>3. Debt' + Sent' + Cardinality(Returned)' = Debt + Sent + Cardinality(Returned)
    <2>1. ~ AskFails(u) /\ ~ ReleaseFails(u)
      BY DEF AskFails, ReleaseFails
    <2> QED BY <2>1, BalanceAsk, BalanceObtain, BalanceUse, BalanceSend, BalanceReleased,
               BalanceGivenUp, BalanceLeave DEF UserNext
  <1>4. Debt' + Sent' + Cardinality(Returned)' + ToTheOwner'
          = Debt + Sent + Cardinality(Returned) + ToTheOwner
    BY <1>2, <1>3
  <1>5. (inbound.cached = "addref") <=> (inbound'.cached = "addref")
    BY <1>1
  <1> QED BY <1>1, <1>4, <1>5, BalanceKept

-----------------------------------------------------------------------------
(* The open channel: a step of a message.                                   *)

\* References that move between the owner, the messages and the lost ones keep
\* the balance.
LEMMA BalanceMoves ==
    ASSUME Base, Base', Balanced, UNCHANGED <<user, proxy, inbound>>,
           registered' + Sent + lost = registered + Sent' + lost'
    PROVE  Balanced'
  <1>1. /\ Debt \in Nat /\ Sent \in Nat /\ Cardinality(Returned) \in Nat
        /\ lost \in Nat /\ registered \in Nat
    BY DebtNat, ReturnedNat, OwnerTypesOpen DEF Base
  <1>2. lost' \in Nat /\ registered' \in Nat
    BY DEF Base, OwnerTypes
  <1>3. Debt' = Debt
    <2>1. \A p \in Proxies : Owed(p)' = Owed(p)
      BY DEF Owed, Told, One
    <2> QED BY <2>1, DebtSame DEF Base
  <1>4. Cardinality(Returned)' = Cardinality(Returned)
    BY DEF Returned
  <1>5. ToTheOwner \in Nat /\ ToTheOwner' = ToTheOwner
    BY DEF ToTheOwner, One
  <1>6. PICK d \in Nat : d = One(inbound.cached = "addref")
    BY DEF One
  <1>7. One(inbound.cached = "addref")' = d
    BY <1>6 DEF One
  <1>8. PICK s : s = Sent'
    OBVIOUS
  <1>9. s \in Nat
    <2>1. Way' \in [Calls -> Nat]
      BY WayTypeNext DEF Base
    <2> QED BY <1>8, <2>1, SentNext, CallsFinite, PairsFinite, FS_CardinalityType DEF Total
  <1>10. registered + d = Debt + Sent + Cardinality(Returned) + ToTheOwner + lost
    BY <1>6 DEF Balanced
  <1>11. registered' + d = Debt + s + Cardinality(Returned) + ToTheOwner + lost'
    <2>1. registered' + Sent + lost = registered + s + lost'
      BY <1>8
    <2>2. d \in Nat /\ s \in Nat /\ registered' \in Nat /\ lost' \in Nat
      BY <1>2, <1>9
    <2>3. PICK x \in Nat : x = Debt + Cardinality(Returned) + ToTheOwner
      BY <1>1, <1>5
    <2>4. registered + d = x + Sent + lost
      BY <1>1, <1>5, <1>10, <2>3
    <2>5. registered' + d = x + s + lost'
      BY <1>1, <2>1, <2>2, <2>4
    <2> QED BY <1>1, <1>5, <2>2, <2>3, <2>5
  <1> QED BY <1>3, <1>4, <1>5, <1>7, <1>8, <1>11 DEF Balanced

\* What a late answer that another call takes does to the two calls.
LEMMA MistakenCalls ==
    ASSUME OwnerTypes, NEW c \in Calls, NEW d \in Calls, Late(c),
           call[d].by # "nobody", call[d].stage # "answered",
           call' = [call EXCEPT ![c] = [kind |-> call[d].kind, by |-> call[d].by,
                                        refs |-> Carried(c), stage |-> "answered"],
                                ![d].by = "nobody"]
    PROVE  /\ c # d
           /\ \A e \in Calls : e # c => /\ call'[e].kind = call[e].kind
                                        /\ call'[e].refs = call[e].refs
                                        /\ call'[e].stage = call[e].stage
           /\ call'[c].kind = call[d].kind /\ call'[c].refs = Carried(c)
           /\ call'[c].stage = "answered"
  <1>1. c # d /\ \A e \in Calls : e \notin {c, d} => call'[e] = call[e]
    BY MistakenIs
  <1>2. /\ call'[c].kind = call[d].kind /\ call'[c].refs = Carried(c)
        /\ call'[c].stage = "answered"
    BY MistakenIs
  <1>3. PICK n : n = [call[d] EXCEPT !.by = "nobody"]
    OBVIOUS
  <1>4. call'[d] = n
    <2>1. call \in [Calls -> Messages]
      BY OwnerTypesOpen
    <2> QED BY <1>1, <1>3, <2>1
  <1>5. n.kind = call[d].kind /\ n.refs = call[d].refs /\ n.stage = call[d].stage
    BY <1>3, CallType DEF Messages
  <1> QED BY <1>1, <1>2, <1>4, <1>5

\* The sum changes by one message.
LEMMA SentOne ==
    ASSUME Base, Base', NEW c \in Calls,
           \A d \in Calls : d # c => OnItsWay(d)' = OnItsWay(d)
    PROVE  /\ Sent \in Nat /\ OnItsWay(c) \in Nat /\ OnItsWay(c)' \in Nat
           /\ Sent' = Sent - OnItsWay(c) + OnItsWay(c)' /\ Sent >= OnItsWay(c)
  <1>1. Way \in [Calls -> Nat] /\ \A d \in Calls : Way[d] = OnItsWay(d)
    BY WayType DEF Base
  <1>2. Way' \in [Calls -> Nat] /\ \A d \in Calls : Way'[d] = OnItsWay(d)'
    BY WayTypeNext DEF Base
  <1>3. \A d \in Calls : d # c => Way'[d] = Way[d]
    BY <1>1, <1>2
  <1>4. /\ Total(Calls, Way) \in Nat
        /\ Total(Calls, Way') = Total(Calls, Way) - Way[c] + Way'[c]
    BY <1>1, <1>2, <1>3, CallsFinite, TotalChange
  <1>5. Total(Calls, Way) >= Way[c]
    BY <1>1, CallsFinite, TotalTwo
  <1>6. Way[c] = OnItsWay(c) /\ Way'[c] = OnItsWay(c)' /\ OnItsWay(c) \in Nat /\ OnItsWay(c)' \in Nat
    BY <1>1, <1>2
  <1> QED BY <1>4, <1>5, <1>6, SentNext DEF Sent

\* Every step of a call keeps the balance.
LEMMA BalanceCall ==
    ASSUME Base, Base', Balanced, slips' = {}, link = "open", NEW c \in Calls, CallNext(c)
    PROVE  Balanced'
  <1> USE DEF Base
  <1>1. UNCHANGED <<user, proxy, inbound>>
    BY DEF CallNext, Receive, Begin, HandleGet, HandleRelease, Unexpected, Mistaken
  <1>2. /\ registered \in Nat /\ lost \in Nat /\ call[c].refs \in Nat
        /\ MessageIs(call[c], link, user) /\ call[c].kind \in {"none", "get", "release"}
    BY OwnerTypesOpen, CallType, CallInvOpen
  <1>3. CASE Receive(c) \/ Begin(c)
    <2>1. PICK s \in {"queued", "handling"} :
            call' = [call EXCEPT ![c].stage = s] /\ call[c].stage \in {"sent", "queued"}
      BY <1>3 DEF Receive, Begin
    <2>2. /\ OnlyCall(c) /\ call'[c].kind = call[c].kind
          /\ call'[c].refs = call[c].refs /\ call'[c].stage = s
      BY <2>1, CallGoes
    <2>3. OnItsWay(c)' = OnItsWay(c)
      BY <2>1, <2>2 DEF OnItsWay
    <2>4. Sent \in Nat /\ Sent' = Sent
      BY <2>2, <2>3, SentSame DEF OnItsWay, OnlyCall
    <2>5. UNCHANGED <<registered, lost>>
      BY <1>3 DEF Receive, Begin, ownerVars
    <2> QED BY <1>1, <2>4, <2>5, BalanceMoves
  <1>4. CASE HandleGet(c)
    <2>1. /\ call[c].kind = "get" /\ call[c].stage = "handling" /\ lost' = lost
          /\ \/ registered' = registered + 1 /\ Report(c, 1)
             \/ registered' = registered /\ Report(c, 0)
      BY <1>4 DEF HandleGet
    <2>2. PICK n \in {0, 1} : registered' = registered + n /\ Report(c, n)
      BY <1>2, <2>1
    <2>3. /\ OnlyCall(c) /\ call'[c].kind = "get" /\ call'[c].refs = n
          /\ call'[c].stage = "answered"
      BY <2>1, <2>2, ReportIs
    <2>4. OnItsWay(c) = 0 /\ OnItsWay(c)' = n
      BY <2>1, <2>3 DEF OnItsWay
    <2>5. Sent \in Nat /\ Sent' = Sent - OnItsWay(c) + OnItsWay(c)'
      BY <2>3, SentChange DEF OnlyCall
    <2> QED BY <1>1, <1>2, <2>1, <2>2, <2>4, <2>5, BalanceMoves
  <1>5. CASE HandleRelease(c)
    <2>1. /\ call[c].kind = "release" /\ call[c].stage = "handling" /\ lost' = lost
          /\ ~ (registered < call[c].refs)
          /\ registered' = Less(registered, call[c].refs) /\ Report(c, call[c].refs)
      BY <1>5 DEF HandleRelease
    <2>2. registered' = registered - call[c].refs
      BY <1>2, <2>1, LessIs
    <2>3. OnlyCall(c) /\ call'[c].kind = "release" /\ call'[c].stage = "answered"
      BY <1>2, <2>1, ReportIs
    <2>4. OnItsWay(c) = call[c].refs /\ OnItsWay(c)' = 0
      BY <2>1, <2>3 DEF OnItsWay
    <2>5. Sent \in Nat /\ Sent' = Sent - OnItsWay(c) + OnItsWay(c)'
      BY <2>3, SentChange DEF OnlyCall
    <2> QED BY <1>1, <1>2, <2>1, <2>2, <2>4, <2>5, BalanceMoves
  <1>6. CASE Unexpected(c)
    <2>1. /\ Late(c) /\ call' = [call EXCEPT ![c] = NoCall] /\ lost' = lost + Carried(c)
          /\ registered' = registered
      BY <1>6 DEF Unexpected, ownerVars
    <2>2. OnlyCall(c) /\ call'[c] = NoCall
      BY <2>1, NoCallType, CallBecomes
    <2>3. OnItsWay(c) = Carried(c) /\ OnItsWay(c)' = 0
      BY <2>1, <2>2, NoCallWay DEF OnItsWay, Carried, Late
    <2>4. Sent \in Nat /\ OnItsWay(c) \in Nat /\ Sent' = Sent - OnItsWay(c) + OnItsWay(c)'
      BY <2>2, SentChange DEF OnlyCall
    <2> QED BY <1>1, <1>2, <2>1, <2>3, <2>4, BalanceMoves
  <1>7. CASE Mistaken(c)
    <2>1. PICK d \in Calls :
            /\ Late(c) /\ call[d].by # "nobody" /\ call[d].stage # "answered"
            /\ call' = [call EXCEPT ![c] = [kind |-> call[d].kind, by |-> call[d].by,
                                            refs |-> Carried(c), stage |-> "answered"],
                                    ![d].by = "nobody"]
            /\ lost' = IF call[d].kind = "get" THEN lost ELSE lost + Carried(c)
            /\ registered' = registered
      BY <1>7 DEF Mistaken, ownerVars
    <2>2. /\ \A e \in Calls : e # c => /\ call'[e].kind = call[e].kind
                                       /\ call'[e].refs = call[e].refs
                                       /\ call'[e].stage = call[e].stage
          /\ call'[c].kind = call[d].kind /\ call'[c].refs = Carried(c)
          /\ call'[c].stage = "answered"
      BY <2>1, MistakenCalls
    <2>3. \A e \in Calls : e # c => OnItsWay(e)' = OnItsWay(e)
      BY <2>2 DEF OnItsWay
    <2>4. /\ Sent \in Nat /\ OnItsWay(c) \in Nat
          /\ Sent' = Sent - OnItsWay(c) + OnItsWay(c)'
      BY <2>3, SentOne
    <2>5. OnItsWay(c) = Carried(c)
      BY <2>1 DEF OnItsWay, Carried, Late
    <2>6. OnItsWay(c)' = IF call[d].kind = "get" THEN Carried(c) ELSE 0
      BY <2>2 DEF OnItsWay
    <2> QED BY <1>1, <1>2, <2>1, <2>4, <2>5, <2>6, BalanceMoves
  <1> QED BY <1>3, <1>4, <1>5, <1>6, <1>7 DEF CallNext

-----------------------------------------------------------------------------
(* The open channel: a step of the call that offers the object.             *)

\* A step of an offer keeps the balance if it moves references between the
\* proxy, the response and the owner.
LEMMA BalanceOffers ==
    ASSUME Base, Base', Balanced, UNCHANGED <<call, user, lost>>,
           NEW x \in Nat, x = One(inbound'.cached = "addref"),
           NEW d \in Nat, d = Debt', NEW t \in Nat, t = ToTheOwner',
           registered' + x + Debt + ToTheOwner
             = registered + One(inbound.cached = "addref") + d + t
    PROVE  Balanced'
  <1>1. /\ Debt \in Nat /\ Sent \in Nat /\ Cardinality(Returned) \in Nat
        /\ lost \in Nat /\ registered \in Nat
    BY DebtNat, ReturnedNat, OwnerTypesOpen DEF Base
  <1>2. registered' \in Nat
    BY DEF Base, OwnerTypes
  <1>3. Sent' = Sent
    BY SentSame DEF OnItsWay, Base
  <1>4. Cardinality(Returned)' = Cardinality(Returned)
    BY DEF Returned
  <1>5. ToTheOwner \in Nat
    BY DEF ToTheOwner, One
  <1>6. PICK a \in Nat : a = One(inbound.cached = "addref")
    BY DEF One
  <1>7. registered + a = Debt + Sent + Cardinality(Returned) + ToTheOwner + lost
    BY <1>6 DEF Balanced
  <1>8. registered' + x + Debt + ToTheOwner = registered + a + d + t
    BY <1>6
  <1>9. PICK s \in Nat : s = Sent + Cardinality(Returned) + lost
    BY <1>1
  <1>10. registered + a = Debt + ToTheOwner + s
    BY <1>1, <1>5, <1>6, <1>7, <1>9
  <1>11. registered' + x = d + t + s
    <2>1. a \in Nat /\ s \in Nat
      BY <1>6, <1>9
    <2>2. x \in Nat /\ d \in Nat /\ t \in Nat
      OBVIOUS
    <2>3. PICK r \in Nat : r = registered
      BY <1>1
    <2>4. PICK next \in Nat : next = registered'
      BY <1>2
    <2>5. PICK o \in Nat : o = Debt
      BY <1>1
    <2>6. PICK b \in Nat : b = ToTheOwner
      BY <1>5
    <2>7. r + a = o + b + s
      BY ONLY <1>10, <2>3, <2>5, <2>6
    <2>8. next + x + o + b = r + a + d + t
      BY ONLY <1>8, <2>3, <2>4, <2>5, <2>6
    <2>10. r \in Nat /\ next \in Nat /\ o \in Nat /\ b \in Nat
      BY <2>3, <2>4, <2>5, <2>6
    <2>9. next + x = d + t + s
      BY ONLY <2>1, <2>2, <2>7, <2>8, <2>10
    <2> QED BY ONLY <2>4, <2>9
  <1>12. PICK n : n = Debt' + Sent' + Cardinality(Returned)' + ToTheOwner'
    OBVIOUS
  <1>13. n = d + Sent + Cardinality(Returned) + t
    BY <1>3, <1>4, <1>12
  <1>14. registered' + x = n + lost
    BY <1>1, <1>9, <1>11, <1>13
  <1>15. One(inbound.cached = "addref")' = x
    BY DEF One
  <1> QED BY <1>12, <1>14, <1>15 DEF Balanced

\* An offer of a process that has been told everything.
LEMMA OfferedAs ==
    ASSUME Base, ModeInv, Sound, slips = {}, inbound # NoInbound
    PROVE  \A p \in Proxies :
             /\ proxy[p].count > 0 => proxy[p].remote = 1
             /\ proxy[p].mode \in {{}, {"addref"}, {"release"}}
             /\ proxy[p].mode # {} <=> inbound.p = p
  BY RoleIs DEF Base, ServiceInv, ModeInv

\* The proxy that Complete is about.
LEMMA OfferedOwes ==
    ASSUME Base, ModeInv, Sound, slips = {}, link = "open", NEW p \in Proxies, inbound.p = p, Live(p)
    PROVE  /\ proxy[p].channel /\ ~ Told(p) /\ proxy[p].remote = 1 /\ proxy[p].count >= 2
           /\ proxy[p].mode \in {{"addref"}, {"release"}}
           /\ Owed(p) = One(proxy[p].mode = {"release"})
  <1>1. inbound # NoInbound
    BY ProxyNumbers DEF NoInbound
  <1>2. proxy[p].count >= 2 /\ proxy[p].count \in Nat
    BY Referred, ProxyType DEF Live, Base, LocalInv
  <1>3. proxy[p].channel
    BY <1>2 DEF Base, LocalInv, ProxyInv, OnChannel
  <1>4. ~ Told(p)
    BY NotTold
  <1>5. proxy[p].remote = 1 /\ proxy[p].mode \in {{"addref"}, {"release"}}
    <2>1. /\ proxy[p].count > 0 => proxy[p].remote = 1
          /\ proxy[p].mode \in {{}, {"addref"}, {"release"}}
          /\ proxy[p].mode # {} <=> inbound.p = p
      BY <1>1, OfferedAs
    <2> QED BY <1>2, <2>1
  <1>6. "addref" \in proxy[p].mode <=> ~ (proxy[p].mode = {"release"})
    BY <1>5
  <1>7. Owed(p) = 1 - One("addref" \in proxy[p].mode)
    BY <1>3, <1>4, <1>5 DEF Owed
  <1>8. Owed(p) = One(proxy[p].mode = {"release"})
    BY <1>6, <1>7 DEF One
  <1> QED BY <1>2, <1>3, <1>4, <1>5, <1>8

\* The proxy of a parameter owes nothing.
LEMMA BalanceUnmarshal ==
    ASSUME Base, Base', ModeInv, Sound, slips = {}, Balanced, link = "open", Unmarshal
    PROVE  Balanced'
  <1> USE DEF Base
  <1>1. PICK p : p = Chosen
    OBVIOUS
  <1>2. Possible /\ Instance(p, {"release"}) /\ inbound.at = "begun" /\ UNCHANGED <<call, user, lost, registered>>
    BY <1>1 DEF Unmarshal, ownerVars
  <1>3. /\ p \in Proxies /\ OnlyProxy(p)
        /\ \/ /\ Absent(p) /\ proxy'[p].channel /\ proxy'[p].remote = 1
              /\ proxy'[p].mode = {"addref"}
           \/ /\ Live(p) /\ proxy'[p].channel = proxy[p].channel
              /\ proxy'[p].remote = proxy[p].remote
              /\ proxy'[p].mode = proxy[p].mode \cup {"release"}
    <2>1. {"release"} \in {{}, {"release"}} /\ {"release"} # {}
      OBVIOUS
    <2>2. /\ p \in Proxies /\ OnlyProxy(p)
          /\ \/ /\ Absent(p) /\ proxy'[p].channel /\ proxy'[p].remote = 1
                /\ proxy'[p].mode = {"addref"}
             \/ /\ Live(p) /\ proxy'[p].channel = proxy[p].channel
                /\ proxy'[p].remote = proxy[p].remote + 0
                /\ proxy'[p].mode = proxy[p].mode \cup {"release"}
      BY <1>1, <1>2, <2>1, InstanceStep
    <2>3. proxy[p].remote \in Nat
      BY <2>2, ProxyType DEF LocalInv
    <2> QED BY <2>2, <2>3
  <1>4. inbound' = [inbound EXCEPT !.at = "inside", !.p = p] /\ inbound \in Offers
    BY <1>1 DEF Unmarshal, LocalInv, LocalTypes
  <1>5. inbound'.at = "inside" /\ inbound'.cached = inbound.cached
    BY <1>4 DEF Offers
  <1>6. inbound.cached = "none" /\ inbound # NoInbound /\ inbound.p = None
    BY <1>2 DEF LocalInv, PlaceInv, NoInbound
  <1>7. ASSUME NEW q \in Proxies, q # p
        PROVE  Owed(q)' = Owed(q)
    <2>1. Told(q)' <=> Told(q)
      BY <1>2 DEF Told
    <2> QED BY <1>3, <1>7, <2>1, OwedSame DEF OnlyProxy
  <1>8. Owed(p)' = Owed(p)
    <2>1. ~ Told(p) /\ ~ Told(p)'
      <3>1. ~ Told(p)
        BY <1>3, NotTold
      <3> QED BY <1>2, <3>1 DEF Told
    <2>2. CASE Absent(p) /\ proxy'[p].channel /\ proxy'[p].remote = 1 /\ proxy'[p].mode = {"addref"}
      <3>1. Owed(p) = 0
        BY <2>2 DEF Owed, Absent, NoProxy
      <3>2. Owed(p)' = 0
        BY <2>1, <2>2 DEF Owed, One
      <3> QED BY <3>1, <3>2
    <2>3. CASE /\ Live(p) /\ proxy'[p].channel = proxy[p].channel
               /\ proxy'[p].remote = proxy[p].remote
               /\ proxy'[p].mode = proxy[p].mode \cup {"release"}
      <3>1. "addref" \in proxy'[p].mode <=> "addref" \in proxy[p].mode
        BY <2>3
      <3> QED BY <2>1, <2>3, <3>1 DEF Owed, One
    <2> QED BY <1>3, <2>2, <2>3
  <1>9. Debt \in Nat /\ Debt' = Debt
    <2>1. \A q \in Proxies : Owed(q)' = Owed(q)
      BY <1>7, <1>8
    <2> QED BY <2>1, DebtSame
  <1>10. ToTheOwner = 0 /\ ToTheOwner' = 0
    BY <1>2, <1>5, <1>6 DEF ToTheOwner, One
  <1>11. One(inbound.cached = "addref") = 0 /\ 0 = One(inbound'.cached = "addref")
    BY <1>5, <1>6 DEF One
  <1>12. PICK d \in Nat : d = Debt /\ d = Debt'
    BY <1>9
  <1>13. registered \in Nat
    BY OwnerTypesOpen
  <1>14. registered' + 0 + Debt + ToTheOwner = registered + One(inbound.cached = "addref") + d + 0
    BY <1>2, <1>10, <1>11, <1>12, <1>13
  <1>15. 0 \in Nat /\ 0 = ToTheOwner'
    BY <1>10
  <1> QED BY <1>2, <1>11, <1>12, <1>14, <1>15, BalanceOffers

\* The first half of Complete moves what the proxy owes to the response.
LEMMA BalanceCompleteRelease ==
    ASSUME Base, Base', ModeInv, Sound, slips = {}, Balanced, link = "open", CompleteRelease
    PROVE  Balanced'
  <1> USE DEF Base
  <1>1. inbound.at = "inside" /\ UNCHANGED <<call, user, lost, registered>>
    BY DEF CompleteRelease, ownerVars
  <1>2. PICK p \in Proxies : p = inbound.p
    BY <1>1 DEF LocalInv, PlaceInv, LocalTypes, Offers
  <1>3. PICK last \in BOOLEAN : last <=> proxy[p].count = 2
    OBVIOUS
  <1>4. /\ inbound.cached = "none" /\ Live(p)
        /\ inbound'.at = "gap" /\ inbound'.p = p
        /\ inbound'.gone = last /\ inbound'.cached = "none"
        /\ OnlyProxy(p) /\ proxy'[p].channel = IF last THEN FALSE ELSE proxy[p].channel
        /\ proxy'[p].mode = proxy[p].mode /\ proxy'[p].remote = proxy[p].remote
    BY <1>2, <1>3, CompleteReleaseIs
  <1>5. Owed(p) = One(proxy[p].mode = {"release"})
    BY <1>2, <1>4, OfferedOwes
  <1>6. ASSUME NEW q \in Proxies, q # p
        PROVE  Owed(q)' = Owed(q)
    <2>1. Told(q)' <=> Told(q)
      BY <1>1 DEF Told
    <2> QED BY <1>4, <1>6, <2>1, OwedSame DEF OnlyProxy
  <1>7. Owed(p)' = IF last THEN 0 ELSE Owed(p)
    <2>1. CASE last
      BY <1>4, <2>1 DEF Owed
    <2>2. CASE ~ last
      <3>1. Told(p)' <=> Told(p)
        BY <1>1 DEF Told
      <3>2. Owed(p)' = Owed(p)
        BY <1>4, <2>2, <3>1, OwedSame
      <3> QED BY <2>2, <3>2
    <2> QED BY <2>1, <2>2
  <1>8. Debt \in Nat /\ Owed(p) \in Nat /\ Debt' = Debt - Owed(p) + Owed(p)' /\ Debt >= Owed(p)
    BY <1>6, DebtChange
  <1>9. ToTheOwner = 0
    BY <1>1, <1>4 DEF ToTheOwner, One
  <1>10. ToTheOwner' = IF last THEN Owed(p) ELSE 0
    <2>1. ToTheOwner' = 0 + One(last /\ proxy[p].mode = {"release"})
      BY <1>4 DEF ToTheOwner, One
    <2> QED BY <1>5, <2>1 DEF One
  <1>11. One(inbound.cached = "addref") = 0 /\ 0 = One(inbound'.cached = "addref")
    BY <1>4 DEF One
  <1>12. PICK d \in Nat : d = Debt' /\ d = IF last THEN Debt - Owed(p) ELSE Debt
    BY <1>7, <1>8
  <1>13. PICK t \in Nat : t = ToTheOwner' /\ t = IF last THEN Owed(p) ELSE 0
    BY <1>8, <1>10
  <1>14. registered \in Nat
    BY OwnerTypesOpen
  <1>15. registered' + 0 + Debt + ToTheOwner = registered + One(inbound.cached = "addref") + d + t
    BY <1>1, <1>8, <1>9, <1>11, <1>12, <1>13, <1>14
  <1>16. 0 \in Nat
    OBVIOUS
  <1> QED BY <1>1, <1>11, <1>12, <1>13, <1>15, <1>16, BalanceOffers

\* The second half puts into the response what is owed, or to be counted.
LEMMA BalanceCompleteMode ==
    ASSUME Base, Base', ModeInv, Sound, slips = {}, Balanced, link = "open", CompleteMode
    PROVE  Balanced'
  <1> USE DEF Base
  <1>1. inbound.at = "gap" /\ UNCHANGED <<call, user, lost, registered>>
    BY DEF CompleteMode, ownerVars
  <1>2. PICK p \in Proxies : p = inbound.p
    BY <1>1 DEF LocalInv, PlaceInv, LocalTypes, Offers
  <1>3. /\ inbound.cached = "none" /\ inbound'.at = "answer"
        /\ proxy[p].count > 0 => inbound'.cached = Cached(p)
        /\ OnlyProxy(p) /\ (inbound.gone => proxy'[p] = NoProxy)
        /\ ~ inbound.gone =>
             /\ proxy'[p].mode = Completed(proxy[p].mode)
             /\ proxy'[p].remote = proxy[p].remote /\ proxy'[p].channel = proxy[p].channel
    BY <1>2, CompleteModeIs
  <1>4. Live(p) \/ Finished(p)
    <2>1. ~ Apart(p)
      BY <1>2 DEF Apart
    <2> QED BY <1>2, <2>1 DEF LocalInv, ProxyInv, Absent, Ending
  <1>5. ASSUME NEW q \in Proxies, q # p
        PROVE  Owed(q)' = Owed(q)
    <2>1. Told(q)' <=> Told(q)
      BY <1>1 DEF Told
    <2> QED BY <1>3, <1>5, <2>1, OwedSame DEF OnlyProxy
  <1>6. Debt \in Nat /\ Owed(p) \in Nat /\ Debt' = Debt - Owed(p) + Owed(p)' /\ Debt >= Owed(p)
    BY <1>5, DebtChange
  <1>7. registered \in Nat
    BY OwnerTypesOpen
  <1>8. One(inbound.cached = "addref") = 0
    BY <1>3 DEF One
  <1>9. CASE inbound.gone
    <2>1. Finished(p) /\ proxy[p].count = 1 /\ ~ proxy[p].channel
      BY <1>1, <1>2, <1>4, <1>9 DEF Live, Finished, Finishing
    <2>2. inbound'.cached = IF proxy[p].mode = {"release"} THEN "release" ELSE "none"
      BY <1>3, <1>9, <2>1 DEF Cached
    <2>3. Owed(p) = 0 /\ Owed(p)' = 0
      <3>1. Owed(p) = 0
        BY <2>1 DEF Owed
      <3>2. Owed(p)' = 0
        BY <1>3, <1>9 DEF Owed, NoProxy
      <3> QED BY <3>1, <3>2
    <2>4. ToTheOwner = One(proxy[p].mode = {"release"})
      BY <1>1, <1>2, <1>3, <1>9 DEF ToTheOwner, One
    <2>5. ToTheOwner' = One(proxy[p].mode = {"release"})
      BY <1>3, <2>2 DEF ToTheOwner, One
    <2>6. PICK t \in Nat : t = One(proxy[p].mode = {"release"})
      BY DEF One
    <2>7. 0 = One(inbound'.cached = "addref")
      BY <2>2 DEF One
    <2>8. PICK d \in Nat : d = Debt /\ d = Debt'
      BY <1>6, <2>3
    <2>9. t \in Nat /\ t = ToTheOwner' /\ t = ToTheOwner /\ 0 \in Nat
      BY <2>4, <2>5, <2>6
    <2>10. registered' + 0 + Debt + ToTheOwner = registered + One(inbound.cached = "addref") + d + t
      BY <1>1, <1>7, <1>8, <2>8, <2>9
    <2> QED BY <1>1, <2>7, <2>8, <2>9, <2>10, BalanceOffers
  <1>10. CASE ~ inbound.gone
    <2>1. Live(p)
      BY <1>4, <1>10 DEF Finished, Finishing
    <2>2. /\ proxy[p].channel /\ ~ Told(p) /\ proxy[p].remote = 1 /\ proxy[p].count >= 2
          /\ proxy[p].mode \in {{"addref"}, {"release"}}
          /\ Owed(p) = One(proxy[p].mode = {"release"})
      BY <1>2, <2>1, OfferedOwes
    <2>3. proxy[p].count \in Nat
      BY <1>2, ProxyType DEF LocalInv
    <2>4. inbound'.cached = Cached(p)
      BY <1>3, <2>2, <2>3
    <2>5. inbound'.cached = IF proxy[p].mode = {"addref"} THEN "addref" ELSE "none"
      <3>1. CASE proxy[p].mode = {"addref"}
        <4>1. "addref" \in proxy[p].mode /\ proxy[p].count > 1
          BY <2>2, <2>3, <3>1
        <4> QED BY <2>4, <3>1, <4>1 DEF Cached
      <3>2. CASE proxy[p].mode = {"release"}
        <4>1. ~ ("addref" \in proxy[p].mode /\ proxy[p].count > 1)
          BY <3>2
        <4>2. ~ (proxy[p].mode = {"release"} /\ inbound.gone) /\ proxy[p].mode # {"addref"}
          BY <1>10, <3>2
        <4> QED BY <2>4, <4>1, <4>2 DEF Cached
      <3> QED BY <2>2, <3>1, <3>2
    <2>6. proxy'[p].mode = {}
      BY <1>3, <1>10, <2>2 DEF Completed
    <2>7. Owed(p)' = 1
      <3>1. ~ Told(p)'
        BY <1>1, <2>2 DEF Told
      <3>2. proxy'[p].channel \in BOOLEAN /\ proxy[p].channel \in BOOLEAN
        BY <1>3, ProxyType DEF OnlyProxy, Counts, LocalInv
      <3>3. proxy'[p].channel /\ proxy'[p].remote = 1 /\ "addref" \notin proxy'[p].mode
        BY <1>3, <1>10, <2>2, <2>6, <3>2
      <3> QED BY <3>1, <3>3 DEF Owed, One
    <2>8. ToTheOwner = 0 /\ ToTheOwner' = 0
      <3>1. ToTheOwner = 0
        BY <1>3, <1>10 DEF ToTheOwner, One
      <3>2. ToTheOwner' = 0
        BY <1>3, <2>5 DEF ToTheOwner, One
      <3> QED BY <3>1, <3>2
    <2>9. PICK x \in Nat : x = One(inbound'.cached = "addref")
      BY DEF One
    <2>10. x \in Nat /\ x + Owed(p) = 1
      <3>1. CASE proxy[p].mode = {"addref"}
        BY <2>2, <2>5, <2>9, <3>1 DEF One
      <3>2. CASE proxy[p].mode = {"release"}
        BY <2>2, <2>5, <2>9, <3>2 DEF One
      <3> QED BY <2>2, <3>1, <3>2
    <2>11. PICK d \in Nat : d = Debt' /\ d = Debt + x
      BY <1>6, <2>7, <2>10
    <2>12. 0 \in Nat /\ 0 = ToTheOwner'
      BY <2>8
    <2>13. registered' + x + Debt + ToTheOwner = registered + One(inbound.cached = "addref") + d + 0
      BY <1>1, <1>6, <1>7, <1>8, <2>8, <2>10, <2>11
    <2> QED BY <1>1, <2>9, <2>10, <2>11, <2>12, <2>13, BalanceOffers
  <1> QED BY <1>9, <1>10

\* The owner does what the response says.
LEMMA BalanceAccept ==
    ASSUME Base, Base', Balanced, link = "open", Accept
    PROVE  Balanced'
  <1> USE DEF Base
  <1>1. inbound.at = "answer" /\ inbound' = NoInbound /\ UNCHANGED <<call, user, lost, proxy>>
    BY DEF Accept
  <1>2. Debt \in Nat /\ Debt' = Debt
    <2>1. \A q \in Proxies : Owed(q)' = Owed(q)
      BY <1>1 DEF Owed, Told, One
    <2> QED BY <2>1, DebtSame
  <1>3. ToTheOwner = One(inbound.cached = "release") /\ ToTheOwner' = 0
    <2>1. ToTheOwner = One(inbound.cached = "release") + 0
      BY <1>1 DEF ToTheOwner, One
    <2>2. ToTheOwner' = 0
      BY <1>1 DEF ToTheOwner, One, NoInbound
    <2> QED BY <2>1, <2>2 DEF One
  <1>4. 0 = One(inbound'.cached = "addref")
    BY <1>1 DEF One, NoInbound
  <1>5. registered \in Nat /\ inbound.cached \in {"none", "addref", "release"}
    BY OwnerTypesOpen, OfferType DEF LocalInv
  <1>6. registered' + One(inbound.cached = "release")
          = registered + One(inbound.cached = "addref")
    <2>1. CASE inbound.cached = "addref"
      BY <1>5, <2>1 DEF Accept, One
    <2>2. CASE inbound.cached = "release"
      <3>1. registered' = Less(registered, 1) /\ 1 <= registered
        BY <2>2, BackRegistered, <1>5 DEF Accept
      <3>2. Less(registered, 1) = registered - 1
        BY <1>5, <3>1, LessIs
      <3> QED BY <1>5, <2>2, <3>1, <3>2 DEF One
    <2>3. CASE inbound.cached = "none"
      BY <1>5, <2>3 DEF Accept, One
    <2> QED BY <1>5, <2>1, <2>2, <2>3
  <1>7. PICK d \in Nat : d = Debt /\ d = Debt'
    BY <1>2
  <1>8. registered' \in Nat
    BY DEF OwnerTypes
  <1>9. registered' + 0 + Debt + ToTheOwner = registered + One(inbound.cached = "addref") + d + 0
    <2>1. PICK r : r = One(inbound.cached = "release")
      OBVIOUS
    <2>2. PICK a : a = One(inbound.cached = "addref")
      OBVIOUS
    <2>3. r \in Nat /\ a \in Nat
      BY <2>1, <2>2 DEF One
    <2>4. registered' + r = registered + a /\ ToTheOwner = r
      BY <1>3, <1>6, <2>1, <2>2
    <2> QED BY <1>5, <1>7, <1>8, <2>2, <2>3, <2>4
  <1>10. 0 \in Nat /\ 0 = ToTheOwner'
    BY <1>3
  <1> QED BY <1>1, <1>4, <1>7, <1>9, <1>10, BalanceOffers

\* A step that moves no reference.
LEMMA BalanceStill ==
    ASSUME Base, Base', Balanced, UNCHANGED <<registered, call, user, lost>>,
           inbound'.cached = inbound.cached, inbound.cached = "none",
           inbound.at # "gap", inbound'.at # "gap",
           \A p \in Proxies : /\ proxy'[p].channel = proxy[p].channel
                              /\ proxy'[p].mode = proxy[p].mode /\ proxy'[p].remote = proxy[p].remote
    PROVE  Balanced'
  <1>1. Debt \in Nat /\ Debt' = Debt
    <2>1. \A q \in Proxies : Owed(q)' = Owed(q)
      BY DEF Owed, Told, One
    <2> QED BY <2>1, DebtSame DEF Base
  <1>2. ToTheOwner = 0 /\ ToTheOwner' = 0
    BY DEF ToTheOwner, One
  <1>3. One(inbound.cached = "addref") = 0 /\ 0 = One(inbound'.cached = "addref")
    BY DEF One
  <1>4. PICK d \in Nat : d = Debt /\ d = Debt'
    BY <1>1
  <1>5. registered \in Nat
    BY OwnerTypesOpen DEF Base
  <1>6. registered' + 0 + Debt + ToTheOwner = registered + One(inbound.cached = "addref") + d + 0
    BY <1>2, <1>3, <1>4, <1>5
  <1>7. 0 \in Nat /\ 0 = ToTheOwner'
    BY <1>2
  <1> QED BY <1>3, <1>4, <1>6, <1>7, BalanceOffers

\* Every step of an offer keeps the balance.
LEMMA BalanceInbound ==
    ASSUME Base, Base', ModeInv, Sound, slips = {}, slips' = {}, Balanced, link = "open", InboundNext
    PROVE  Balanced'
  <1> USE DEF Base
  <1>1. CASE Offer \/ BeginOffer \/ OfferFails
    <2>1. /\ UNCHANGED <<registered, call, user, lost, proxy>> /\ ~ OfferFails
          /\ inbound.at \in {"none", "sent"}
      BY <1>1 DEF Offer, BeginOffer, OfferFails, ownerVars, NoInbound
    <2>2. inbound.cached = "none"
      BY <2>1 DEF LocalInv, PlaceInv
    <2>3. inbound'.cached = "none" /\ inbound'.at # "gap"
      <3>1. CASE Offer
        BY <3>1 DEF Offer, NoInbound
      <3>2. CASE BeginOffer
        <4>1. inbound' = [inbound EXCEPT !.at = "begun"] /\ inbound \in Offers
          BY <3>2 DEF BeginOffer, LocalInv, LocalTypes
        <4> QED BY <2>2, <4>1 DEF Offers
      <3> QED BY <1>1, <2>1, <3>1, <3>2
    <2> QED BY <2>1, <2>2, <2>3, BalanceStill
  <1>2. CASE Keep \/ LetGo
    <2>1. /\ inbound.at = "inside" /\ UNCHANGED <<inbound, registered, call, user, lost>>
      BY <1>2 DEF Keep, LetGo, ownerVars
    <2>2. PICK p \in Proxies : p = inbound.p
      BY <2>1 DEF LocalInv, PlaceInv, LocalTypes, Offers
    <2>3. proxy[p].count \in Nat /\ proxy[p].count >= 2
      BY <2>1, <2>2, ReferredBy DEF Inside
    <2>4. PICK n : n = IF Keep THEN proxy[p].count + 1 ELSE proxy[p].count - 1
      OBVIOUS
    <2>5. n \in Nat /\ proxy' = [proxy EXCEPT ![p].count = n]
      BY <1>2, <2>2, <2>3, <2>4 DEF Keep, LetGo
    <2>6. /\ OnlyProxy(p) /\ proxy'[p].channel = proxy[p].channel
          /\ proxy'[p].mode = proxy[p].mode /\ proxy'[p].remote = proxy[p].remote
      BY <2>5, CountTo DEF LocalInv
    <2>7. inbound.cached = "none"
      BY <2>1 DEF LocalInv, PlaceInv
    <2> QED BY <2>1, <2>6, <2>7, BalanceStill DEF OnlyProxy
  <1>3. CASE OfferTimedOut \/ OfferShutdown \/ Unheard
    <2>1. "unheard" \in slips \/ "unheard" \in slips'
      BY <1>3 DEF OfferTimedOut, OfferShutdown, Unheard, OfferInv, NoInbound
    <2> QED BY <2>1
  <1> QED BY <1>1, <1>2, <1>3, BalanceUnmarshal, BalanceCompleteRelease, BalanceCompleteMode,
             BalanceAccept DEF InboundNext

-----------------------------------------------------------------------------
(* The account holds until a window is hit.                                 *)

\* A channel that is closed stays so.
LEMMA OpensNever ==
    ASSUME Base, [Next]_vars, link' = "open"
    PROVE  link = "open"
  <1>1. ASSUME NEW u \in Users, UserNext(u)
        PROVE  link = "open"
    <2>1. CASE Shutdown(u)
      BY <2>1, ShutIs DEF Shutdown
    <2>2. CASE ~ Shutdown(u)
      BY <1>1, <2>2 DEF UserNext, Ask, Return, Obtain, AskFails, Copy, TakeKept,
         Drop, SendRelease, Released, ReleaseFails, TimedOut, Leave
    <2> QED BY <2>1, <2>2
  <1>2. CASE OfferShutdown
    BY <1>2, ShutIs DEF OfferShutdown
  <1>3. CASE UNCHANGED vars \/ (\E c \in Calls : CallNext(c)) \/ Clear \/ OwnerDrop \/ Close
             \/ Closed \/ \E p \in Proxies : Dangling(p)
    BY <1>3 DEF vars, CallNext, Receive, Begin, HandleGet, HandleRelease, Unexpected,
       Mistaken, Clear, OwnerDrop, Close, Closed, Dangling
  <1>4. CASE InboundNext /\ ~ OfferShutdown
    BY <1>4 DEF InboundNext, Offer, OfferTimedOut, OfferFails, BeginOffer, Unmarshal, Keep, LetGo,
       CompleteRelease, CompleteMode, Accept, Unheard
  <1> QED BY <1>1, <1>2, <1>3, <1>4 DEF Next

\* Every step keeps the balance while the channel is open.
LEMMA BalanceStep ==
    ASSUME Base, Base', ModeInv, Sound, slips = {}, slips' = {}, Balanced, link = "open",
           link' = "open", [Next]_vars
    PROVE  Balanced'
  <1>1. CASE UNCHANGED vars \/ Clear \/ OwnerDrop
    <2>1. UNCHANGED <<registered, lost, call, user, proxy, inbound>>
      BY <1>1 DEF vars, Clear, OwnerDrop
    <2>2. Sent \in Nat /\ Sent' = Sent
      BY <2>1, SentSame DEF OnItsWay, Base
    <2> QED BY <2>1, <2>2, BalanceMoves
  <1>2. CASE Close \/ Closed \/ \E p \in Proxies : Dangling(p)
    <2>1. ~ (Close \/ Closed)
      BY DEF Close, Closing, Closed
    <2>2. PICK p \in Proxies : Dangling(p)
      BY <1>2, <2>1
    <2>3. link = "deleted"
      BY <2>2, DanglingIs DEF Base
    <2> QED BY <2>3
  <1> QED BY <1>1, <1>2, BalanceUser, BalanceCall, BalanceInbound DEF Next

\* The parts of Account, in the next state.
LEMMA AccountPartsNext ==
    Account' <=> (Sound' => CountIs' /\ (link' = "open" => Balanced') /\ CleanedUp')
  BY DEF Account, CountIs, Balanced, CleanedUp, Debt, Sent, Owe, Way

\* Every step keeps the account ...
LEMMA AccountStep ==
    ASSUME Base, ModeInv, Account, [Next]_vars
    PROVE  Account'
  <1> SUFFICES ASSUME Sound'
               PROVE  CountIs' /\ (link' = "open" => Balanced') /\ CleanedUp'
    BY AccountPartsNext
  <1>1. Sound /\ slips' = {} /\ slips = {} /\ setup' = setup
    BY SoundBefore
  <1>2. CountIs /\ (link = "open" => Balanced) /\ CleanedUp
    BY <1>1, AccountParts
  <1>3. Base'
    BY BaseNext
  <1>4. CountIs' /\ CleanedUp'
    BY <1>1, <1>2, CountsStep
  <1>5. ASSUME link' = "open"
        PROVE  Balanced'
    <2>1. link = "open"
      BY <1>5, OpensNever
    <2> QED BY <1>1, <1>2, <1>3, <1>5, <2>1, BalanceStep
  <1> QED BY <1>4, <1>5

\* ... which holds in the beginning.
LEMMA AccountInit ==
    ASSUME Init
    PROVE  Account /\ ModeInv
  <1>1. Base
    BY BaseInit
  <1>2. Debt = 0
    <2>1. Owe \in [Proxies -> Nat] /\ \A p \in Proxies : Owe[p] = 0
      <3>1. \A p \in Proxies : Owed(p) = 0
        BY DEF Owed, Init, NoProxy
      <3> QED BY <1>1, <3>1, OweType DEF Base
    <2> QED BY <2>1, ProxiesFinite, TotalZero DEF Debt
  <1>3. Sent = 0
    <2>1. Way \in [Calls -> Nat] /\ \A c \in Calls : Way[c] = 0
      <3>1. \A c \in Calls : OnItsWay(c) = 0
        BY NoCallWay DEF Init
      <3> QED BY <1>1, <3>1, WayType DEF Base
    <2> QED BY <2>1, CallsFinite, TotalZero DEF Sent
  <1>4. Cardinality(Returned) = 0
    <2>1. Returned = {}
      BY DEF Returned, Init, Idle
    <2> QED BY <2>1, FS_EmptySet
  <1>5. ToTheOwner = 0 /\ One(inbound.cached = "addref") = 0
    BY DEF ToTheOwner, One, Init, NoInbound
  <1>6. Balanced
    BY <1>2, <1>3, <1>4, <1>5 DEF Balanced, Init
  <1>7. CountIs /\ CleanedUp
    BY DEF CountIs, CleanedUp, One, Init
  <1>8. ModeInv
    <2>1. \A p \in Proxies : proxy[p] = NoProxy /\ p # None
      BY ProxyNumbers DEF Init
    <2>2. inbound.p = None
      BY DEF Init, NoInbound
    <2> QED BY <2>1, <2>2 DEF ModeInv, NoProxy
  <1> QED BY <1>6, <1>7, <1>8, AccountParts

\* The inductive invariant: the proxies, the messages and the offers are as they
\* should be whatever windows are hit, and the modes and the account until one is.
AccountInv == Base /\ ModeInv /\ Account

\* The inductive invariant is one.
LEMMA AccountInvAlways == Spec => []AccountInv
  <1>1. Init => AccountInv
    BY BaseInit, AccountInit DEF AccountInv
  <1>2. AccountInv /\ [Next]_vars => AccountInv'
    <2> SUFFICES ASSUME AccountInv, [Next]_vars
                 PROVE  AccountInv'
      OBVIOUS
    <2>1. Base' /\ Account'
      BY BaseNext, AccountStep DEF AccountInv
    <2>2. ModeInv'
      BY ModeStep DEF AccountInv, Base
    <2> QED BY <2>1, <2>2 DEF AccountInv
  <1> QED BY <1>1, <1>2, PTL DEF Spec

\* The counting of the references is right as long as no window is hit, for any
\* number of threads, proxies and calls: the object has exactly the references of
\* its process, of the peer and of the jobs, and every reference registered for
\* the peer is owed or was lost with a late answer (RegisterUnknown,
\* UnregisterUnknown, Release, Complete, DeleteChannel, Element).
THEOREM AccountHolds == Spec => []Account
  <1>1. AccountInv => Account
    BY DEF AccountInv
  <1> QED BY <1>1, AccountInvAlways, PTL

-----------------------------------------------------------------------------
(* An object that is returned: no window is hit while the channel is open.  *)

\* A step of an object that is returned hits no window.
LEMMA ReturnedSoundStep ==
    ASSUME AccountInv, ReturnedSound, [Next]_vars
    PROVE  ReturnedSound'
  <1> USE DEF AccountInv
  <1> SUFFICES ASSUME setup.role = "service", link' = "open", setup' = setup
               PROVE  slips' = {}
    BY SlipsGrow DEF ReturnedSound
  <1>1. link = "open"
    BY OpensNever
  <1>2. slips = {} /\ Sound
    BY <1>1 DEF ReturnedSound, Sound
  <1>3. inbound = NoInbound /\ inbound.at = "none" /\ offerer = "idle"
    BY DEF Base, ServiceInv, NoInbound
  <1>4. CASE slips' = slips
    BY <1>2, <1>4
  <1>5. ASSUME NEW u \in Users, UserNext(u)
        PROVE  slips' = {}
    <2>1. CASE Drop(u)
      <3>1. slips' = slips \/ \E p : slips' = slips \cup Gap(p)
        BY <2>1 DEF Drop
      <3>2. \A p : Gap(p) = {}
        BY <1>3 DEF Gap
      <3> QED BY <1>2, <3>1, <3>2
    <2>2. CASE ~ Drop(u)
      BY <1>2, <1>5, <2>2 DEF UserNext, Ask, Return, Obtain, AskFails, Copy, TakeKept,
         SendRelease, Released, ReleaseFails, TimedOut, Shutdown, Leave
    <2> QED BY <2>1, <2>2
  <1>6. ASSUME NEW c \in Calls, CallNext(c)
        PROVE  slips' = {}
    <2>1. CASE HandleRelease(c)
      <3>1. /\ call[c].kind = "release" /\ call[c].stage = "handling"
            /\ slips' = slips \cup IF registered < call[c].refs THEN {"unregistered"} ELSE {}
        BY <2>1 DEF HandleRelease
      <3>2. OnItsWay(c) = call[c].refs
        BY <3>1 DEF OnItsWay
      <3>3. /\ Way \in [Calls -> Nat] /\ Way[c] = OnItsWay(c)
        BY WayType DEF Base
      <3>4. Sent >= call[c].refs
        BY <3>2, <3>3, CallsFinite, TotalTwo DEF Sent
      <3>5. Balanced
        BY <1>1, <1>2, AccountParts
      <3>6. One(inbound.cached = "addref") = 0
        BY <1>3 DEF One, NoInbound
      <3>7. /\ registered \in Nat /\ lost \in Nat /\ call[c].refs \in Nat /\ ToTheOwner \in Nat
            /\ Debt \in Nat /\ Sent \in Nat /\ Cardinality(Returned) \in Nat
        BY OwnerTypesOpen, CallType, DebtNat, ReturnedNat DEF Base, ToTheOwner, One
      <3>8. registered = Debt + Sent + Cardinality(Returned) + ToTheOwner + lost
        BY <3>5, <3>6, <3>7 DEF Balanced
      <3>9. ~ (registered < call[c].refs)
        BY <3>4, <3>7, <3>8
      <3> QED BY <1>2, <3>1, <3>9
    <2>2. CASE HandleGet(c)
      BY <1>1, <1>2, <2>2 DEF HandleGet
    <2>3. CASE Receive(c) \/ Begin(c) \/ Unexpected(c) \/ Mistaken(c)
      BY <1>2, <2>3 DEF Receive, Begin, Unexpected, Mistaken
    <2> QED BY <1>6, <2>1, <2>2, <2>3 DEF CallNext
  <1>7. CASE InboundNext
    <2>1. ~ OfferTimedOut
      BY <1>3 DEF OfferTimedOut
    <2> QED BY <1>2, <1>7, <2>1 DEF InboundNext, Offer, OfferShutdown, OfferFails, BeginOffer,
         Unmarshal, Keep, LetGo, CompleteRelease, CompleteMode, Accept, Unheard
  <1>8. CASE UNCHANGED vars \/ Clear \/ OwnerDrop \/ Close \/ Closed
    BY <1>2, <1>8 DEF vars, Clear, OwnerDrop, Close, Closed
  <1>9. CASE \E p \in Proxies : Dangling(p)
    <2>1. PICK p \in Proxies : Dangling(p)
      BY <1>9
    <2>2. link = "deleted"
      BY <2>1, DanglingIs DEF Base
    <2> QED BY <1>1, <2>2
  <1> QED BY <1>5, <1>6, <1>7, <1>8, <1>9 DEF Next

\* Whatever calls are given up and whichever call takes their answers: while the
\* channel is open a RELEASE finds the references of an object that is returned
\* registered, for any number of threads, proxies and calls.
THEOREM ReturnedSoundHolds == Spec => []ReturnedSound
  <1>1. Init => ReturnedSound
    BY DEF Init, ReturnedSound
  <1>2. AccountInv /\ ReturnedSound /\ [Next]_vars => ReturnedSound'
    BY ReturnedSoundStep
  <1> QED BY <1>1, <1>2, AccountInvAlways, PTL DEF Spec

-----------------------------------------------------------------------------
(* The counting implements SharedObject.                                    *)

Remote == {u \in Users : user[u].at = "holds"} \cup (IF kept = None THEN {} ELSE {"sink"})
Alive == count > 0

\* Without the process of the object there is no offer, and what is registered is
\* owed, on its way or lost.
LEMMA RegisteredIs ==
    ASSUME AccountInv, Sound, link = "open", ~ own
    PROVE  /\ inbound = NoInbound
           /\ registered \in Nat /\ Debt \in Nat /\ Sent \in Nat /\ Cardinality(Returned) \in Nat
           /\ registered >= Debt /\ registered >= Sent /\ registered >= Cardinality(Returned)
  <1> USE DEF AccountInv
  <1>1. inbound = NoInbound
    BY DEF Base, OfferInv, Sound
  <1>2. One(inbound.cached = "addref") = 0
    BY <1>1 DEF One, NoInbound
  <1>3. /\ registered \in Nat /\ lost \in Nat /\ ToTheOwner \in Nat
        /\ Debt \in Nat /\ Sent \in Nat /\ Cardinality(Returned) \in Nat
    BY OwnerTypesOpen, DebtNat, ReturnedNat DEF Base, ToTheOwner, One
  <1>4. registered = Debt + Sent + Cardinality(Returned) + ToTheOwner + lost
    <2>1. Balanced
      BY AccountParts
    <2> QED BY <1>2, <1>3, <2>1 DEF Balanced
  <1> QED BY <1>1, <1>3, <1>4

\* As long as anybody refers to the object it is counted: by its own process, or
\* by the reference that is registered for the proxy.
LEMMA CountedAlive ==
    ASSUME AccountInv, Sound
    PROVE  /\ count \in Nat
           /\ own => count > 0
           /\ registered >= 1 => count > 0
  <1>1. /\ CountIs /\ count \in Nat /\ registered \in Nat /\ held \in Nat
    BY AccountParts, OwnerTypesOpen DEF AccountInv, Base
  <1> QED BY <1>1 DEF CountIs, One

\* An object that somebody refers to over the open channel has a count.
LEMMA NeededAlive ==
    ASSUME AccountInv, Sound, link = "open", Remote # {}
    PROVE  count > 0
  <1> SUFFICES ASSUME ~ own
               PROVE  registered >= 1
    BY CountedAlive
  <1> USE DEF AccountInv
  <1>1. PICK p \in Proxies :
          kept = p \/ \E u \in Users : user[u].at = "holds" /\ user[u].p = p
    <2>1. CASE kept # None
      BY <2>1 DEF Base, LocalInv, LocalTypes
    <2>2. CASE kept = None
      <3>1. PICK u \in Users : user[u].at = "holds"
        BY <2>2 DEF Remote
      <3>2. user[u].p \in Proxies
        BY <3>1 DEF Base, LocalInv, LocalTypes, Threads, PlaceInv
      <3> QED BY <3>1, <3>2
    <2> QED BY <2>1, <2>2
  <1>2. Live(p) /\ proxy[p].count >= 2
    BY <1>1, ReferredBy DEF Base
  <1>3. proxy[p].channel /\ proxy[p].remote >= 1 /\ proxy[p].remote \in Nat
    BY <1>2, ProxyType DEF Base, LocalInv, ProxyInv, OnChannel, Live
  <1>4. inbound = NoInbound /\ registered >= Debt /\ registered \in Nat /\ Debt \in Nat
    BY RegisteredIs
  <1>5. proxy[p].mode = {}
    <2>1. inbound.p # p
      BY <1>4, ProxyNumbers DEF NoInbound
    <2> QED BY <2>1, RoleIs DEF Base, ServiceInv, ModeInv
  <1>6. Owed(p) = proxy[p].remote
    <2>1. ~ Told(p)
      BY <1>2, NotTold
    <2> QED BY <1>3, <1>5, <2>1 DEF Owed, One
  <1>7. Owe \in [Proxies -> Nat] /\ Owe[p] = Owed(p)
    BY OweType DEF Base
  <1>8. Debt >= Owe[p]
    BY <1>7, ProxiesFinite, TotalTwo DEF Debt
  <1> QED BY <1>3, <1>4, <1>6, <1>7, <1>8

\* What has been returned and is not yet a proxy is registered.
LEMMA ReturnedAlive ==
    ASSUME AccountInv, Sound, link = "open", NEW u \in Users, user[u].at = "returned"
    PROVE  count > 0
  <1> SUFFICES ASSUME ~ own
               PROVE  registered >= 1
    BY CountedAlive
  <1>1. Cardinality(Returned) >= 1 /\ Cardinality(Returned) \in Nat
    <2>1. Returned \in SUBSET Users /\ u \in Returned
      BY DEF Returned
    <2>2. IsFiniteSet(Returned) /\ Returned # {}
      BY <2>1, UserAssumption, FS_Subset
    <2>3. Cardinality(Returned) # 0 /\ Cardinality(Returned) \in Nat
      BY <2>2, FS_EmptySet, FS_CardinalityType
    <2> QED BY <2>3
  <1> QED BY <1>1, RegisteredIs

\* ... and so is what a RELEASE on its way takes back.
LEMMA ReleaseAlive ==
    ASSUME AccountInv, Sound, link = "open", NEW c \in Calls,
           call[c].kind = "release", call[c].stage # "answered"
    PROVE  count > 0
  <1> SUFFICES ASSUME ~ own
               PROVE  registered >= 1
    BY CountedAlive
  <1>1. call[c].refs \in Nat /\ call[c].refs >= 1
    <2>1. MessageIs(call[c], link, user)
      BY CallInvOpen DEF AccountInv, Base
    <2> QED BY <2>1, CallType DEF MessageIs, AccountInv, Base
  <1>2. OnItsWay(c) = call[c].refs
    BY DEF OnItsWay
  <1>3. Way \in [Calls -> Nat] /\ Way[c] = OnItsWay(c)
    BY WayType DEF AccountInv, Base
  <1>4. Sent >= Way[c]
    BY <1>3, CallsFinite, TotalTwo DEF Sent
  <1>5. registered >= Sent /\ registered \in Nat /\ Sent \in Nat
    BY RegisteredIs
  <1> QED BY <1>1, <1>2, <1>3, <1>4, <1>5

Counted ==
    Sound => /\ own => count > 0
             /\ link = "open" /\ Remote # {} => count > 0

\* What the refinement uses of the account ...
LEMMA CountedIs == AccountInv => Counted
  BY CountedAlive, NeededAlive DEF Counted

\* ... and in the next state.
LEMMA CountedNext == AccountInv' => Counted'
  BY CountedIs, PTL

\* What SharedObject sees of a step before any window is hit.
Seen == UNCHANGED <<Alive, own, Remote, link = "open">>

\* A step that SharedObject can see is one of its steps, until a window is hit.
LEMMA SeenIs ==
    ASSUME Sound, Sound', Shared!Kept \/ Seen
    PROVE  [Shared!Next]_(Shared!sharedVars)
  <1>1. CASE Shared!Kept
    BY <1>1 DEF Shared!Next
  <1>2. CASE Seen
    <2>1. Sound = TRUE /\ Sound' = TRUE
      BY DEF Sound
    <2> QED BY <1>2, <2>1 DEF Seen, Shared!sharedVars, Alive, Remote
  <1> QED BY <1>1, <1>2

\* A step that is not one of the user's references: the object is as before, or
\* is destroyed, nobody referring to it.
LEMMA Unseen ==
    ASSUME AccountInv', Sound', own' = own, Remote' = Remote, link' = "open" <=> link = "open",
           Alive' => Alive
    PROVE  Shared!Kept \/ Seen
  <1>1. Counted'
    BY CountedNext
  <1>2. CASE Alive => Alive'
    <2>1. Alive' = Alive /\ (link' = "open") = (link = "open")
      BY <1>2 DEF Alive
    <2> QED BY <2>1 DEF Seen
  <1>3. CASE Alive /\ ~ Alive'
    <2>1. ~ own' /\ ~ (link' = "open" /\ Remote' # {})
      BY <1>1, <1>3 DEF Counted, Alive
    <2>2. ~ own /\ ~ (link = "open" /\ Remote # {}) /\ (link' = "open") = (link = "open")
      BY <2>1
    <2>3. Shared!Destroy
      BY <1>3, <2>2 DEF Shared!Destroy, Shared!Needed, Alive, Remote
    <2> QED BY <2>3 DEF Shared!Kept
  <1> QED BY <1>2, <1>3

\* Nothing that counts is touched.
LEMMA SameCount ==
    ASSUME count' = count
    PROVE  Alive' = Alive
  BY DEF Alive

\* Only the state of a thread in the middle of a call, or of a release, changes.
LEMMA RemoteSame ==
    ASSUME kept' = kept,
           \A v \in Users : user'[v].at = "holds" <=> user[v].at = "holds"
    PROVE  Remote' = Remote
  BY DEF Remote

\* A thread begins to refer to the object.
LEMMA ReferStep ==
    ASSUME NEW h \in Users \cup {"sink"}, h \notin Remote, Remote' = Remote \cup {h},
           UNCHANGED <<count, own, link>>, link = "open" => count > 0
    PROVE  Shared!Kept
  <1>1. Shared!Refer(h)
    BY DEF Shared!Refer, Remote
  <1> QED BY <1>1 DEF Shared!Kept

\* ... or does no longer.
LEMMA DropStep ==
    ASSUME NEW h \in Users \cup {"sink"}, h \in Remote, Remote' = Remote \ {h},
           UNCHANGED <<count, own, link>>
    PROVE  Shared!Kept
  <1>1. Shared!Drop(h)
    BY DEF Shared!Drop, Remote
  <1> QED BY <1>1 DEF Shared!Kept

\* The channel closes.
LEMMA DisconnectStep ==
    ASSUME link = "open", link' # "open", Remote' = Remote, UNCHANGED <<count, own>>
    PROVE  Shared!Kept
  <1>1. Shared!Disconnect
    BY DEF Shared!Disconnect, Remote
  <1> QED BY <1>1 DEF Shared!Kept

\* The two kinds of those who refer to it.
LEMMA RemoteIs ==
    /\ "sink" \notin Users
    /\ \A u \in Users : u \in Remote <=> user[u].at = "holds"
    /\ "sink" \in Remote <=> kept # None
    /\ \A h : h \in Remote => h \in Users \cup {"sink"}
  BY UserAssumption DEF Remote

\* A thread that neither takes a reference nor drops one.
LEMMA UserElsewhere ==
    ASSUME AccountInv, NEW u \in Users,
           \/ Ask(u) \/ Return(u) \/ AskFails(u) \/ SendRelease(u) \/ Released(u)
           \/ ReleaseFails(u) \/ TimedOut(u) \/ Shutdown(u) \/ Leave(u)
    PROVE  Remote' = Remote
  <1> USE DEF AccountInv, Base, LocalInv
  <1>1. kept' = kept /\ user[u].at # "holds"
    BY DEF Ask, Return, AskFails, SendRelease, Released, ReleaseFails, TimedOut, Shutdown, Leave
  <1>2. \/ user' = [user EXCEPT ![u] = Idle]
        \/ \E a \in {"idle", "asking", "returned", "telling", "shutting", "leaving"} :
             user' = [user EXCEPT ![u].at = a]
    <2>1. CASE Ask(u) \/ SendRelease(u) \/ Released(u) \/ ReleaseFails(u)
      BY <2>1 DEF Ask, SendRelease, Released, ReleaseFails
    <2>2. CASE Return(u)
      <3>1. PICK c \in Calls :
              user' = [user EXCEPT ![u].at = IF call[c].refs = 1 THEN "returned" ELSE "idle"]
        BY <2>2 DEF Return
      <3>2. PICK a \in {"idle", "returned"} : a = IF call[c].refs = 1 THEN "returned" ELSE "idle"
        OBVIOUS
      <3> QED BY <3>1, <3>2
    <2>3. CASE TimedOut(u)
      BY <2>3 DEF TimedOut
    <2>4. CASE AskFails(u) \/ Shutdown(u) \/ Leave(u)
      BY <2>4 DEF AskFails, Shutdown, Leave
    <2> QED BY <2>1, <2>2, <2>3, <2>4
  <1>3. OnlyUser(u) /\ user'[u].at # "holds"
    <2>1. CASE user' = [user EXCEPT ![u] = Idle]
      BY <2>1, WorksOnNone
    <2>2. CASE \E a \in {"idle", "asking", "returned", "telling", "shutting", "leaving"} :
                 user' = [user EXCEPT ![u].at = a]
      <3>1. PICK a \in {"idle", "asking", "returned", "telling", "shutting", "leaving"} :
              user' = [user EXCEPT ![u].at = a]
        BY <2>2
      <3> QED BY <3>1, UserAt
    <2> QED BY <1>2, <2>1, <2>2
  <1> QED BY <1>1, <1>3, RemoteSame DEF OnlyUser

\* The steps of threads are steps of SharedObject ...
LEMMA SharedUser ==
    ASSUME AccountInv, AccountInv', Sound, Sound', NEW u \in Users, UserNext(u)
    PROVE  Shared!Kept \/ Seen
  <1>1. UNCHANGED <<own, count>>
    BY DEF UserNext, Ask, Return, Obtain, AskFails, Copy, TakeKept, Drop, SendRelease,
           Released, ReleaseFails, TimedOut, Shutdown, Leave, ownerVars
  <1>2. CASE ~ Shutdown(u)
    <2>1. link' = link
      BY <1>2 DEF UserNext, Ask, Return, Obtain, AskFails, Copy, TakeKept, Drop, SendRelease,
                  Released, ReleaseFails, TimedOut, Leave
    <2>2. CASE Ask(u) \/ Return(u) \/ AskFails(u) \/ SendRelease(u) \/ Released(u)
               \/ ReleaseFails(u) \/ TimedOut(u) \/ Leave(u)
      <3>1. Remote' = Remote
        BY <2>2, UserElsewhere
      <3> QED BY <1>1, <2>1, <3>1, SameCount, Unseen
    <2>3. CASE Obtain(u) \/ Copy(u)
      <3>1. /\ user[u].at # "holds" /\ kept' = kept
            /\ \E p \in Proxies : user' = [user EXCEPT ![u] = [at |-> "holds", p |-> p]]
        <4>1. Possible => Chosen \in Proxies
          BY ChosenProxy DEF AccountInv, Base
        <4> QED BY <2>3, <4>1 DEF Obtain, Copy
      <3>2. OnlyUser(u) /\ user'[u].at = "holds"
        <4>1. PICK p \in Proxies : user' = [user EXCEPT ![u] = [at |-> "holds", p |-> p]]
          BY <3>1
        <4> QED BY <4>1, HoldsOne DEF AccountInv, Base, LocalInv
      <3>3. u \notin Remote /\ Remote' = Remote \cup {u}
        <4>1. {v \in Users : user'[v].at = "holds"} = {v \in Users : user[v].at = "holds"} \cup {u}
          BY <3>2 DEF OnlyUser
        <4>2. Remote' = Remote \cup {u}
          BY <3>1, <4>1 DEF Remote
        <4> QED BY <3>1, <4>2, RemoteIs
      <3>4. link = "open" => count > 0
        <4>1. CASE Obtain(u)
          BY <4>1, ReturnedAlive DEF Obtain
        <4>2. CASE Copy(u)
          <5>1. PICK p \in Proxies : p = kept \/ \E v \in Users : user[v] = [at |-> "holds", p |-> p]
            BY <4>2 DEF Copy
          <5>2. Remote # {}
            <6>1. CASE p = kept
              BY <6>1, RemoteIs, ProxyNumbers
            <6>2. CASE p # kept
              <7>1. PICK v \in Users : user[v] = [at |-> "holds", p |-> p]
                BY <5>1, <6>2
              <7>2. user[v].at = "holds"
                BY <7>1
              <7> QED BY <7>2, RemoteIs
            <6> QED BY <6>1, <6>2
          <5> QED BY <5>2, NeededAlive
        <4> QED BY <2>3, <4>1, <4>2
      <3> QED BY <1>1, <2>1, <3>3, <3>4, ReferStep
    <2>4. CASE TakeKept(u)
      <3>1. PICK p \in Proxies : p = kept
        BY <2>4 DEF TakeKept, AccountInv, Base, LocalInv, LocalTypes
      <3>2. /\ user[u].at = "idle" /\ kept # None /\ kept' = None
            /\ user' = [user EXCEPT ![u] = [at |-> "holds", p |-> p]]
        BY <2>4, <3>1 DEF TakeKept
      <3>3. OnlyUser(u) /\ user'[u].at = "holds"
        BY <3>2, HoldsOne DEF AccountInv, Base, LocalInv
      <3>4. /\ "sink" \in Remote /\ u \notin Remote /\ u # "sink"
            /\ Remote' = (Remote \ {"sink"}) \cup {u}
        <4>1. "sink" \in Remote /\ u \notin Remote /\ u # "sink" /\ "sink" \notin Users
          BY <3>2, RemoteIs
        <4>2. Remote' = {v \in Users : user'[v].at = "holds"}
          BY <3>2 DEF Remote
        <4>3. Remote \ {"sink"} = {v \in Users : user[v].at = "holds"}
          BY <3>2, <4>1 DEF Remote
        <4>4. {v \in Users : user'[v].at = "holds"} = {v \in Users : user[v].at = "holds"} \cup {u}
          BY <3>3 DEF OnlyUser
        <4> QED BY <4>1, <4>2, <4>3, <4>4
      <3>5. Shared!HandOver("sink", u)
        BY <1>1, <2>1, <3>4 DEF Shared!HandOver, Remote
      <3> QED BY <3>5 DEF Shared!Kept
    <2>5. CASE Drop(u)
      <3>1. user[u].at = "holds" /\ kept' = kept
        BY <2>5 DEF Drop
      <3>2. PICK p \in Proxies : p = user[u].p
        BY <3>1 DEF AccountInv, Base, LocalInv, PlaceInv, LocalTypes, Threads
      <3>3. OnlyUser(u) /\ user'[u].at # "holds"
        <4>1. /\ OnlyUser(u)
              /\ user'[u] = Idle \/ user'[u].at = "releasing" \/ user'[u].at = "leaving"
          BY <2>5, <3>2, DropIs DEF AccountInv, Base
        <4> QED BY <4>1 DEF Idle
      <3>4. u \in Remote /\ Remote' = Remote \ {u}
        <4>1. u # "sink" /\ u \in Remote
          BY <3>1, RemoteIs
        <4> QED BY <3>1, <3>3, <4>1 DEF Remote, OnlyUser
      <3> QED BY <1>1, <2>1, <3>4, DropStep
    <2> QED BY <1>2, <2>2, <2>3, <2>4, <2>5 DEF UserNext
  <1>3. CASE Shutdown(u)
    <2>1. Remote' = Remote
      BY <1>3, UserElsewhere
    <2>2. (link = "open" /\ Closing) \/ UNCHANGED <<link, call, inbound>>
      BY <1>3, ShutIs DEF Shutdown
    <2>3. CASE link = "open" /\ Closing
      <3>1. link' # "open"
        BY <2>3 DEF Closing
      <3> QED BY <1>1, <2>1, <2>3, <3>1, DisconnectStep
    <2>4. CASE link' = link
      BY <1>1, <2>1, <2>4, SameCount, Unseen
    <2> QED BY <2>2, <2>3, <2>4
  <1> QED BY <1>2, <1>3

\* ... those of calls ...
LEMMA SharedCall ==
    ASSUME AccountInv, AccountInv', Sound, Sound', NEW c \in Calls, CallNext(c)
    PROVE  Shared!Kept \/ Seen
  <1>1. UNCHANGED <<user, kept, link, own>> /\ Remote' = Remote
    BY DEF CallNext, Receive, Begin, HandleGet, HandleRelease, Unexpected, Mistaken, ownerVars, Remote
  <1>2. count \in Nat /\ (own => count > 0) /\ call[c].refs \in Nat
    BY CountedAlive, CallType DEF AccountInv, Base
  <1>3. Alive' => Alive
    <2>1. CASE Receive(c)
      <3>1. CASE call[c].kind = "release"
        BY <2>1, <3>1, ReleaseAlive DEF Receive, Alive
      <3>2. CASE call[c].kind # "release"
        BY <2>1, <3>2 DEF Receive, Alive
      <3> QED BY <3>1, <3>2
    <2>2. CASE Begin(c) \/ Unexpected(c) \/ Mistaken(c)
      BY <2>2 DEF Begin, Unexpected, Mistaken, ownerVars, Alive
    <2>3. CASE HandleGet(c)
      BY <1>2, <2>3 DEF HandleGet, Alive
    <2>4. CASE HandleRelease(c)
      <3>1. count' = Less(count, call[c].refs)
        BY <2>4 DEF HandleRelease
      <3> QED BY <1>2, <3>1 DEF Less, Alive
    <2> QED BY <2>1, <2>2, <2>3, <2>4 DEF CallNext
  <1> QED BY <1>1, <1>3, Unseen

\* ... those of offers ...
LEMMA SharedInbound ==
    ASSUME AccountInv, AccountInv', Sound, Sound', InboundNext
    PROVE  Shared!Kept \/ Seen
  <1> USE DEF AccountInv, Base
  <1>1. ~ OfferShutdown
    BY DEF OfferShutdown, OfferInv, Sound
  <1>2. UNCHANGED <<user, link, own>>
    BY <1>1 DEF InboundNext, Offer, OfferTimedOut, OfferFails, BeginOffer, Unmarshal, Keep, LetGo,
       CompleteRelease, CompleteMode, Accept, Unheard, ownerVars
  <1>3. CASE Offer \/ OfferTimedOut \/ OfferFails \/ BeginOffer \/ Unmarshal \/ CompleteRelease
             \/ CompleteMode \/ Unheard
    <2>1. kept' = kept /\ count' = count
      BY <1>3 DEF Offer, OfferTimedOut, OfferFails, BeginOffer, Unmarshal, CompleteRelease,
         CompleteMode, Unheard, ownerVars
    <2>2. Remote' = Remote
      BY <1>2, <2>1 DEF Remote
    <2> QED BY <1>2, <2>1, <2>2, SameCount, Unseen
  <1>4. CASE Keep
    <2>1. kept = None /\ kept' = inbound.p /\ inbound.p # None /\ inbound # NoInbound
          /\ count' = count
      BY <1>4 DEF Keep, LocalInv, PlaceInv, NoInbound, ownerVars
    <2>2. "sink" \notin Remote /\ Remote' = Remote \cup {"sink"}
      <3>1. "sink" \notin Remote
        BY <2>1, RemoteIs
      <3> QED BY <1>2, <2>1, <3>1 DEF Remote
    <2>3. link = "open" => count > 0
      BY <2>1, CountedAlive, RegisteredIs
    <2> QED BY <1>2, <2>1, <2>2, <2>3, ReferStep
  <1>5. CASE LetGo
    <2>1. kept # None /\ kept' = None /\ count' = count
      BY <1>5 DEF LetGo, LocalInv, PlaceInv, ownerVars
    <2>2. "sink" \in Remote /\ Remote' = Remote \ {"sink"}
      <3>1. "sink" \in Remote /\ "sink" \notin Users
        BY <2>1, RemoteIs
      <3> QED BY <1>2, <2>1, <3>1 DEF Remote
    <2> QED BY <1>2, <2>1, <2>2, DropStep
  <1>6. CASE Accept
    <2>1. kept' = kept /\ own
      BY <1>6 DEF Accept, OfferInv
    <2>2. Remote' = Remote
      BY <1>2, <2>1 DEF Remote
    <2>3. Alive
      BY <2>1, CountedAlive DEF Alive
    <2> QED BY <1>2, <2>2, <2>3, Unseen
  <1> QED BY <1>1, <1>3, <1>4, <1>5, <1>6 DEF InboundNext

\* ... and the others.
LEMMA SharedRest ==
    ASSUME AccountInv, AccountInv', Sound, Sound',
           UNCHANGED vars \/ Clear \/ OwnerDrop \/ Close \/ Closed \/ \E p \in Proxies : Dangling(p)
    PROVE  Shared!Kept \/ Seen
  <1>1. count \in Nat /\ (own => count > 0)
    BY CountedAlive
  <1>2. CASE UNCHANGED vars
    <2>1. Remote' = Remote /\ Alive' = Alive /\ UNCHANGED <<own, link>>
      BY <1>2 DEF vars, Remote, Alive
    <2> QED BY <2>1, Unseen
  <1>3. CASE Clear
    <2>1. UNCHANGED <<own, link, user, kept>> /\ count' = Less(count, 1)
      BY <1>3 DEF Clear
    <2>2. (Alive' => Alive) /\ Remote' = Remote
      BY <1>1, <2>1 DEF Less, Alive, Remote
    <2> QED BY <2>1, <2>2, Unseen
  <1>4. CASE OwnerDrop
    <2>1. own /\ own' = FALSE /\ Alive /\ UNCHANGED <<link, user, kept>>
      BY <1>1, <1>4 DEF OwnerDrop, Alive
    <2>2. Remote' = Remote
      BY <2>1 DEF Remote
    <2>3. link = "open" /\ Remote # {} => Alive'
      BY <2>1, <2>2, CountedNext DEF Counted, Alive
    <2>4. Alive' \in IF link = "open" /\ Remote # {} THEN {Alive} ELSE {Alive, FALSE}
      <3>1. Alive = TRUE /\ (Alive' = TRUE \/ Alive' = FALSE)
        BY <2>1 DEF Alive
      <3> QED BY <2>3, <3>1
    <2>5. Shared!Forget
      BY <2>1, <2>2, <2>4 DEF Shared!Forget, Alive, Remote
    <2> QED BY <2>5 DEF Shared!Kept
  <1>5. CASE Close
    <2>1. link = "open" /\ link' # "open" /\ UNCHANGED <<count, own, user, kept>>
      BY <1>5 DEF Close, Closing, ownerVars
    <2>2. Remote' = Remote
      BY <2>1 DEF Remote
    <2> QED BY <2>1, <2>2, DisconnectStep
  <1>6. CASE Closed
    <2>1. link # "open" /\ link' # "open" /\ UNCHANGED <<own, user, kept>>
      BY <1>6 DEF Closed
    <2>2. count' = Less(count, registered) \/ count' = count
      BY <1>6 DEF Closed
    <2>3. (Alive' => Alive) /\ Remote' = Remote
      <3>1. registered \in Nat
        BY OwnerTypesOpen DEF AccountInv, Base
      <3> QED BY <1>1, <2>1, <2>2, <3>1 DEF Less, Alive, Remote
    <2> QED BY <2>1, <2>3, Unseen
  <1>7. CASE \E p \in Proxies : Dangling(p)
    <2>1. PICK p \in Proxies : Dangling(p)
      BY <1>7
    <2>2. UNCHANGED <<user, own, link, count>> /\ kept' = IF kept = p THEN None ELSE kept
      BY <2>1 DEF Dangling, ownerVars
    <2>3. CASE kept = p
      <3>1. kept # None /\ kept' = None
        BY <2>2, <2>3, ProxyNumbers
      <3>2. "sink" \in Remote /\ Remote' = Remote \ {"sink"}
        <4>1. "sink" \in Remote /\ "sink" \notin Users
          BY <3>1, RemoteIs
        <4> QED BY <2>2, <3>1, <4>1 DEF Remote
      <3> QED BY <2>2, <3>2, DropStep
    <2>4. CASE kept # p
      <3>1. Remote' = Remote
        BY <2>2, <2>4 DEF Remote
      <3> QED BY <2>2, <3>1, SameCount, Unseen
    <2> QED BY <2>3, <2>4
  <1> QED BY <1>2, <1>3, <1>4, <1>5, <1>6, <1>7

\* The initial states are initial states of SharedObject ...
LEMMA SharedInit ==
    ASSUME Init
    PROVE  Shared!Init
  <1>1. Sound \in BOOLEAN
    BY DEF Sound
  <1> QED BY <1>1 DEF Init, Shared!Init, Idle, None

\* ... and every step is a step of it or a stutter.
LEMMA SharedNext ==
    ASSUME AccountInv, AccountInv', [Next]_vars
    PROVE  [Shared!Next]_(Shared!sharedVars)
  <1>1. CASE ~ Sound'
    BY <1>1 DEF Shared!Next
  <1>2. CASE Sound'
    <2>1. Sound
      BY <1>2, SoundBefore
    <2>2. Shared!Kept \/ Seen
      BY <1>2, <2>1, SharedUser, SharedCall, SharedInbound, SharedRest DEF Next
    <2> QED BY <1>2, <2>1, <2>2, SeenIs
  <1> QED BY <1>1, <1>2

\* The counting in the two administrations, with its proxies, messages and jobs,
\* implements what SharedObject says: the object lives as long as anybody refers
\* to it, in its own process or over the open channel, until a window is hit.
THEOREM Refinement == Spec => ImplementsSharing
  <1>1. Init => Shared!Init
    BY SharedInit
  <1>2. AccountInv /\ AccountInv' /\ [Next]_vars => [Shared!Next]_(Shared!sharedVars)
    BY SharedNext
  <1>3. Spec => Shared!Spec
    BY <1>1, <1>2, AccountInvAlways, PTL DEF Spec, Shared!Spec
  <1> QED BY <1>3 DEF ImplementsSharing
=============================================================================
