------------------------ MODULE MessageBuffer_proofs ------------------------
(***************************************************************************)
(* Machine-checked theorems about the message buffer, for every size, every*)
(* set of lengths and any number of entries: it is a queue of whole        *)
(* messages, and the writer drops none without need.                       *)
(***************************************************************************)
EXTENDS MessageBuffer, TLAPS

\* The reader knows every type of message and has room for the longest one.
\* Otherwise it flushes, or moves the tail into the middle of an entry.
Assumed == Unknown = {} /\ \A n \in Lengths : n <= HeaderSize + ReadSize

-----------------------------------------------------------------------------
(* Rows of entries.  What lies between tail and head is a function f from   *)
(* 0 .. n - 1 to bytes, the byte at the tail first.                         *)

\* Where the entry begins that the byte at p is of.
Begin(f, p) == p - f[p].at

\* Whole entries, one behind the other, with increasing numbers up to last.
Row(f, n, last) ==
    /\ \A p \in 0..(n - 1) :
          /\ f[p].entry \in 1..last /\ f[p].length \in Lengths
          /\ f[p].at \in 0..p /\ f[p].at < f[p].length
          /\ Begin(f, p) + f[p].length <= n
    /\ \A p, q \in 0..(n - 1) :
          Begin(f, p) <= q /\ q < Begin(f, p) + f[p].length =>
             f[q] = [entry |-> f[p].entry, at |-> q - Begin(f, p), length |-> f[p].length]
    /\ \A p, q \in 0..(n - 1) : p <= q => f[p].entry <= f[q].entry
    /\ \A p, q \in 0..(n - 1) : f[p].entry = f[q].entry => Begin(f, p) = Begin(f, q)

\* An entry begins at d, or the row ends there.
Boundary(f, n, d) == d = n \/ (d \in 0..(n - 1) /\ f[d].at = 0)

\* The numbers of the entries of a row.
Entries(f, n) == {f[p].entry : p \in {q \in 0..(n - 1) : f[q].at = 0}}

\* The assumptions on the constants, as the proofs use them.
LEMMA LengthFacts ==
    /\ Size \in Nat \ {0} /\ ReadSize \in Nat \ {0} /\ MaxEntries \in Nat /\ HeaderSize = 2
    /\ \A n \in Lengths : n \in Nat /\ n > 2 /\ n < Size
  BY SizeAssumption DEF HeaderSize

\* Behind an entry the next one begins, or the row ends.
LEMMA RowNext ==
    ASSUME NEW f, NEW n \in Nat, NEW last \in Nat, Row(f, n, last),
           NEW d \in 0..(n - 1), f[d].at = 0
    PROVE  LET e == d + f[d].length
           IN  e \in Nat /\ e > d /\ e <= n /\ Boundary(f, n, e)
  <1>. DEFINE e == d + f[d].length
  <1>1. /\ f[d].length \in Nat /\ f[d].length > 2 /\ e \in Nat /\ e > d /\ e <= n
        /\ Begin(f, d) = d
    BY LengthFacts DEF Row, Begin
  <1>2. ASSUME e < n, f[e].at # 0 PROVE FALSE
    <2>1. /\ e \in 0..(n - 1) /\ e - 1 \in 0..(n - 1)
          /\ f[e].at \in 0..e /\ f[e].at < f[e].length /\ f[e].length \in Nat
      BY <1>1, <1>2, LengthFacts DEF Row
    <2>2. f[e - 1] = [entry |-> f[d].entry, at |-> (e - 1) - d, length |-> f[d].length]
      BY <1>1, <2>1 DEF Row
    <2>3. Begin(f, e) <= e - 1 /\ e - 1 < Begin(f, e) + f[e].length
      BY <1>1, <1>2, <2>1 DEF Begin
    <2>4. f[e - 1] = [entry |-> f[e].entry, at |-> (e - 1) - Begin(f, e), length |-> f[e].length]
      BY <2>1, <2>3 DEF Row
    <2>5. f[e].length = f[d].length /\ f[e].entry = f[d].entry
      BY <2>2, <2>4
    <2>6. Begin(f, e) = d
      BY <1>1, <2>1, <2>5 DEF Row
    <2>. QED BY <1>1, <2>1, <2>5, <2>6 DEF Begin
  <1>. QED BY <1>1, <1>2 DEF Boundary

\* What is left when whole entries go is a row.
LEMMA RowDrop ==
    ASSUME NEW f, NEW n \in Nat, NEW last \in Nat, Row(f, n, last),
           NEW d \in 0..n, Boundary(f, n, d),
           NEW g, \A p \in 0..(n - d - 1) : g[p] = f[p + d]
    PROVE  /\ Row(g, n - d, last)
           /\ \A p \in 0..(n - d - 1) : Begin(g, p) = Begin(f, p + d) - d
  <1>1. \A p \in 0..(n - d - 1) : p + d \in 0..(n - 1) /\ d \in 0..(n - 1) /\ g[p] = f[p + d]
    OBVIOUS
  <1>2. ASSUME NEW p \in 0..(n - d - 1)
        PROVE  /\ f[p + d].at \in 0..p /\ f[p + d].length \in Nat
               /\ Begin(f, p + d) \in d..(p + d)
               /\ Begin(g, p) = Begin(f, p + d) - d
    <2>1. /\ f[p + d].at \in 0..(p + d) /\ f[p + d].at < f[p + d].length
          /\ f[p + d].length \in Nat /\ f[d].at = 0
      BY <1>1, LengthFacts DEF Row, Boundary
    <2>2. ASSUME f[p + d].at > p PROVE FALSE
      <3>1. Begin(f, p + d) <= d /\ d < Begin(f, p + d) + f[p + d].length
        BY <2>1, <2>2 DEF Begin
      <3>2. f[d] = [entry |-> f[p + d].entry, at |-> d - Begin(f, p + d),
                    length |-> f[p + d].length]
        BY <1>1, <3>1 DEF Row
      <3>. QED BY <2>1, <2>2, <3>2 DEF Begin
    <2>. QED BY <1>1, <2>1, <2>2 DEF Begin
  <1>3. ASSUME NEW p \in 0..(n - d - 1)
        PROVE  /\ g[p].entry \in 1..last /\ g[p].length \in Lengths
               /\ g[p].at \in 0..p /\ g[p].at < g[p].length
               /\ Begin(g, p) + g[p].length <= n - d
    <2>1. /\ f[p + d].entry \in 1..last /\ f[p + d].length \in Lengths
          /\ f[p + d].at < f[p + d].length
          /\ Begin(f, p + d) + f[p + d].length <= n
      BY <1>1 DEF Row
    <2>. QED BY <1>1, <1>2, <2>1
  <1>4. ASSUME NEW p \in 0..(n - d - 1), NEW q \in 0..(n - d - 1),
               Begin(g, p) <= q, q < Begin(g, p) + g[p].length
        PROVE  g[q] = [entry |-> g[p].entry, at |-> q - Begin(g, p), length |-> g[p].length]
    <2>1. Begin(f, p + d) <= q + d /\ q + d < Begin(f, p + d) + f[p + d].length
      BY <1>1, <1>2, <1>4
    <2>2. f[q + d] = [entry |-> f[p + d].entry, at |-> (q + d) - Begin(f, p + d),
                      length |-> f[p + d].length]
      BY <1>1, <2>1 DEF Row
    <2>3. (q + d) - Begin(f, p + d) = q - Begin(g, p)
      BY <1>2
    <2>. QED BY <1>1, <2>2, <2>3
  <1>5. ASSUME NEW p \in 0..(n - d - 1), NEW q \in 0..(n - d - 1)
        PROVE  /\ p <= q => g[p].entry <= g[q].entry
               /\ g[p].entry = g[q].entry => Begin(g, p) = Begin(g, q)
    <2>1. /\ p <= q => f[p + d].entry <= f[q + d].entry
          /\ f[p + d].entry = f[q + d].entry => Begin(f, p + d) = Begin(f, q + d)
      BY <1>1 DEF Row
    <2>. QED BY <1>1, <1>2, <2>1
  <1>. QED
    <2>. HIDE DEF Begin
    <2>. QED BY <1>2, <1>3, <1>4, <1>5 DEF Row

\* Those that go are the ones up to the entry that ends at d.
LEMMA EntriesDrop ==
    ASSUME NEW f, NEW n \in Nat, NEW last \in Nat, Row(f, n, last),
           NEW d \in 1..n, Boundary(f, n, d),
           NEW g, \A p \in 0..(n - d - 1) : g[p] = f[p + d]
    PROVE  LET k == f[d - 1].entry
           IN  k \in Entries(f, n) /\ Entries(g, n - d) = {e \in Entries(f, n) : e > k}
  <1>. DEFINE k == f[d - 1].entry
              b == Begin(f, d - 1)
  <1>1. /\ d - 1 \in 0..(n - 1) /\ f[d - 1].at \in 0..(d - 1) /\ f[d - 1].at < f[d - 1].length
        /\ f[d - 1].length \in Nat /\ k \in 1..last
    BY LengthFacts DEF Row
  <1>2. b \in 0..(d - 1) /\ f[b].at = 0 /\ f[b].entry = k
    <2>1. b \in 0..(n - 1) /\ b \in 0..(d - 1) /\ b < Begin(f, d - 1) + f[d - 1].length
      BY <1>1 DEF Begin
    <2>2. f[b] = [entry |-> k, at |-> b - Begin(f, d - 1), length |-> f[d - 1].length]
      BY <1>1, <2>1 DEF Row
    <2>. QED BY <2>1, <2>2
  <1>3. k \in Entries(f, n)
    BY <1>2 DEF Entries
  <1>4. ASSUME NEW p \in 0..(n - 1)
        PROVE  f[p].entry \in Nat /\ (f[p].entry > k <=> p >= d)
    <2>1. f[p].entry \in Nat
      BY DEF Row
    <2>2. CASE p >= d
      <3>1. k <= f[p].entry
        BY <1>1, <2>2 DEF Row
      <3>2. p - d \in 0..(n - d - 1) /\ d \in 0..n /\ (p - d) + d = p
        BY <2>2
      <3>3. Begin(g, p - d) = Begin(f, p) - d /\ Row(g, n - d, last)
        BY <3>2, RowDrop
      <3>4. Begin(f, p) >= d
        BY <3>2, <3>3 DEF Row, Begin
      <3>5. f[p].entry # k
        BY <1>1, <1>2, <3>4 DEF Row
      <3>. QED BY <1>1, <2>1, <2>2, <3>1, <3>5
    <2>3. CASE p < d
      <3>1. f[p].entry <= k
        BY <1>1, <2>3 DEF Row
      <3>. QED BY <1>1, <2>1, <2>3, <3>1
    <2>. QED BY <2>2, <2>3
  <1>5. Entries(g, n - d) \subseteq {e \in Entries(f, n) : e > k}
    <2>1. \A p \in 0..(n - d - 1) : p + d \in 0..(n - 1) /\ p + d >= d /\ g[p] = f[p + d]
      OBVIOUS
    <2>. QED BY <1>4, <2>1 DEF Entries
  <1>6. {e \in Entries(f, n) : e > k} \subseteq Entries(g, n - d)
    <2>1. \A p \in 0..(n - 1) : p >= d => p - d \in 0..(n - d - 1) /\ g[p - d] = f[p]
      OBVIOUS
    <2>. QED BY <1>4, <2>1 DEF Entries
  <1>. QED BY <1>3, <1>5, <1>6

\* Another entry behind the others.
LEMMA RowPut ==
    ASSUME NEW f, NEW n \in Nat, NEW last \in Nat, Row(f, n, last), NEW len \in Lengths,
           NEW g, \A p \in 0..(n - 1) : g[p] = f[p],
           \A p \in n..(n + len - 1) : g[p] = [entry |-> last + 1, at |-> p - n, length |-> len]
    PROVE  Row(g, n + len, last + 1) /\ Entries(g, n + len) = Entries(f, n) \cup {last + 1}
  <1>1. len \in Nat /\ len > 2
    BY LengthFacts
  <1>2. \A p \in 0..(n + len - 1) : p \in 0..(n - 1) \/ p \in n..(n + len - 1)
    BY <1>1
  <1>3. ASSUME NEW p \in 0..(n - 1)
        PROVE  /\ g[p] = f[p] /\ Begin(g, p) = Begin(f, p) /\ p \in 0..(n + len - 1)
               /\ g[p].entry \in 1..last /\ g[p].length \in Lengths /\ g[p].length \in Nat
               /\ g[p].at \in 0..p /\ g[p].at < g[p].length
               /\ Begin(g, p) \in 0..p /\ Begin(g, p) + g[p].length <= n
    <2>1. /\ f[p].entry \in 1..last /\ f[p].length \in Lengths
          /\ f[p].at \in 0..p /\ f[p].at < f[p].length
          /\ Begin(f, p) + f[p].length <= n
      BY DEF Row
    <2>2. p \in 0..(n + len - 1) /\ g[p] = f[p]
      BY <1>1
    <2>3. f[p].length \in Nat
      BY <2>1, LengthFacts
    <2>. QED BY <2>1, <2>2, <2>3 DEF Begin
  <1>4. ASSUME NEW p \in n..(n + len - 1)
        PROVE  /\ g[p].entry = last + 1 /\ g[p].at = p - n /\ g[p].length = len
               /\ Begin(g, p) = n
    <2>1. g[p] = [entry |-> last + 1, at |-> p - n, length |-> len]
      OBVIOUS
    <2>2. p \in Nat
      BY <1>1
    <2>. QED BY <2>1, <2>2 DEF Begin
  <1>5. \A p, q \in 0..(n + len - 1) :
          Begin(g, p) <= q /\ q < Begin(g, p) + g[p].length =>
             g[q] = [entry |-> g[p].entry, at |-> q - Begin(g, p), length |-> g[p].length]
    <2>1. ASSUME NEW p \in 0..(n - 1), NEW q \in 0..(n + len - 1),
                 Begin(g, p) <= q, q < Begin(g, p) + g[p].length
          PROVE  g[q] = [entry |-> g[p].entry, at |-> q - Begin(g, p), length |-> g[p].length]
      <3>1. q \in 0..(n - 1)
        BY <1>3, <2>1
      <3>2. f[q] = [entry |-> f[p].entry, at |-> q - Begin(f, p), length |-> f[p].length]
        BY <1>3, <2>1, <3>1 DEF Row
      <3>. QED BY <1>3, <3>1, <3>2
    <2>2. ASSUME NEW p \in n..(n + len - 1), NEW q \in 0..(n + len - 1),
                 Begin(g, p) <= q
          PROVE  g[q] = [entry |-> g[p].entry, at |-> q - Begin(g, p), length |-> g[p].length]
      BY <1>4, <2>2
    <2>. QED BY <1>2, <2>1, <2>2
  <1>6. \A p, q \in 0..(n + len - 1) :
           /\ p <= q => g[p].entry <= g[q].entry
           /\ g[p].entry = g[q].entry => Begin(g, p) = Begin(g, q)
    <2>1. ASSUME NEW p \in 0..(n - 1), NEW q \in 0..(n - 1)
          PROVE  /\ p <= q => g[p].entry <= g[q].entry
                 /\ g[p].entry = g[q].entry => Begin(g, p) = Begin(g, q)
      BY <1>3 DEF Row
    <2>2. ASSUME NEW p \in 0..(n - 1), NEW q \in n..(n + len - 1)
          PROVE  g[p].entry < g[q].entry /\ p < q
      BY <1>3, <1>4
    <2>3. ASSUME NEW p \in n..(n + len - 1), NEW q \in n..(n + len - 1)
          PROVE  g[p].entry = g[q].entry /\ g[q].entry \in Nat /\ Begin(g, p) = Begin(g, q)
      BY <1>4
    <2>4. \A p \in 0..(n - 1) : g[p].entry \in Nat
      BY <1>3
    <2>. HIDE DEF Begin
    <2>. QED BY <1>1, <1>2, <2>1, <2>2, <2>3, <2>4
  <1>7. \A p \in 0..(n + len - 1) :
          /\ g[p].entry \in 1..(last + 1) /\ g[p].length \in Lengths
          /\ g[p].at \in 0..p /\ g[p].at < g[p].length
          /\ Begin(g, p) + g[p].length <= n + len
    BY <1>1, <1>2, <1>3, <1>4
  <1>8. Row(g, n + len, last + 1)
    <2>. HIDE DEF Begin
    <2>. QED BY <1>1, <1>5, <1>6, <1>7 DEF Row
  <1>9. Entries(g, n + len) \subseteq Entries(f, n) \cup {last + 1}
    BY <1>1, <1>2, <1>3, <1>4 DEF Entries
  <1>10. Entries(f, n) \cup {last + 1} \subseteq Entries(g, n + len)
    <2>1. n \in 0..(n + len - 1) /\ g[n].at = 0 /\ g[n].entry = last + 1
      BY <1>1, <1>4
    <2>. QED BY <1>1, <1>3, <2>1 DEF Entries
  <1>. QED BY <1>8, <1>9, <1>10

-----------------------------------------------------------------------------
(* Indices of the ring.                                                     *)

LEMMA AtIs ==
    /\ \A i \in Nat : At(i) \in Index
    /\ \A i \in 0..(Size - 1) : At(i) = i
    /\ \A i \in Size..(2 * Size - 1) : At(i) = i - Size
  <1>1. ASSUME NEW i \in Nat PROVE At(i) \in Index
    BY LengthFacts DEF At, Index
  <1>2. ASSUME NEW i \in Nat, i < Size PROVE i % Size = i /\ (i + Size) % Size = i
    BY <1>2, LengthFacts
  <1>3. ASSUME NEW i \in Size..(2 * Size - 1) PROVE i % Size = i - Size
    <2>1. PICK k \in Nat : k = i - Size /\ k < Size /\ i = k + Size
      BY LengthFacts
    <2>. QED BY <1>2, <2>1
  <1>. QED BY <1>1, <1>2, <1>3, LengthFacts DEF At

\* The bytes between a tail and a head, and those that are free.
LEMMA UsedIs ==
    ASSUME NEW h \in Index, NEW t \in Index
    PROVE  /\ h \in 0..(Size - 1) /\ t \in 0..(Size - 1) /\ Size \in Nat
           /\ Used(h, t) \in 0..(Size - 1) /\ Free(h, t) = Size - Used(h, t)
           /\ Used(h, t) = 0 <=> h = t
           /\ Used(h, t) = IF h >= t THEN h - t ELSE (h + Size) - t
           /\ At(t + Used(h, t)) = h
  <1>1. /\ h \in 0..(Size - 1) /\ t \in 0..(Size - 1) /\ Size \in Nat
        /\ Used(h, t) \in 0..(Size - 1) /\ Free(h, t) = Size - Used(h, t)
        /\ Used(h, t) = 0 <=> h = t
        /\ Used(h, t) = IF h >= t THEN h - t ELSE (h + Size) - t
    BY LengthFacts DEF Index, Used, Free
  <1>2. t + Used(h, t) = IF h >= t THEN h ELSE h + Size
    BY <1>1
  <1>. QED BY <1>1, <1>2, AtIs

\* The index at p bytes from t, and bytes further on.
LEMMA AtPlus ==
    ASSUME NEW t \in Index, NEW p \in 0..(Size - 1)
    PROVE  /\ At(t + p) \in Index
           /\ At(t + p) = IF t + p < Size THEN t + p ELSE (t + p) - Size
           /\ Used(At(t + p), t) = p
           /\ \A q \in 0..(Size - 1) : p + q < Size => At(At(t + p) + q) = At(t + (p + q))
  <1>1. t \in 0..(Size - 1) /\ Size \in Nat
    BY UsedIs
  <1>2. At(t + p) = IF t + p < Size THEN t + p ELSE (t + p) - Size
    BY <1>1, AtIs
  <1>3. Used(At(t + p), t) = p
    BY <1>1, <1>2 DEF Used
  <1>4. ASSUME NEW q \in 0..(Size - 1), p + q < Size
        PROVE  At(At(t + p) + q) = At(t + (p + q))
    <2>1. At(t + p) + q \in 0..(2 * Size - 1) /\ t + (p + q) \in 0..(2 * Size - 1)
      BY <1>1, <1>2, <1>4
    <2>2. /\ At(At(t + p) + q) = IF At(t + p) + q < Size THEN At(t + p) + q
                                                         ELSE (At(t + p) + q) - Size
          /\ At(t + (p + q)) = IF t + (p + q) < Size THEN t + (p + q) ELSE (t + (p + q)) - Size
      BY <1>1, <2>1, AtIs
    <2>. QED BY <1>1, <1>2, <1>4, <2>2
  <1>. QED BY <1>1, <1>2, <1>3, <1>4 DEF Index

\* The tail moves by d bytes, the head by m.
LEMMA UsedMoved ==
    ASSUME NEW h \in Index, NEW t \in Index
    PROVE  /\ \A d \in 0..Used(h, t) : Used(h, At(t + d)) = Used(h, t) - d
           /\ \A m \in Nat : Used(h, t) + m < Size => Used(At(h + m), t) = Used(h, t) + m
  <1>1. /\ h \in 0..(Size - 1) /\ t \in 0..(Size - 1) /\ Size \in Nat
        /\ Used(h, t) \in 0..(Size - 1)
        /\ Used(h, t) = IF h >= t THEN h - t ELSE (h + Size) - t
    BY UsedIs
  <1>2. ASSUME NEW d \in 0..Used(h, t) PROVE Used(h, At(t + d)) = Used(h, t) - d
    <2>1. d \in 0..(Size - 1)
      BY <1>1
    <2>2. At(t + d) = IF t + d < Size THEN t + d ELSE (t + d) - Size
      BY <2>1, AtPlus
    <2>. QED BY <1>1, <2>1, <2>2 DEF Used
  <1>3. ASSUME NEW m \in Nat, Used(h, t) + m < Size PROVE Used(At(h + m), t) = Used(h, t) + m
    <2>1. m \in 0..(Size - 1)
      BY <1>1, <1>3
    <2>2. At(h + m) = IF h + m < Size THEN h + m ELSE (h + m) - Size
      BY <2>1, AtPlus
    <2>. QED BY <1>1, <1>3, <2>1, <2>2 DEF Used
  <1>. QED BY <1>2, <1>3

-----------------------------------------------------------------------------
(* The inductive invariant.                                                 *)

Byte == [entry : 0..MaxEntries, at : 0..Size, length : 0..Size]
Position == [round : Nat, at : Index]

WriterSteps ==
    {"idle", "assure", "room", "header", "payload", "publish", "ring", "dead"}
ReaderSteps ==
    {"construct", "bind", "wait", "acknowledge", "tail", "head", "size", "check", "copy"}

WriterType ==
    [pc : WriterSteps, length : Nat, tail : Position, free : Nat, skip : Nat]
ReaderType ==
    [pc : ReaderSteps, tail : Position, size : 0..Size, done : Nat, value : 0..MaxEntries,
     head : Nat]

TypeInv ==
    /\ cells \in [Index -> Byte]
    /\ head \in Index
    /\ tail \in Position
    /\ reservedPID \in BOOLEAN /\ reserved \in 0..Size /\ written \in 0..Size
    /\ inflight \in BOOLEAN /\ event \in BOOLEAN /\ bound \in BOOLEAN
    /\ w \in WriterType /\ r \in ReaderType
    /\ published \in 0..MaxEntries
    /\ popped \in Seq(0..MaxEntries)

\* How many bytes lie between tail and head, and which.
Inside == Used(head, tail.at)
View == [p \in 0..(Inside - 1) |-> cells[At(tail.at + p)]]

\* The tail only moves forward, so that it does not come back to where it was.
Before(s, t) == s.round < t.round \/ (s.round = t.round /\ s.at <= t.at)

RowInv ==
    /\ Row(View, Inside, published)
    /\ Inside = 0 => tail.round <= published
    /\ Inside > 0 => tail.round < View[0].entry

\* What the writer has read of the tail is never too optimistic, and where it
\* stands among the entries is exact as long as the tail does not move.  The
\* bytes it has written of the next entry follow the head, in free room.
WriterInv ==
    /\ Before(w.tail, tail)
    /\ w.pc \in {"assure", "room", "header", "payload", "publish"} =>
          w.length \in Lengths /\ published < MaxEntries
    /\ w.pc = "room" => w.free + Inside <= Size
    /\ w.pc = "room" /\ w.tail = tail =>
          w.free + Inside = Size /\ Boundary(View, Inside, w.skip)
    /\ w.pc \in {"header", "payload", "publish"} =>
          /\ reserved = w.length /\ Inside + w.length < Size
          /\ written = CASE w.pc = "header" -> 0
                         [] w.pc = "payload" -> HeaderSize
                         [] w.pc = "publish" -> reserved
          /\ \A q \in 0..(written - 1) :
                cells[At(head + q)] = [entry |-> published + 1, at |-> q, length |-> w.length]

\* What the reader has found out about the first entry holds as long as the
\* tail does not move.
ReaderInv ==
    /\ Before(r.tail, tail)
    /\ r.pc = "copy" => r.size > 0 /\ r.done <= BufferLength
    /\ r.tail = tail =>
          /\ r.pc \in {"size", "check", "copy"} => Inside > 0
          /\ r.pc \in {"check", "copy"} => View[0].length = HeaderSize + r.size
          /\ r.pc = "copy" /\ r.done > 0 => r.value = View[0].entry

IInv == TypeInv /\ RowInv /\ WriterInv /\ ReaderInv

-----------------------------------------------------------------------------
(* What lies between tail and head.                                         *)

\* The view and its length.
LEMMA ViewFacts ==
    ASSUME TypeInv
    PROVE  /\ head \in Index /\ tail.at \in Index /\ Size \in Nat
           /\ Inside \in 0..(Size - 1) /\ Free(head, tail.at) = Size - Inside
           /\ \A p \in 0..(Inside - 1) : View[p] = cells[At(tail.at + p)]
  <1>1. head \in Index /\ tail.at \in Index
    BY DEF TypeInv, Position
  <1>. QED BY <1>1, UsedIs DEF Inside, View

\* The queue of the abstraction, as the entries of the row.
LEMMA ContentsAre ==
    ASSUME TypeInv
    PROVE  Contents = Entries(View, Inside)
  <1>1. /\ head \in Index /\ tail.at \in Index /\ Size \in Nat /\ Inside \in 0..(Size - 1)
        /\ \A p \in 0..(Inside - 1) : View[p] = cells[At(tail.at + p)]
    BY ViewFacts
  <1>2. ASSUME NEW i \in Index, Used(i, tail.at) < Inside, cells[i].at = 0
        PROVE  cells[i].entry \in Entries(View, Inside)
    <2>1. Used(i, tail.at) \in 0..(Size - 1) /\ At(tail.at + Used(i, tail.at)) = i
      BY <1>1, UsedIs
    <2>2. PICK p : p = Used(i, tail.at)
      OBVIOUS
    <2>3. p \in 0..(Inside - 1) /\ View[p] = cells[i]
      BY <1>1, <1>2, <2>1, <2>2
    <2>. QED BY <1>2, <2>3 DEF Entries
  <1>3. ASSUME NEW p \in 0..(Inside - 1), View[p].at = 0
        PROVE  View[p].entry \in Contents
    <2>1. PICK i : i = At(tail.at + p)
      OBVIOUS
    <2>2. i \in Index /\ Used(i, tail.at) = p /\ View[p] = cells[i]
      BY <1>1, <2>1, AtPlus
    <2>. QED BY <1>1, <1>3, <2>2 DEF Contents, Inside
  <1>. QED BY <1>2, <1>3 DEF Contents, Entries, Inside

\* Nothing happens to what lies between tail and head.
LEMMA ViewKept ==
    ASSUME UNCHANGED <<cells, head, tail>>
    PROVE  Inside' = Inside /\ View' = View
  BY DEF Inside, View

LEMMA RowKept ==
    ASSUME RowInv, UNCHANGED <<cells, head, tail, published>>
    PROVE  RowInv'
  BY ViewKept DEF RowInv

LEMMA WriterKept ==
    ASSUME WriterInv, UNCHANGED <<cells, head, tail, published, w, reserved, written>>
    PROVE  WriterInv'
  BY ViewKept DEF WriterInv

LEMMA ReaderKept ==
    ASSUME ReaderInv, UNCHANGED <<cells, head, tail, r>>
    PROVE  ReaderInv'
  BY ViewKept DEF ReaderInv, BufferLength

\* A tail that has moved does not come back.
LEMMA Forwards ==
    ASSUME NEW s \in Position, NEW t \in Position, NEW u \in Position,
           Before(s, t), Before(t, u), t # u
    PROVE  Before(s, u) /\ s # u
  <1>1. t.round # u.round \/ t.at # u.at
    BY DEF Position
  <1>2. /\ s.round \in Nat /\ t.round \in Nat /\ u.round \in Nat
        /\ s.at \in Nat /\ t.at \in Nat /\ u.at \in Nat
    BY DEF Position, Index
  <1>. QED BY <1>1, <1>2 DEF Before

\* The tail moves over whole entries: they are dropped, and the round is below
\* the number of the entry that is first now.
LEMMA TailMoved ==
    ASSUME TypeInv, RowInv, NEW d \in 1..Inside, Boundary(View, Inside, d),
           tail' = Complete(tail, d), UNCHANGED <<cells, head, published>>
    PROVE  /\ tail' \in Position /\ Before(tail, tail') /\ tail' # tail
           /\ Inside' = Inside - d
           /\ RowInv'
           /\ View[d - 1].entry \in Entries(View, Inside)
           /\ Entries(View, Inside)' = {e \in Entries(View, Inside) : e > View[d - 1].entry}
  <1>1. /\ head \in Index /\ tail.at \in Index /\ Size \in Nat
        /\ Inside \in 0..(Size - 1) /\ d \in 1..(Size - 1) /\ d \in Nat
        /\ \A p \in 0..(Inside - 1) : View[p] = cells[At(tail.at + p)]
        /\ published \in Nat /\ tail.round \in Nat /\ tail.at \in 0..(Size - 1)
    BY ViewFacts DEF TypeInv, Position, Index
  <1>2. PICK at : at = At(tail.at + d)
    OBVIOUS
  <1>3. /\ at \in Index /\ at \in 0..(Size - 1)
        /\ at = IF tail.at + d < Size THEN tail.at + d ELSE (tail.at + d) - Size
        /\ Used(head, at) = Inside - d
        /\ \A q \in 0..(Size - 1) : d + q < Size => At(at + q) = At(tail.at + (d + q))
    <2>1. /\ At(tail.at + d) \in Index
          /\ At(tail.at + d) = IF tail.at + d < Size THEN tail.at + d ELSE (tail.at + d) - Size
          /\ \A q \in 0..(Size - 1) : d + q < Size => At(At(tail.at + d) + q) = At(tail.at + (d + q))
      <3>1. tail.at \in Index /\ d \in 0..(Size - 1)
        BY <1>1
      <3>. QED BY <3>1, AtPlus
    <2>2. Used(head, At(tail.at + d)) = Inside - d
      BY <1>1, UsedMoved DEF Inside
    <2>. QED BY <1>2, <2>1, <2>2 DEF Index
  <1>4. tail' = [round |-> IF at < tail.at THEN tail.round + 1 ELSE tail.round, at |-> at]
    BY <1>2 DEF Complete
  <1>5. tail' \in Position /\ Before(tail, tail') /\ tail' # tail
    BY <1>1, <1>3, <1>4 DEF Position, Before
  <1>6. Inside' = Inside - d
    BY <1>3, <1>4 DEF Inside
  <1>7. PICK g : g = View'
    OBVIOUS
  <1>8. ASSUME NEW p \in 0..(Inside - d - 1) PROVE g[p] = View[p + d]
    <2>1. /\ p \in 0..(Size - 1) /\ d + p < Size /\ p + d \in 0..(Inside - 1)
          /\ tail.at + (d + p) = tail.at + (p + d)
      BY <1>1
    <2>2. g[p] = cells[At(at + p)]
      BY <1>4, <1>6, <1>7 DEF View
    <2>. QED BY <1>1, <1>3, <2>1, <2>2
  <1>9. Row(View, Inside, published)
    BY DEF RowInv
  <1>10. Row(g, Inside - d, published)
    BY <1>1, <1>8, <1>9, RowDrop
  <1>11. /\ View[d - 1].entry \in Entries(View, Inside)
         /\ Entries(g, Inside - d) = {e \in Entries(View, Inside) : e > View[d - 1].entry}
    BY <1>1, <1>8, <1>9, EntriesDrop
  <1>12. View[0].entry \in 1..published /\ tail.round < View[0].entry
    BY <1>1, <1>9 DEF RowInv, Row
  <1>13. Inside - d > 0 => View[0].entry < g[0].entry
    <2>1. SUFFICES ASSUME Inside - d > 0 PROVE View[0].entry < g[0].entry
      OBVIOUS
    <2>2. d \in 0..(Inside - 1) /\ 0 \in 0..(Inside - 1) /\ g[0] = View[d] /\ View[d].at = 0
      BY <1>1, <1>8, <2>1 DEF Boundary
    <2>3. View[0].entry <= View[d].entry /\ View[d].entry \in Nat /\ View[0].entry \in Nat
      BY <1>9, <2>2 DEF Row
    <2>4. View[0].at \in 0..0
      BY <1>9, <2>2 DEF Row
    <2>5. View[0].entry # View[d].entry
      BY <1>1, <1>9, <2>2, <2>4 DEF Row, Begin
    <2>. QED BY <2>2, <2>3, <2>5
  <1>14. tail'.round <= tail.round + 1 /\ tail'.round \in Nat
    BY <1>1, <1>4
  <1>15. g[0].entry \in Nat \/ Inside - d = 0
    BY <1>1, <1>10 DEF Row
  <1>16. RowInv'
    BY <1>1, <1>6, <1>7, <1>10, <1>12, <1>13, <1>14, <1>15 DEF RowInv
  <1>. QED BY <1>5, <1>6, <1>7, <1>11, <1>16

-----------------------------------------------------------------------------
(* The steps of the reader.                                                 *)

LEMMA QuietReader ==
    ASSUME IInv, UNCHANGED <<shared, w, published, popped>>,
           inflight' \in BOOLEAN, event' \in BOOLEAN, bound' \in BOOLEAN,
           r' \in ReaderType, ReaderInv'
    PROVE  IInv'
  BY RowKept, WriterKept DEF IInv, TypeInv, shared

\* A length that is peeked is in bounds, and where an entry begins it is right.
LEMMA PeekedIs ==
    ASSUME TypeInv
    PROVE  /\ \A i \in Nat : Peeked(i) \subseteq 0..Size
           /\ RowInv => \A p \in 0..(Inside - 1) :
                 View[p].at = 0 => Peeked(tail.at + p) = {View[p].length}
  <1>1. ASSUME NEW i \in Nat PROVE Peeked(i) \subseteq 0..Size
    <2>1. At(i) \in Index
      BY AtIs
    <2>2. cells[At(i)].length \in 0..Size
      BY <2>1 DEF TypeInv, Byte
    <2>. QED BY <2>2 DEF Peeked
  <1>2. ASSUME RowInv, NEW p \in 0..(Inside - 1), View[p].at = 0
        PROVE  Peeked(tail.at + p) = {View[p].length}
    <2>1. Row(View, Inside, published) /\ Inside \in Nat /\ Inside < Size
      BY <1>2, ViewFacts DEF RowInv
    <2>2. /\ View[p].length \in Nat /\ View[p].length > 2
          /\ Begin(View, p) = p /\ p + View[p].length <= Inside
      BY <1>2, <2>1, LengthFacts DEF Row, Begin
    <2>3. p \in Nat /\ p + 1 \in 0..(Inside - 1)
      BY <2>1, <2>2
    <2>4. View[p + 1] = [entry |-> View[p].entry, at |-> (p + 1) - Begin(View, p),
                         length |-> View[p].length]
      BY <2>1, <2>2, <2>3 DEF Row
    <2>5. View[p + 1].entry = View[p].entry /\ View[p + 1].at = 1
      BY <2>2, <2>3, <2>4
    <2>6. tail.at \in Nat /\ (tail.at + p) + 1 = tail.at + (p + 1)
      BY <2>3, ViewFacts DEF Index
    <2>7. /\ View[p] = cells[At(tail.at + p)]
          /\ View[p + 1] = cells[At((tail.at + p) + 1)]
      BY <2>3, <2>6, ViewFacts
    <2>. QED BY <1>2, <2>5, <2>7 DEF Peeked
  <1>. QED BY <1>1, <1>2

\* The first entry of the row.
LEMMA FirstEntry ==
    ASSUME TypeInv, RowInv, Inside > 0
    PROVE  /\ View[0].at = 0 /\ View[0].length \in Lengths /\ View[0].length <= Inside
           /\ View[0].entry \in 1..published
           /\ \A q \in 0..(View[0].length - 1) : View[q].entry = View[0].entry /\ View[q].at = q
           /\ Boundary(View, Inside, View[0].length)
  <1>1. Row(View, Inside, published) /\ Inside \in Nat /\ 0 \in 0..(Inside - 1) /\ published \in Nat
    BY ViewFacts DEF RowInv, TypeInv
  <1>2. /\ View[0].at \in 0..0 /\ View[0].length \in Lengths
        /\ View[0].entry \in 1..published /\ Begin(View, 0) + View[0].length <= Inside
    BY <1>1 DEF Row
  <1>3. /\ View[0].at = 0 /\ Begin(View, 0) = 0 /\ View[0].length \in Nat
        /\ View[0].length <= Inside
    BY <1>2, LengthFacts DEF Begin
  <1>4. ASSUME NEW q \in 0..(View[0].length - 1)
        PROVE  View[q].entry = View[0].entry /\ View[q].at = q
    <2>1. q \in 0..(Inside - 1)
      BY <1>1, <1>3
    <2>2. View[q] = [entry |-> View[0].entry, at |-> q - Begin(View, 0),
                     length |-> View[0].length]
      BY SMTT(20), <1>1, <1>3, <2>1 DEF Row
    <2>. QED BY <1>3, <2>1, <2>2
  <1>5. Boundary(View, Inside, View[0].length)
    <2>1. 0 + View[0].length = View[0].length
      BY <1>3
    <2>. QED BY <1>1, <1>3, <2>1, RowNext
  <1>. QED BY <1>2, <1>3, <1>4, <1>5

LEMMA BeforeSelf == ASSUME NEW t \in Position PROVE Before(t, t)
  BY DEF Before, Position, Index

\* Up to the peek.
LEMMA ReaderWaits ==
    ASSUME IInv, Construct \/ Bind \/ Wait \/ Acknowledge \/ LoadTail \/ LoadHead
    PROVE  IInv'
  <1>1. /\ UNCHANGED <<shared, w, published, popped>>
        /\ inflight' \in BOOLEAN /\ event' \in BOOLEAN /\ bound' \in BOOLEAN
    <2>1. UNCHANGED <<shared, w, published, popped>>
      BY DEF Construct, Bind, Wait, Acknowledge, LoadTail, LoadHead, ReaderIsAt
    <2>2. inflight' = inflight /\ (bound' = bound \/ bound' = TRUE)
      BY DEF Construct, Bind, Wait, Acknowledge, LoadTail, LoadHead, bell
    <2>3. event' = event \/ event' = FALSE \/ event' = (Used(head, tail.at) > 0)
      BY DEF Construct, Bind, Wait, Acknowledge, LoadTail, LoadHead, bell
    <2>4. inflight \in BOOLEAN /\ event \in BOOLEAN /\ bound \in BOOLEAN
      BY DEF IInv, TypeInv
    <2>5. event' \in BOOLEAN
      <3>1. CASE event' = (Used(head, tail.at) > 0)
        <4>1. (Used(head, tail.at) > 0) \in BOOLEAN
          OBVIOUS
        <4>. QED BY <3>1, <4>1, Zenon
      <3>. QED BY <2>3, <2>4, <3>1
    <2>. QED BY <2>1, <2>2, <2>4, <2>5
  <1>2. r \in ReaderType /\ tail \in Position /\ Before(r.tail, tail)
    BY DEF IInv, TypeInv, ReaderInv
  <1>3. Inside' = Inside /\ View' = View /\ tail' = tail
    BY <1>1, ViewKept DEF shared
  <1>4. CASE Construct \/ Bind \/ Wait \/ Acknowledge
    <2>1. \E step \in {"bind", "wait", "acknowledge", "tail"} : r' = [r EXCEPT !.pc = step]
      BY <1>4 DEF Construct, Bind, Wait, Acknowledge
    <2>2. /\ r' \in ReaderType /\ r'.tail = r.tail
          /\ r'.pc \in {"bind", "wait", "acknowledge", "tail"}
      BY <1>2, <2>1 DEF ReaderType, ReaderSteps
    <2>3. ReaderInv'
      BY <1>2, <1>3, <2>2 DEF ReaderInv
    <2>. QED BY <1>1, <2>2, <2>3, QuietReader
  <1>5. CASE LoadTail
    <2>1. r' = [r EXCEPT !.pc = "head", !.tail = tail]
      BY <1>5 DEF LoadTail
    <2>2. r' \in ReaderType /\ r'.tail = tail /\ r'.pc = "head"
      BY <1>2, <2>1 DEF ReaderType, ReaderSteps
    <2>3. ReaderInv'
      BY <1>2, <1>3, <2>2, BeforeSelf DEF ReaderInv
    <2>. QED BY <1>1, <2>2, <2>3, QuietReader
  <1>6. CASE LoadHead
    <2>1. r' = [r EXCEPT !.pc = IF Used(head, r.tail.at) = 0 THEN "wait" ELSE "size"]
      BY <1>6 DEF LoadHead
    <2>2. /\ r' \in ReaderType /\ r'.tail = r.tail
          /\ r'.pc = IF Used(head, r.tail.at) = 0 THEN "wait" ELSE "size"
      BY <1>2, <2>1 DEF ReaderType, ReaderSteps
    <2>3. r.tail = tail /\ r'.pc = "size" => Inside > 0
      BY <2>2, ViewFacts DEF IInv, Inside
    <2>4. ReaderInv'
      BY <1>2, <1>3, <2>2, <2>3 DEF ReaderInv
    <2>. QED BY <1>1, <2>2, <2>4, QuietReader
  <1>. QED BY <1>4, <1>5, <1>6

LEMMA PeekSizeInv ==
    ASSUME IInv, PeekSize
    PROVE  IInv'
  <1>1. UNCHANGED <<shared, bell, w, published, popped>> /\ r.pc = "size"
    BY DEF PeekSize, ReaderIsAt
  <1>2. PICK n \in Peeked(r.tail.at) :
           r' = [r EXCEPT !.pc = "check", !.size = IF n > HeaderSize THEN n - HeaderSize ELSE 0]
    BY DEF PeekSize
  <1>3. /\ r \in ReaderType /\ tail \in Position /\ Before(r.tail, tail)
        /\ r.tail = tail => Inside > 0
    BY <1>1 DEF IInv, TypeInv, ReaderInv
  <1>4. n \in 0..Size /\ Size \in Nat
    <2>1. r.tail.at \in Nat
      BY <1>3 DEF ReaderType, Position, Index
    <2>. QED BY <2>1, PeekedIs, LengthFacts DEF IInv
  <1>5. PICK s \in 0..Size : s = IF n > HeaderSize THEN n - HeaderSize ELSE 0
    BY <1>4, LengthFacts
  <1>6. r' \in ReaderType /\ r'.tail = r.tail /\ r'.pc = "check" /\ r'.size = s
    BY <1>2, <1>3, <1>5 DEF ReaderType, ReaderSteps
  <1>7. r.tail = tail => View[0].length = HeaderSize + s
    <2>1. SUFFICES ASSUME r.tail = tail PROVE View[0].length = HeaderSize + s
      OBVIOUS
    <2>2. View[0].at = 0 /\ View[0].length \in Lengths /\ 0 \in 0..(Inside - 1)
      BY <1>3, <2>1, FirstEntry, ViewFacts DEF IInv
    <2>3. Peeked(tail.at + 0) = {View[0].length} /\ tail.at + 0 = tail.at
      BY <2>2, PeekedIs, ViewFacts DEF IInv, Index
    <2>4. n = View[0].length
      BY <2>1, <2>3
    <2>. QED BY <1>5, <2>2, <2>4, LengthFacts
  <1>8. Inside' = Inside /\ View' = View /\ tail' = tail
    BY <1>1, ViewKept DEF shared
  <1>9. ReaderInv'
    BY <1>3, <1>6, <1>7, <1>8 DEF ReaderInv
  <1>. QED BY <1>1, <1>6, <1>9, QuietReader DEF IInv, TypeInv, bell

LEMMA CheckTailInv ==
    ASSUME IInv, CheckTail
    PROVE  IInv'
  <1>1. /\ UNCHANGED <<shared, bell, w, published, popped>> /\ r.pc = "check"
        /\ r' = [r EXCEPT !.pc = IF r.size = 0 \/ tail # r.tail THEN "tail" ELSE "copy", !.done = 0]
    BY DEF CheckTail, ReaderIsAt
  <1>2. r \in ReaderType /\ ReaderInv /\ r.size \in 0..Size /\ Size \in Nat
    BY LengthFacts DEF IInv, TypeInv, ReaderType
  <1>3. /\ r' \in ReaderType /\ r'.tail = r.tail /\ r'.size = r.size /\ r'.done = 0
        /\ r'.pc = IF r.size = 0 \/ tail # r.tail THEN "tail" ELSE "copy"
    BY <1>1, <1>2 DEF ReaderType, ReaderSteps
  <1>4. Inside' = Inside /\ View' = View /\ tail' = tail
    BY <1>1, ViewKept DEF shared
  <1>5. ReaderInv'
    BY <1>1, <1>2, <1>3, <1>4, LengthFacts DEF ReaderInv, BufferLength
  <1>. QED BY <1>1, <1>3, <1>5, QuietReader DEF IInv, TypeInv, bell

LEMMA CopyByteInv ==
    ASSUME IInv, CopyByte
    PROVE  IInv'
  <1>1. PICK byte : byte = cells[At(r.tail.at + HeaderSize + r.done)]
    OBVIOUS
  <1>2. PICK v : v = IF byte.at = HeaderSize + r.done /\ (r.done = 0 \/ byte.entry = r.value)
                     THEN byte.entry ELSE 0
    OBVIOUS
  <1>3. /\ UNCHANGED <<shared, bell, w, published, popped>> /\ r.pc = "copy"
        /\ r.done < BufferLength /\ r' = [r EXCEPT !.done = r.done + 1, !.value = v]
    BY <1>1, <1>2 DEF CopyByte, ReaderIsAt
  <1>4. /\ r \in ReaderType /\ ReaderInv /\ r.size \in 0..Size /\ r.done \in Nat
        /\ Size \in Nat /\ ReadSize \in Nat /\ r.tail.at \in Nat /\ tail.at \in Nat
    BY LengthFacts DEF IInv, TypeInv, ReaderType, Position, Index
  <1>5. v \in 0..MaxEntries
    <2>1. At(r.tail.at + HeaderSize + r.done) \in Index
      BY <1>4, AtIs, LengthFacts
    <2>2. byte \in Byte
      BY <1>1, <2>1 DEF IInv, TypeInv
    <2>. QED BY <1>2, <2>2, LengthFacts DEF Byte
  <1>6. /\ r' \in ReaderType /\ r'.tail = r.tail /\ r'.size = r.size /\ r'.done = r.done + 1
        /\ r'.pc = "copy" /\ r'.value = v
    <2>1. PICK k \in Nat : k = r.done + 1
      BY <1>4
    <2>2. r' = [r EXCEPT !.done = k, !.value = v]
      BY <1>3, <2>1
    <2>. QED BY <1>3, <1>4, <1>5, <2>1, <2>2 DEF ReaderType
  <1>7. r.tail = tail => v = View[0].entry
    <2>1. SUFFICES ASSUME r.tail = tail PROVE v = View[0].entry
      OBVIOUS
    <2>2. Inside > 0 /\ View[0].length = 2 + r.size /\ r.done < r.size
          /\ (r.done > 0 => r.value = View[0].entry)
      BY <1>3, <1>4, <2>1, LengthFacts DEF ReaderInv, BufferLength
    <2>3. PICK q \in 0..(View[0].length - 1) : q = 2 + r.done
      BY <1>4, <2>2
    <2>4. View[q].entry = View[0].entry /\ View[q].at = q /\ View[0].length <= Inside
      BY <2>2, <2>3, FirstEntry DEF IInv
    <2>5. q \in 0..(Inside - 1)
      BY <1>4, <2>2, <2>3, <2>4, ViewFacts DEF IInv
    <2>6. (tail.at + 2) + r.done = tail.at + q
      BY <1>4, <2>3
    <2>7. byte = View[q]
      BY <1>1, <2>1, <2>5, <2>6, ViewFacts, LengthFacts DEF IInv
    <2>. QED BY <1>2, <1>4, <2>2, <2>3, <2>4, <2>7, LengthFacts
  <1>8. Inside' = Inside /\ View' = View /\ tail' = tail /\ BufferLength' = BufferLength
    BY <1>3, <1>6, ViewKept DEF shared, BufferLength
  <1>9. BufferLength \in Nat
    BY <1>4 DEF BufferLength
  <1>10. ReaderInv'
    BY <1>3, <1>4, <1>6, <1>7, <1>8, <1>9 DEF ReaderInv
  <1>. QED BY <1>3, <1>6, <1>10, QuietReader DEF IInv, TypeInv, bell

\* What a moving tail leaves of the knowledge of the two.
LEMMA WriterTailMoved ==
    ASSUME TypeInv, WriterInv, tail' \in Position, Before(tail, tail'), tail' # tail,
           Inside' \in Nat, Inside' <= Inside,
           UNCHANGED <<cells, head, published, w, reserved, written>>
    PROVE  WriterInv'
  <1>1. w.tail \in Position /\ tail \in Position /\ w.free \in Nat /\ w.length \in Nat
        /\ Size \in Nat /\ Inside \in Nat
    BY ViewFacts DEF TypeInv, WriterType
  <1>2. Before(w.tail, tail') /\ w.tail # tail'
    BY <1>1, Forwards DEF WriterInv
  <1>3. w.pc = "room" => w.free + Inside' <= Size
    BY <1>1 DEF WriterInv
  <1>4. w.pc \in {"header", "payload", "publish"} => Inside' + w.length < Size
    BY <1>1 DEF WriterInv
  <1>. QED BY <1>2, <1>3, <1>4 DEF WriterInv

LEMMA ReaderTailMoved ==
    ASSUME TypeInv, ReaderInv, tail' \in Position, Before(tail, tail'), tail' # tail,
           r'.tail = r.tail, r'.pc # "copy" \/ r' = r
    PROVE  ReaderInv'
  <1>1. r.tail \in Position /\ tail \in Position
    BY DEF TypeInv, ReaderType
  <1>2. Before(r.tail, tail') /\ r.tail # tail'
    BY <1>1, Forwards DEF ReaderInv
  <1>. QED BY <1>2 DEF ReaderInv, BufferLength

\* The entry that is taken is the first one, whole.
LEMMA TookFirst ==
    ASSUME Assumed, IInv, TakeEntry, tail = r.tail
    PROVE  LET d == View[0].length
           IN  /\ d \in 1..Inside /\ Boundary(View, Inside, d) /\ tail' = Complete(tail, d)
               /\ View[d - 1].entry = View[0].entry /\ r.value = View[0].entry
               /\ View[0].entry \in 1..published
               /\ popped' = Append(popped, View[0].entry)
               /\ r' = [r EXCEPT !.pc = "tail"]
               /\ UNCHANGED <<cells, head, reservedPID, reserved, written, bell, w, published>>
  <1>1. /\ r.pc = "copy" /\ r.done = BufferLength /\ tail' = NewTail
        /\ popped' = Append(popped, r.value)
        /\ r' = [r EXCEPT !.pc = IF r.value \in Unknown THEN "flush" ELSE "tail"]
        /\ UNCHANGED <<cells, head, reservedPID, reserved, written, bell, w, published>>
    BY DEF TakeEntry, ReaderIsAt
  <1>2. PICK d : d = View[0].length
    OBVIOUS
  <1>3. /\ r.size \in 0..Size /\ Size \in Nat /\ tail.at \in 0..(Size - 1) /\ tail.round \in Nat
        /\ r.size > 0 /\ Inside > 0 /\ d = 2 + r.size /\ Inside \in 0..(Size - 1)
    BY <1>1, <1>2, ViewFacts, LengthFacts DEF IInv, TypeInv, ReaderInv, ReaderType, Position, Index
  <1>4. /\ d \in Lengths /\ d <= Inside /\ View[0].entry \in 1..published
        /\ \A q \in 0..(d - 1) : View[q].entry = View[0].entry
        /\ Boundary(View, Inside, d)
    BY <1>2, <1>3, FirstEntry DEF IInv
  <1>5. BufferLength = r.size
    <2>1. d <= 2 + ReadSize /\ ReadSize \in Nat
      BY <1>4, LengthFacts DEF Assumed
    <2>. QED BY <1>3, <2>1 DEF BufferLength
  <1>6. r.value = View[0].entry
    BY <1>1, <1>3, <1>5 DEF IInv, ReaderInv
  <1>7. tail' = Complete(tail, d)
    <2>1. /\ d \in 0..(Size - 1) /\ tail.at \in Index
      BY <1>3, <1>4 DEF Index
    <2>2. At(tail.at + d) = IF tail.at + d < Size THEN tail.at + d ELSE (tail.at + d) - Size
      BY <2>1, AtPlus
    <2>3. NewTail = LET offset == tail.at + 2
                    IN  CASE offset + r.size < Size -> [round |-> tail.round, at |-> offset + r.size]
                          [] offset > Size -> [round |-> tail.round + 1, at |-> (offset - Size) + r.size]
                          [] OTHER -> [round |-> tail.round + 1, at |-> r.size - (Size - offset)]
      BY <1>5, LengthFacts DEF NewTail
    <2>4. NewTail = IF tail.at + d < Size
                    THEN [round |-> tail.round, at |-> tail.at + d]
                    ELSE [round |-> tail.round + 1, at |-> (tail.at + d) - Size]
      <3>1. CASE tail.at + d < Size
        <4>1. /\ (tail.at + 2) + r.size = tail.at + d /\ (tail.at + 2) + r.size < Size
              /\ ~(tail.at + 2 > Size)
          BY <1>3, <3>1
        <4>. QED BY <2>3, <3>1, <4>1
      <3>2. CASE tail.at + d >= Size /\ tail.at + 2 > Size
        <4>1. /\ ((tail.at + 2) - Size) + r.size = (tail.at + d) - Size
              /\ ~((tail.at + 2) + r.size < Size) /\ ~(tail.at + d < Size)
          BY <1>3, <3>2
        <4>. QED BY <2>3, <3>2, <4>1
      <3>3. CASE tail.at + d >= Size /\ tail.at + 2 <= Size
        <4>1. /\ r.size - (Size - (tail.at + 2)) = (tail.at + d) - Size
              /\ ~((tail.at + 2) + r.size < Size) /\ ~(tail.at + d < Size)
              /\ ~(tail.at + 2 > Size)
          BY <1>3, <3>3
        <4>. QED BY <2>3, <4>1
      <3>. QED BY <1>3, <3>1, <3>2, <3>3
    <2>5. At(tail.at + d) < tail.at <=> ~(tail.at + d < Size)
      BY <1>3, <2>1, <2>2
    <2>. QED BY <1>1, <2>2, <2>4, <2>5 DEF Complete
  <1>8. d \in 1..Inside /\ View[d - 1].entry = View[0].entry
    <2>1. d \in 1..Inside /\ d - 1 \in 0..(d - 1)
      BY <1>3, <1>4
    <2>. QED BY <1>4, <2>1
  <1>9. r' = [r EXCEPT !.pc = "tail"]
    BY <1>1 DEF Assumed
  <1>. QED BY <1>1, <1>2, <1>4, <1>6, <1>7, <1>8, <1>9

LEMMA TakeEntryInv ==
    ASSUME Assumed, IInv, TakeEntry
    PROVE  IInv'
  <1>1. CASE tail = r.tail
    <2>1. PICK d : d = View[0].length
      OBVIOUS
    <2>2. /\ d \in 1..Inside /\ Boundary(View, Inside, d) /\ tail' = Complete(tail, d)
          /\ View[0].entry \in 1..published
          /\ popped' = Append(popped, View[0].entry) /\ r' = [r EXCEPT !.pc = "tail"]
          /\ UNCHANGED <<cells, head, reservedPID, reserved, written, bell, w, published>>
      BY <1>1, <2>1, TookFirst
    <2>3. /\ tail' \in Position /\ Before(tail, tail') /\ tail' # tail
          /\ Inside' = Inside - d /\ RowInv'
      BY <2>2, TailMoved DEF IInv
    <2>4. r' \in ReaderType /\ r'.tail = r.tail /\ r'.pc = "tail"
      BY <2>2 DEF IInv, TypeInv, ReaderType, ReaderSteps
    <2>5. View[0].entry \in 0..MaxEntries /\ popped \in Seq(0..MaxEntries)
      BY <2>2, LengthFacts DEF IInv, TypeInv
    <2>6. TypeInv'
      BY <2>2, <2>3, <2>4, <2>5 DEF IInv, TypeInv, bell
    <2>7. Inside' \in Nat /\ Inside' <= Inside
      BY <2>2, <2>3, ViewFacts DEF IInv
    <2>8. WriterInv'
      BY <2>2, <2>3, <2>7, WriterTailMoved DEF IInv
    <2>9. ReaderInv'
      BY <2>3, <2>4, ReaderTailMoved DEF IInv
    <2>. QED BY <2>3, <2>6, <2>8, <2>9 DEF IInv
  <1>2. CASE tail # r.tail
    <2>1. /\ UNCHANGED <<shared, bell, w, published, popped>>
          /\ r' = [r EXCEPT !.pc = "tail"]
      BY <1>2 DEF TakeEntry, ReaderIsAt, shared
    <2>2. r' \in ReaderType /\ r'.tail = r.tail /\ r'.pc = "tail"
      BY <2>1 DEF IInv, TypeInv, ReaderType, ReaderSteps
    <2>3. ReaderInv'
      BY <2>1, <2>2, ViewKept DEF IInv, ReaderInv, shared
    <2>. QED BY <2>1, <2>2, <2>3, QuietReader DEF IInv, TypeInv, bell
  <1>. QED BY <1>1, <1>2

-----------------------------------------------------------------------------
(* The steps of the writer.                                                 *)

LEMMA QuietWriter ==
    ASSUME IInv, UNCHANGED <<cells, head, tail, event, bound, r, published, popped>>,
           inflight' \in BOOLEAN, reservedPID' \in BOOLEAN,
           reserved' \in 0..Size, written' \in 0..Size,
           w' \in WriterType, WriterInv'
    PROVE  IInv'
  BY RowKept, ReaderKept DEF IInv, TypeInv

LEMMA ReserveInv ==
    ASSUME IInv, Reserve
    PROVE  IInv'
  <1>1. /\ UNCHANGED <<cells, head, tail, bell, reserved, written, r, published, popped>>
        /\ reservedPID' = TRUE /\ published < MaxEntries
    BY DEF Reserve, WriterIsAt
  <1>2. PICK n \in Lengths : w' = [w EXCEPT !.pc = "assure", !.length = n]
    BY DEF Reserve
  <1>3. /\ w' \in WriterType /\ w'.pc = "assure" /\ w'.length = n /\ w'.tail = w.tail
    BY <1>2, LengthFacts DEF IInv, TypeInv, WriterType, WriterSteps
  <1>4. WriterInv'
    BY <1>1, <1>3 DEF IInv, WriterInv
  <1>. QED BY <1>1, <1>3, <1>4, QuietWriter DEF IInv, TypeInv, bell

\* What is read of the tail is exact at that moment.
LEMMA LoadedTail ==
    ASSUME IInv, UNCHANGED <<cells, head, tail, published>>,
           w'.pc = "room", w.pc \in {"assure", "room"}, w'.tail = tail, w'.length = w.length,
           w'.free = Free(head, tail.at), w'.skip = 0
    PROVE  WriterInv'
  <1>1. /\ Inside \in 0..(Size - 1) /\ Size \in Nat /\ Free(head, tail.at) = Size - Inside
        /\ tail \in Position
    BY ViewFacts DEF IInv, TypeInv
  <1>2. Boundary(View, Inside, 0)
    BY <1>1, FirstEntry DEF Boundary, IInv
  <1>3. Inside' = Inside /\ View' = View
    BY ViewKept
  <1>4. Before(tail, tail)
    BY <1>1, BeforeSelf
  <1>5. w.length \in Lengths /\ published < MaxEntries
    BY DEF IInv, WriterInv
  <1>. QED BY <1>1, <1>2, <1>3, <1>4, <1>5 DEF WriterInv

LEMMA AssureInv ==
    ASSUME IInv, Assure
    PROVE  IInv'
  <1>1. /\ UNCHANGED <<shared, bell, r, published, popped>> /\ w.pc = "assure"
        /\ w' = [w EXCEPT !.pc = "room", !.tail = tail, !.free = Free(head, tail.at), !.skip = 0]
    BY DEF Assure, WriterIsAt
  <1>2. Free(head, tail.at) \in Nat /\ tail \in Position /\ w \in WriterType
    BY ViewFacts DEF IInv, TypeInv
  <1>3. /\ w' \in WriterType /\ w'.pc = "room" /\ w'.tail = tail /\ w'.length = w.length
        /\ w'.free = Free(head, tail.at) /\ w'.skip = 0
    BY <1>1, <1>2 DEF WriterType, WriterSteps
  <1>4. WriterInv'
    BY <1>1, <1>3, LoadedTail DEF shared
  <1>. QED BY <1>1, <1>3, <1>4, QuietWriter DEF IInv, TypeInv, bell, shared

\* As long as more has to go, the next entry is one that is in the buffer.
LEMMA ForwardInv ==
    ASSUME IInv, Forward
    PROVE  IInv'
  <1>1. /\ UNCHANGED <<shared, bell, r, published, popped>> /\ w.pc = "room"
        /\ w.free <= w.length /\ w.skip < Remaining
    BY DEF Forward, WriterIsAt, NoRoom
  <1>2. PICK n \in Peeked(w.tail.at + w.skip) : w' = [w EXCEPT !.skip = @ + n]
    BY DEF Forward
  <1>3. /\ w \in WriterType /\ w.skip \in Nat /\ w.free \in Nat /\ w.length \in Lengths
        /\ w.tail.at \in Nat /\ WriterInv
    BY <1>1 DEF IInv, TypeInv, WriterType, WriterInv, Position, Index
  <1>4. n \in Nat
    <2>1. w.tail.at + w.skip \in Nat
      BY <1>3
    <2>. QED BY <2>1, PeekedIs, LengthFacts DEF IInv
  <1>5. PICK k \in Nat : k = w.skip + n
    BY <1>3, <1>4
  <1>6. w' \in WriterType /\ w' = [w EXCEPT !.skip = k]
    BY <1>2, <1>3, <1>5 DEF WriterType
  <1>7. w.tail = tail => Boundary(View, Inside, k)
    <2>1. SUFFICES ASSUME w.tail = tail PROVE Boundary(View, Inside, k)
      OBVIOUS
    <2>2. w.free + Inside = Size /\ Boundary(View, Inside, w.skip) /\ Inside \in 0..(Size - 1)
          /\ Size \in Nat /\ published \in Nat /\ Row(View, Inside, published)
      BY <1>1, <1>3, <2>1, ViewFacts DEF WriterInv, IInv, RowInv, TypeInv
    <2>3. w.skip < Inside
      BY <1>1, <1>3, <2>2, LengthFacts DEF Remaining
    <2>4. w.skip \in 0..(Inside - 1) /\ View[w.skip].at = 0
      BY <1>3, <2>2, <2>3 DEF Boundary
    <2>5. n = View[w.skip].length
      <3>1. Peeked(tail.at + w.skip) = {View[w.skip].length}
        BY <2>4, PeekedIs DEF IInv
      <3>2. Peeked(w.tail.at + w.skip) = {View[w.skip].length}
        BY <2>1, <3>1
      <3>. QED BY <1>2, <3>2
    <2>6. Inside \in Nat
      BY <2>2
    <2>7. Boundary(View, Inside, w.skip + View[w.skip].length)
      BY <2>2, <2>4, <2>6, RowNext
    <2>. QED BY <1>5, <2>5, <2>7
  <1>8. Inside' = Inside /\ View' = View /\ tail' = tail
    BY <1>1, ViewKept DEF shared
  <1>9. WriterInv'
    BY <1>1, <1>3, <1>6, <1>7, <1>8 DEF WriterInv, WriterType
  <1>. QED BY <1>1, <1>6, <1>9, QuietWriter DEF IInv, TypeInv, bell, shared

\* What the writer passed are whole entries, and the tail moves behind them.
LEMMA Passed ==
    ASSUME IInv, MoveTail, tail = w.tail
    PROVE  /\ w.skip \in 1..Inside /\ Boundary(View, Inside, w.skip)
           /\ tail' = Complete(tail, w.skip)
           /\ w' = [w EXCEPT !.free = Free(head, tail'.at), !.skip = 0]
           /\ UNCHANGED <<cells, head, reservedPID, reserved, written, bell, r, published, popped>>
  <1>1. /\ w.pc = "room" /\ w.free <= w.length /\ w.skip >= Remaining
        /\ tail' = Complete(tail, w.skip)
        /\ w' = [w EXCEPT !.free = Free(head, tail'.at), !.skip = 0]
        /\ UNCHANGED <<cells, head, reservedPID, reserved, written, bell, r, published, popped>>
    BY DEF MoveTail, WriterIsAt, NoRoom
  <1>2. /\ w.skip \in Nat /\ w.free \in Nat /\ w.length \in Nat /\ Inside \in Nat
        /\ Boundary(View, Inside, w.skip)
    BY <1>1, ViewFacts DEF IInv, TypeInv, WriterType, WriterInv
  <1>3. w.skip \in 1..Inside
    BY <1>1, <1>2 DEF Remaining, Boundary
  <1>. QED BY <1>1, <1>2, <1>3

LEMMA MoveTailInv ==
    ASSUME IInv, MoveTail
    PROVE  IInv'
  <1>1. CASE tail = w.tail
    <2>1. PICK d : d = w.skip
      OBVIOUS
    <2>2. /\ d \in 1..Inside /\ Boundary(View, Inside, d) /\ tail' = Complete(tail, d)
          /\ w' = [w EXCEPT !.free = Free(head, tail'.at), !.skip = 0]
          /\ UNCHANGED <<cells, head, reservedPID, reserved, written, bell, r, published, popped>>
      BY <1>1, <2>1, Passed
    <2>3. /\ tail' \in Position /\ Before(tail, tail') /\ tail' # tail
          /\ Inside' = Inside - d /\ RowInv'
      BY <2>2, TailMoved DEF IInv
    <2>4. Free(head, tail'.at) = Size - Inside' /\ Inside' \in 0..(Size - 1) /\ Size \in Nat
      <3>1. PICK at \in Index : at = tail'.at
        BY <2>3 DEF Position
      <3>2. Inside' = Used(head, at) /\ head \in Index
        BY <2>2, <3>1 DEF Inside, IInv, TypeInv
      <3>3. Free(head, at) = Size - Used(head, at) /\ Used(head, at) \in 0..(Size - 1) /\ Size \in Nat
        BY <3>2, UsedIs
      <3>4. Free(head, tail'.at) = Free(head, at)
        BY <3>1, Zenon
      <3>. QED BY <3>2, <3>3, <3>4
    <2>5. PICK k : k = Free(head, tail'.at)
      OBVIOUS
    <2>6. k \in Nat /\ k + Inside' = Size
      <3>1. PICK i \in 0..(Size - 1) : i = Inside'
        BY <2>4
      <3>2. k = Size - i
        BY <2>4, <2>5, <3>1
      <3>3. Size - i \in Nat /\ (Size - i) + i = Size
        <4>1. Size \in Nat
          BY LengthFacts
        <4>. QED BY <4>1
      <3>. QED BY <3>1, <3>2, <3>3
    <2>7. w \in WriterType /\ w.pc = "room" /\ w.length \in Lengths /\ published < MaxEntries
      BY DEF IInv, TypeInv, WriterInv, MoveTail, WriterIsAt
    <2>8. /\ w' \in WriterType /\ w'.pc = "room" /\ w'.tail = tail /\ w'.length = w.length
          /\ w'.free = k
      BY <1>1, <2>2, <2>5, <2>6, <2>7 DEF WriterType
    <2>9. WriterInv'
      BY <2>2, <2>3, <2>4, <2>6, <2>7, <2>8 DEF WriterInv
    <2>10. ReaderInv'
      BY <2>2, <2>3, ReaderTailMoved DEF IInv
    <2>11. TypeInv'
      BY <2>2, <2>3, <2>8 DEF IInv, TypeInv, bell
    <2>. QED BY <2>3, <2>9, <2>10, <2>11 DEF IInv
  <1>2. CASE tail # w.tail
    <2>1. /\ UNCHANGED <<shared, bell, r, published, popped>> /\ w.pc = "room"
          /\ w' = [w EXCEPT !.tail = tail, !.free = Free(head, tail.at), !.skip = 0]
      BY <1>2 DEF MoveTail, WriterIsAt, shared
    <2>2. Free(head, tail.at) \in Nat /\ tail \in Position /\ w \in WriterType
      BY ViewFacts DEF IInv, TypeInv
    <2>3. /\ w' \in WriterType /\ w'.pc = "room" /\ w'.tail = tail /\ w'.length = w.length
          /\ w'.free = Free(head, tail.at) /\ w'.skip = 0
      BY <2>1, <2>2 DEF WriterType
    <2>4. WriterInv'
      BY <2>1, <2>3, LoadedTail DEF shared
    <2>. QED BY <2>1, <2>3, <2>4, QuietWriter DEF IInv, TypeInv, bell, shared
  <1>. QED BY <1>1, <1>2

\* There is room: the writer knows of too little of it rather than too much.
LEMMA ReservedInv ==
    ASSUME IInv, Reserved
    PROVE  IInv'
  <1>1. /\ UNCHANGED <<cells, head, tail, reservedPID, bell, r, published, popped>>
        /\ w.pc = "room" /\ ~(w.free <= w.length)
        /\ w' = [w EXCEPT !.pc = "header"] /\ reserved' = w.length /\ written' = 0
    BY DEF Reserved, WriterIsAt, NoRoom
  <1>2. /\ w \in WriterType /\ w.free \in Nat /\ w.length \in Lengths /\ published < MaxEntries
        /\ w.free + Inside <= Size /\ Before(w.tail, tail)
    BY <1>1 DEF IInv, TypeInv, WriterInv, WriterType
  <1>3. w.length \in 0..Size /\ Size \in Nat /\ Inside \in Nat /\ 0 \in 0..Size
    BY <1>2, LengthFacts, ViewFacts DEF IInv
  <1>4. Inside + w.length < Size
    BY <1>1, <1>2, <1>3
  <1>5. /\ w' \in WriterType /\ w'.pc = "header" /\ w'.tail = w.tail /\ w'.length = w.length
    BY <1>1, <1>2 DEF WriterType, WriterSteps
  <1>6. Inside' = Inside /\ View' = View
    BY <1>1, ViewKept
  <1>7. WriterInv'
    BY <1>1, <1>2, <1>4, <1>5, <1>6 DEF WriterInv
  <1>8. inflight' \in BOOLEAN /\ reservedPID' \in BOOLEAN
    BY <1>1 DEF IInv, TypeInv, bell
  <1>. QED BY <1>1, <1>3, <1>5, <1>7, <1>8, QuietWriter DEF bell

\* From one index to another that is behind it on the ring.
LEMMA Behind ==
    ASSUME NEW t \in Index, NEW m \in 0..(Size - 1), NEW p \in 0..(m - 1)
    PROVE  Used(At(t + p), At(t + m)) = Size - (m - p)
  <1>1. t \in 0..(Size - 1) /\ Size \in Nat /\ p \in 0..(Size - 1)
    BY UsedIs
  <1>2. /\ At(t + p) = IF t + p < Size THEN t + p ELSE (t + p) - Size
        /\ At(t + m) = IF t + m < Size THEN t + m ELSE (t + m) - Size
    BY <1>1, AtPlus
  <1>. QED BY <1>1, <1>2 DEF Used

\* What is stored goes behind what has been stored of the entry, in free room.
LEMMA StoreIs ==
    ASSUME TypeInv, NEW n \in Nat, Inside + written + n < Size, published < MaxEntries,
           w.length \in 0..Size, Store(n), UNCHANGED <<head, tail>>
    PROVE  /\ cells' \in [Index -> Byte]
           /\ Inside' = Inside /\ View' = View
           /\ \A q \in 0..(written - 1) : cells'[At(head + q)] = cells[At(head + q)]
           /\ \A q \in written..(written + n - 1) :
                 cells'[At(head + q)] = [entry |-> published + 1, at |-> q, length |-> w.length]
  <1>1. /\ head \in Index /\ tail.at \in Index /\ Size \in Nat /\ written \in Nat
        /\ Inside \in 0..(Size - 1) /\ published \in Nat /\ MaxEntries \in Nat
        /\ cells \in [Index -> Byte] /\ published + 1 \in 0..MaxEntries
    BY ViewFacts, LengthFacts DEF TypeInv
  <1>2. PICK s : s = At(head + written)
    OBVIOUS
  <1>3. s \in Index
    BY <1>1, <1>2, AtIs DEF Index
  <1>4. ASSUME NEW i \in Index
        PROVE  cells'[i] = IF Used(i, s) < n
                           THEN [entry |-> published + 1, at |-> written + Used(i, s),
                                 length |-> w.length]
                           ELSE cells[i]
    BY <1>2 DEF Store
  <1>5. cells' \in [Index -> Byte]
    <2>1. ASSUME NEW i \in Index PROVE cells'[i] \in Byte
      <3>1. Used(i, s) \in Nat
        BY <1>3, UsedIs
      <3>2. Used(i, s) < n => written + Used(i, s) \in 0..Size
        BY <1>1, <3>1
      <3>3. Used(i, s) < n =>
               [entry |-> published + 1, at |-> written + Used(i, s), length |-> w.length] \in Byte
        BY <1>1, <3>2 DEF Byte
      <3>. QED BY <1>1, <1>4, <3>3
    <2>. QED BY <2>1 DEF Store
  <1>6. ASSUME NEW q \in 0..(written - 1)
        PROVE  cells'[At(head + q)] = cells[At(head + q)]
    <2>1. written \in 0..(Size - 1) /\ At(head + q) \in Index
      BY <1>1, AtIs DEF Index
    <2>2. Used(At(head + q), s) = Size - (written - q)
      BY <1>1, <1>2, <2>1, Behind
    <2>3. ~(Used(At(head + q), s) < n)
      BY <1>1, <2>2
    <2>. QED BY <1>4, <2>1, <2>3
  <1>7. ASSUME NEW q \in written..(written + n - 1)
        PROVE  cells'[At(head + q)] = [entry |-> published + 1, at |-> q, length |-> w.length]
    <2>1. PICK k \in 0..(n - 1) : k = q - written /\ q = written + k
      BY <1>1
    <2>2. /\ k \in 0..(Size - 1) /\ written \in 0..(Size - 1) /\ written + k < Size
      BY <1>1, <2>1
    <2>3. At(s + k) = At(head + q) /\ At(head + q) \in Index
      BY <1>1, <1>2, <2>1, <2>2, AtPlus
    <2>4. Used(At(s + k), s) = k
      BY <1>3, <2>2, AtPlus
    <2>5. Used(At(head + q), s) = k /\ k < n
      BY <2>1, <2>3, <2>4
    <2>. QED BY <1>4, <2>1, <2>3, <2>5
  <1>8. Inside' = Inside
    BY DEF Inside
  <1>9. ASSUME NEW p \in 0..(Inside - 1)
        PROVE  cells'[At(tail.at + p)] = cells[At(tail.at + p)]
    <2>1. PICK m : m = Inside + written
      OBVIOUS
    <2>2. m \in 0..(Size - 1) /\ p \in 0..(m - 1) /\ p \in 0..(Size - 1) /\ written \in 0..(Size - 1)
      BY <1>1, <2>1
    <2>3. head = At(tail.at + Inside)
      BY <1>1, UsedIs DEF Inside
    <2>4. s = At(tail.at + m)
      BY <1>1, <1>2, <2>1, <2>2, <2>3, AtPlus
    <2>5. Used(At(tail.at + p), s) = Size - (m - p)
      BY <1>1, <2>2, <2>4, Behind
    <2>6. ~(Used(At(tail.at + p), s) < n)
      BY <1>1, <2>1, <2>5
    <2>7. At(tail.at + p) \in Index
      BY <1>1, <2>2, AtPlus
    <2>. QED BY <1>4, <2>6, <2>7
  <1>10. View' = View
    BY <1>8, <1>9 DEF View
  <1>. QED BY <1>5, <1>6, <1>7, <1>8, <1>10

LEMMA StoreInv ==
    ASSUME IInv, w.pc \in {"header", "payload"}, NEW n \in Nat, Store(n),
           written' = written + n, written + n <= w.length,
           NEW step \in {"payload", "publish"}, w' = [w EXCEPT !.pc = step],
           written + n = IF step = "payload" THEN HeaderSize ELSE reserved,
           reservedPID' \in BOOLEAN, UNCHANGED <<head, tail, reserved, bell, r, published, popped>>
    PROVE  IInv' /\ Inside' = Inside /\ View' = View
  <1>1. /\ w \in WriterType /\ w.length \in Lengths /\ published < MaxEntries
        /\ reserved = w.length /\ Inside + w.length < Size /\ Before(w.tail, tail)
        /\ \A q \in 0..(written - 1) :
              cells[At(head + q)] = [entry |-> published + 1, at |-> q, length |-> w.length]
    BY DEF IInv, TypeInv, WriterInv
  <1>2. /\ w.length \in 0..Size /\ Size \in Nat /\ Inside \in Nat /\ written \in Nat
        /\ Inside + written + n < Size
    BY SMTT(20), <1>1, LengthFacts, ViewFacts DEF IInv, TypeInv
  <1>3. /\ cells' \in [Index -> Byte]
        /\ Inside' = Inside /\ View' = View
        /\ \A q \in 0..(written - 1) : cells'[At(head + q)] = cells[At(head + q)]
        /\ \A q \in written..(written + n - 1) :
              cells'[At(head + q)] = [entry |-> published + 1, at |-> q, length |-> w.length]
    BY <1>1, <1>2, StoreIs DEF IInv
  <1>4. /\ w' \in WriterType /\ w'.pc = step /\ w'.tail = w.tail /\ w'.length = w.length
    BY <1>1 DEF WriterType, WriterSteps
  <1>5. \A q \in 0..(written + n - 1) :
           cells'[At(head + q)] = [entry |-> published + 1, at |-> q, length |-> w.length]
    <2>1. \A q \in 0..(written + n - 1) : q \in 0..(written - 1) \/ q \in written..(written + n - 1)
      BY <1>2
    <2>. QED BY <1>1, <1>3, <2>1
  <1>6. WriterInv'
    <2>1. Before(w'.tail, tail') /\ w'.length \in Lengths /\ published' < MaxEntries
      BY <1>1, <1>4
    <2>2. /\ reserved' = w'.length /\ Inside' + w'.length < Size
          /\ written' = CASE w'.pc = "header" -> 0
                          [] w'.pc = "payload" -> HeaderSize
                          [] w'.pc = "publish" -> reserved'
      BY <1>1, <1>3, <1>4
    <2>3. \A q \in 0..(written' - 1) :
             cells'[At(head' + q)] = [entry |-> published' + 1, at |-> q, length |-> w'.length]
      <3>1. head' = head /\ published' = published /\ written' = written + n
        OBVIOUS
      <3>2. ASSUME NEW q \in 0..(written' - 1)
            PROVE  cells'[At(head' + q)] = [entry |-> published' + 1, at |-> q, length |-> w'.length]
        <4>1. q \in 0..(written + n - 1)
          BY <1>2, <3>1
        <4>2. cells'[At(head + q)] = [entry |-> published + 1, at |-> q, length |-> w.length]
          BY <1>5, <4>1
        <4>. QED BY <1>4, <3>1, <4>2
      <3>. QED BY <3>2
    <2>4. w'.pc # "room"
      BY <1>4
    <2>. QED BY <2>1, <2>2, <2>3, <2>4 DEF WriterInv
  <1>7. RowInv' /\ ReaderInv'
    BY <1>3 DEF IInv, RowInv, ReaderInv, BufferLength
  <1>8. TypeInv'
    BY <1>2, <1>3, <1>4 DEF IInv, TypeInv, bell
  <1>. QED BY <1>3, <1>6, <1>7, <1>8 DEF IInv

LEMMA WriteInv ==
    ASSUME IInv, WriteHeader \/ WritePayload
    PROVE  IInv' /\ Inside' = Inside /\ View' = View /\ UNCHANGED <<published, popped>>
  <1>1. CASE WriteHeader
    <2>1. /\ w.pc = "header" /\ Store(2) /\ written' = written + 2
          /\ w' = [w EXCEPT !.pc = "payload"]
          /\ UNCHANGED <<head, tail, reservedPID, reserved, bell, r, published, popped>>
      BY <1>1, LengthFacts DEF WriteHeader, WriterIsAt
    <2>2. written = 0 /\ w.length \in Lengths /\ reservedPID \in BOOLEAN
      BY <2>1 DEF IInv, TypeInv, WriterInv
    <2>3. written + 2 <= w.length /\ written + 2 = HeaderSize
      BY <2>2, LengthFacts
    <2>. QED BY <2>1, <2>2, <2>3, StoreInv
  <1>2. CASE WritePayload
    <2>1. /\ w.pc = "payload" /\ Store(reserved - written) /\ written' = reserved
          /\ w' = [w EXCEPT !.pc = "publish"] /\ reservedPID' = FALSE
          /\ UNCHANGED <<head, tail, reserved, bell, r, published, popped>>
      BY <1>2 DEF WritePayload, WriterIsAt
    <2>2. written = HeaderSize /\ w.length \in Lengths /\ reserved = w.length
      BY <2>1 DEF IInv, WriterInv
    <2>3. PICK n \in Nat : n = reserved - written /\ written + n = reserved
      BY <2>2, LengthFacts
    <2>4. Store(n) /\ written' = written + n /\ written + n <= w.length
      BY <2>1, <2>2, <2>3, LengthFacts
    <2>. QED BY <2>1, <2>2, <2>3, <2>4, StoreInv
  <1>. QED BY <1>1, <1>2

\* The head moves behind the entry, which is whole by then.
LEMMA PublishInv ==
    ASSUME IInv, Publish
    PROVE  /\ IInv'
           /\ published' = published + 1 /\ popped' = popped
           /\ Entries(View, Inside)' = Entries(View, Inside) \cup {published + 1}
  <1>1. /\ UNCHANGED <<cells, tail, reservedPID, reserved, written, bell, r, popped>>
        /\ w.pc = "publish" /\ head' = At(head + reserved) /\ published' = published + 1
        /\ w' = [w EXCEPT !.pc = "ring"]
    BY DEF Publish, WriterIsAt
  <1>2. PICK len \in Lengths : len = w.length
    BY <1>1 DEF IInv, WriterInv
  <1>3. /\ w \in WriterType /\ Before(w.tail, tail) /\ published < MaxEntries
        /\ reserved = len /\ Inside + len < Size
        /\ \A q \in 0..(len - 1) :
              cells[At(head + q)] = [entry |-> published + 1, at |-> q, length |-> len]
    <2>1. /\ w \in WriterType /\ Before(w.tail, tail) /\ published < MaxEntries
          /\ reserved = len /\ Inside + len < Size /\ written = len
      BY <1>1, <1>2 DEF IInv, TypeInv, WriterInv
    <2>2. \A q \in 0..(written - 1) :
              cells[At(head + q)] = [entry |-> published + 1, at |-> q, length |-> w.length]
      BY <1>1 DEF IInv, WriterInv
    <2>. QED BY <1>2, <2>1, <2>2
  <1>4. /\ head \in Index /\ tail.at \in Index /\ Size \in Nat /\ Inside \in 0..(Size - 1)
        /\ \A p \in 0..(Inside - 1) : View[p] = cells[At(tail.at + p)]
        /\ len \in Nat /\ len > 2 /\ published \in Nat /\ MaxEntries \in Nat
    BY ViewFacts, LengthFacts DEF IInv, TypeInv
  <1>5. head' \in Index
    <2>1. head + len \in Nat
      BY <1>4 DEF Index
    <2>. QED BY <1>1, <1>3, <2>1, AtIs
  <1>6. Inside' = Inside + len
    <2>1. Used(At(head + len), tail.at) = Used(head, tail.at) + len
      BY <1>3, <1>4, UsedMoved DEF Inside
    <2>. QED BY <1>1, <1>3, <2>1 DEF Inside
  <1>7. PICK g : g = View'
    OBVIOUS
  <1>8. ASSUME NEW p \in 0..(Inside + len - 1) PROVE g[p] = cells[At(tail.at + p)]
    <2>1. p \in 0..(Inside' - 1)
      BY <1>4, <1>6
    <2>2. cells' = cells /\ tail' = tail
      BY <1>1
    <2>. QED BY <1>7, <2>1, <2>2 DEF View
  <1>9. \A p \in 0..(Inside - 1) : g[p] = View[p]
    BY <1>4, <1>8
  <1>10. ASSUME NEW p \in Inside..(Inside + len - 1)
         PROVE  g[p] = [entry |-> published + 1, at |-> p - Inside, length |-> len]
    <2>1. PICK q \in 0..(len - 1) : q = p - Inside /\ p = Inside + q
      BY <1>4
    <2>2. q \in 0..(Size - 1) /\ Inside + q < Size /\ p \in 0..(Inside + len - 1)
      BY <1>3, <1>4, <2>1
    <2>3. head = At(tail.at + Inside)
      BY <1>4, UsedIs DEF Inside
    <2>4. At(head + q) = At(tail.at + p)
      BY <1>4, <2>1, <2>2, <2>3, AtPlus
    <2>5. g[p] = cells[At(head + q)]
      BY <1>8, <2>2, <2>4
    <2>. QED BY <1>3, <2>1, <2>5
  <1>11. /\ Row(g, Inside + len, published + 1)
         /\ Entries(g, Inside + len) = Entries(View, Inside) \cup {published + 1}
    <2>1. Row(View, Inside, published) /\ Inside \in Nat
      BY <1>4 DEF IInv, RowInv
    <2>. QED BY <1>4, <1>9, <1>10, <2>1, RowPut
  <1>12. tail.round < g[0].entry
    <2>1. CASE Inside = 0
      <3>1. 0 \in Inside..(Inside + len - 1)
        BY <1>4, <2>1
      <3>2. g[0].entry = published + 1
        <4>1. g[0] = [entry |-> published + 1, at |-> 0 - Inside, length |-> len]
          BY <1>10, <3>1
        <4>. QED BY <4>1
      <3>. QED BY <1>4, <2>1, <3>2 DEF IInv, RowInv, TypeInv, Position
    <2>2. CASE Inside > 0
      <3>1. g[0] = View[0]
        BY <1>4, <1>9, <2>2
      <3>. QED BY <2>2, <3>1 DEF IInv, RowInv
    <2>. QED BY <1>4, <2>1, <2>2
  <1>13. RowInv'
    <2>1. Inside' > 0 /\ tail' = tail /\ published' = published + 1
      BY <1>1, <1>4, <1>6
    <2>. QED BY <1>6, <1>7, <1>11, <1>12, <2>1 DEF RowInv
  <1>14. w' \in WriterType /\ w'.pc = "ring" /\ w'.tail = w.tail
    BY <1>1, <1>3 DEF WriterType, WriterSteps
  <1>15. WriterInv'
    BY <1>1, <1>3, <1>14 DEF WriterInv
  <1>16. ReaderInv'
    <2>1. r' = r /\ tail' = tail
      BY <1>1
    <2>2. Inside > 0 => Inside' > 0 /\ View'[0] = View[0]
      BY <1>4, <1>6, <1>7, <1>9
    <2>3. BufferLength' = BufferLength
      BY <2>1 DEF BufferLength
    <2>. QED BY <2>1, <2>2, <2>3 DEF IInv, ReaderInv
  <1>17. TypeInv'
    <2>1. published' \in 0..MaxEntries
      BY <1>1, <1>3, <1>4
    <2>. QED BY <1>1, <1>5, <1>14, <2>1 DEF IInv, TypeInv, bell
  <1>18. Entries(View, Inside)' = Entries(View, Inside) \cup {published + 1}
    <2>1. Entries(View', Inside') = Entries(View, Inside) \cup {published + 1}
      BY <1>6, <1>7, <1>11
    <2>. QED BY <2>1 DEF Entries
  <1>. QED BY <1>1, <1>13, <1>15, <1>16, <1>17, <1>18 DEF IInv

LEMMA RingOrDieInv ==
    ASSUME IInv, Ring \/ Die
    PROVE  IInv'
  <1>1. UNCHANGED <<shared, event, bound, r, published, popped>>
    BY DEF Ring, Die, WriterIsAt, bell
  <1>2. \E step \in {"idle", "dead"} : w' = [w EXCEPT !.pc = step]
    BY DEF Ring, Die
  <1>3. /\ w' \in WriterType /\ w'.pc \in {"idle", "dead"} /\ w'.tail = w.tail
    BY <1>2 DEF IInv, TypeInv, WriterType, WriterSteps
  <1>4. WriterInv'
    BY <1>1, <1>3 DEF IInv, WriterInv, shared
  <1>5. inflight' \in BOOLEAN
    <2>1. inflight' = inflight \/ inflight' = (inflight \/ bound)
      BY DEF Ring, Die, bell
    <2>2. inflight \in BOOLEAN /\ bound \in BOOLEAN
      BY DEF IInv, TypeInv
    <2>3. CASE inflight' = (inflight \/ bound)
      <3>1. (inflight \/ bound) \in BOOLEAN
        OBVIOUS
      <3>. QED BY <2>3, <3>1, Zenon
    <2>. QED BY <2>1, <2>2, <2>3
  <1>. QED BY <1>1, <1>3, <1>4, <1>5, QuietWriter DEF IInv, TypeInv, shared

LEMMA RingingInv ==
    ASSUME IInv, Ringing
    PROVE  IInv'
  <1>1. /\ UNCHANGED <<shared, bound, w, r, published, popped>>
        /\ inflight' = FALSE /\ event' = TRUE
    BY DEF Ringing
  <1>2. r' \in ReaderType /\ bound' \in BOOLEAN
    BY <1>1 DEF IInv, TypeInv
  <1>3. ReaderInv'
    BY <1>1, ReaderKept DEF IInv, shared
  <1>. QED BY <1>1, <1>2, <1>3, QuietReader

LEMMA InitInv ==
    ASSUME Init
    PROVE  IInv
  <1>1. /\ 0 \in Index /\ Size \in Nat /\ MaxEntries \in Nat
    BY LengthFacts DEF Index
  <1>2. cells \in [Index -> Byte]
    BY <1>1 DEF Init, Byte
  <1>3. tail \in Position /\ head \in Index
    BY <1>1 DEF Init, Position
  <1>4. w \in WriterType
    BY <1>3 DEF Init, WriterType, WriterSteps
  <1>5. r \in ReaderType
    <2>1. 0 \in 0..Size /\ 0 \in 0..MaxEntries
      BY <1>1
    <2>2. r = [pc |-> "construct", tail |-> tail, size |-> 0, done |-> 0, value |-> 0, head |-> 0]
      BY DEF Init
    <2>. QED BY <1>3, <2>1, <2>2 DEF ReaderType, ReaderSteps
  <1>6. TypeInv
    <2>1. /\ reservedPID = FALSE /\ reserved = 0 /\ written = 0 /\ published = 0
          /\ inflight = FALSE /\ event = FALSE /\ bound = FALSE /\ popped = << >>
      BY DEF Init
    <2>2. 0 \in 0..Size /\ 0 \in 0..MaxEntries /\ << >> \in Seq(0..MaxEntries)
      BY <1>1
    <2>. QED BY <1>2, <1>3, <1>4, <1>5, <2>1, <2>2 DEF TypeInv
  <1>7. Inside = 0
    BY <1>3, UsedIs DEF Init, Inside, Position
  <1>8. RowInv
    BY <1>7 DEF Init, RowInv, Row
  <1>9. Before(tail, tail)
    BY <1>3, BeforeSelf
  <1>10. WriterInv /\ ReaderInv
    BY <1>9 DEF Init, WriterInv, ReaderInv
  <1>. QED BY <1>6, <1>8, <1>10 DEF IInv

\* The reader does not flush, since it knows all types.
LEMMA NoFlush ==
    ASSUME IInv
    PROVE  ~FlushLoad /\ ~FlushStore
  <1>1. r.pc \in ReaderSteps
    BY DEF IInv, TypeInv, ReaderType
  <1>. QED BY <1>1 DEF FlushLoad, FlushStore, ReaderIsAt, ReaderSteps

LEMMA NextInv ==
    ASSUME Assumed, IInv, [Next]_vars
    PROVE  IInv'
  <1>1. CASE Next
    <2>1. CASE Writer
      BY <2>1, ReserveInv, AssureInv, ForwardInv, MoveTailInv, ReservedInv, WriteInv,
         PublishInv, RingOrDieInv DEF Writer
    <2>2. CASE Reader
      BY <2>2, ReaderWaits, PeekSizeInv, CheckTailInv, CopyByteInv, TakeEntryInv, NoFlush
      DEF Reader
    <2>. QED BY <1>1, <2>1, <2>2, RingOrDieInv, RingingInv DEF Next
  <1>2. CASE UNCHANGED vars
    <2>1. UNCHANGED <<shared, bell, w, r, published, popped>>
      BY <1>2 DEF vars
    <2>2. /\ inflight' \in BOOLEAN /\ event' \in BOOLEAN /\ bound' \in BOOLEAN
          /\ r' \in ReaderType
      BY <2>1 DEF IInv, TypeInv, bell
    <2>3. ReaderInv'
      BY <2>1, ReaderKept DEF IInv, shared
    <2>. QED BY <2>1, <2>2, <2>3, QuietReader
  <1>. QED BY <1>1, <1>2

LEMMA Invariance == ASSUME Assumed PROVE Spec => []IInv
  <1>1. Init => IInv
    BY InitInv
  <1>2. IInv /\ [Next]_vars => IInv'
    BY NextInv
  <1>. QED BY <1>1, <1>2, PTL DEF Spec

-----------------------------------------------------------------------------
(* The theorems.                                                            *)

\* Type correctness (all members of CyclicBuffer and the variables of the two
\* sides): whatever the reader and the writer read, the index of the tail stays
\* in the buffer, and its rounds are not more than the entries written.
THEOREM TypeCorrect == ASSUME Assumed PROVE Spec => []TypeOK
  <1>1. IInv => TypeOK
    <2>. SUFFICES ASSUME IInv PROVE TypeOK
      OBVIOUS
    <2>2. /\ tail \in Position /\ published \in 0..MaxEntries /\ Inside \in Nat
          /\ MaxEntries \in Nat
      BY ViewFacts, LengthFacts DEF IInv, TypeInv
    <2>3. tail.round <= published
      <3>1. CASE Inside = 0
        BY <3>1 DEF IInv, RowInv
      <3>2. CASE Inside > 0
        <4>1. View[0].entry \in 1..published
          BY <3>2, FirstEntry DEF IInv
        <4>2. tail.round < View[0].entry
          BY <3>2 DEF IInv, RowInv
        <4>. QED BY <2>2, <4>1, <4>2 DEF Position
      <3>. QED BY <2>2, <3>1, <3>2
    <2>4. tail \in [round : 0..MaxEntries, at : Index]
      BY <2>2, <2>3 DEF Position
    <2>. QED BY <2>4 DEF IInv, TypeInv, TypeOK, Byte
  <1>. QED BY <1>1, Invariance, PTL

\* The writer drops an entry only if the room there is does not suffice, the
\* room the reader has made by then included (AssureFreeSpace exchanges the
\* tail only for the one it has computed the room from).
THEOREM NoNeedlessLossHolds == ASSUME Assumed PROVE Spec => NoNeedlessLoss
  <1>1. IInv /\ [Next]_vars =>
           [MoveTail => tail' = tail \/ Free(head, tail.at) <= w.length]_vars
    <2>. SUFFICES ASSUME IInv, MoveTail, tail' # tail
                  PROVE  Free(head, tail.at) <= w.length
      OBVIOUS
    <2>2. tail = w.tail /\ w.pc = "room" /\ w.free <= w.length
      BY DEF MoveTail, WriterIsAt, NoRoom
    <2>3. w.free + Inside = Size /\ w.free \in Nat
      BY <2>2 DEF IInv, WriterInv, TypeInv, WriterType
    <2>4. Free(head, tail.at) = Size - Inside /\ Inside \in Nat /\ Size \in Nat
      BY ViewFacts DEF IInv
    <2>. QED BY <2>2, <2>3, <2>4
  <1>. QED BY <1>1, Invariance, PTL DEF NoNeedlessLoss, Spec

LEMMA ContentsIs == TypeInv => Contents = Entries(View, Inside)
  BY ContentsAre

LEMMA ContentsNext == TypeInv' => Contents' = Entries(View, Inside)'
  <1>1. TypeInv' => (Contents = Entries(View, Inside))'
    BY ContentsIs, PTL
  <1>. QED BY <1>1

\* The rows before and after a step, as far as the queue is concerned.
LEMMA SameContents ==
    ASSUME IInv, IInv', Inside' = Inside, View' = View, UNCHANGED <<published, popped>>
    PROVE  UNCHANGED Fifo!vars
  <1>1. Contents = Entries(View, Inside) /\ Contents' = Entries(View, Inside)'
    BY ContentsIs, ContentsNext DEF IInv
  <1>2. Entries(View, Inside)' = Entries(View, Inside)
    BY DEF Entries
  <1>. QED BY <1>1, <1>2 DEF Fifo!vars

LEMMA PublishPuts ==
    ASSUME IInv, IInv', Publish
    PROVE  Fifo!Put
  <1>1. Contents = Entries(View, Inside) /\ Contents' = Entries(View, Inside)'
    BY ContentsIs, ContentsNext DEF IInv
  <1>. QED BY <1>1, PublishInv DEF Fifo!Put

LEMMA MoveTailDrops ==
    ASSUME IInv, IInv', MoveTail, tail = w.tail
    PROVE  Fifo!Drop
  <1>1. Contents = Entries(View, Inside) /\ Contents' = Entries(View, Inside)'
    BY ContentsIs, ContentsNext DEF IInv
  <1>2. PICK d : d = w.skip
    OBVIOUS
  <1>3. /\ d \in 1..Inside /\ Boundary(View, Inside, d) /\ tail' = Complete(tail, d)
        /\ UNCHANGED <<cells, head, published, popped>>
    BY <1>2, Passed
  <1>4. /\ View[d - 1].entry \in Entries(View, Inside)
        /\ Entries(View, Inside)' = {e \in Entries(View, Inside) : e > View[d - 1].entry}
    BY <1>3, TailMoved DEF IInv
  <1>. QED BY <1>1, <1>3, <1>4 DEF Fifo!Drop

LEMMA TakeEntryTakes ==
    ASSUME Assumed, IInv, IInv', TakeEntry, tail = r.tail
    PROVE  Fifo!Take
  <1>1. Contents = Entries(View, Inside) /\ Contents' = Entries(View, Inside)'
    BY ContentsIs, ContentsNext DEF IInv
  <1>2. PICK d : d = View[0].length
    OBVIOUS
  <1>3. PICK n : n = View[0].entry
    OBVIOUS
  <1>4. /\ d \in 1..Inside /\ Boundary(View, Inside, d) /\ tail' = Complete(tail, d)
        /\ View[d - 1].entry = n /\ n \in 1..published
        /\ popped' = Append(popped, n)
        /\ UNCHANGED <<cells, head, published>>
    BY <1>2, <1>3, TookFirst
  <1>5. /\ n \in Entries(View, Inside)
        /\ Entries(View, Inside)' = {e \in Entries(View, Inside) : e > n}
    BY <1>4, TailMoved DEF IInv
  <1>6. \A e \in Entries(View, Inside) : e \in Nat /\ n <= e
    <2>1. Row(View, Inside, published) /\ Inside \in Nat /\ published \in Nat
      BY ViewFacts DEF IInv, RowInv, TypeInv
    <2>2. ASSUME NEW p \in 0..(Inside - 1) PROVE View[p].entry \in Nat /\ n <= View[p].entry
      <3>1. 0 \in 0..(Inside - 1) /\ 0 <= p
        BY <2>1
      <3>2. View[0].entry <= View[p].entry /\ View[p].entry \in 1..published
        BY <2>1, <3>1 DEF Row
      <3>. QED BY <1>3, <2>1, <3>2
    <2>. QED BY <2>2 DEF Entries
  <1>7. n \in Nat
    BY <1>5, <1>6
  <1>8. {e \in Entries(View, Inside) : e > n} = Entries(View, Inside) \ {n}
    BY <1>6, <1>7
  <1>. QED BY <1>1, <1>4, <1>5, <1>6, <1>8 DEF Fifo!Take

LEMMA FifoStep ==
    ASSUME Assumed, IInv, IInv', [Next]_vars
    PROVE  [Fifo!Next]_(Fifo!vars)
  <1>1. CASE UNCHANGED <<cells, head, tail, published, popped>>
    BY <1>1, ViewKept, SameContents
  <1>2. CASE WriteHeader \/ WritePayload
    BY <1>2, WriteInv, SameContents
  <1>3. CASE Publish
    BY <1>3, PublishPuts DEF Fifo!Next
  <1>4. CASE MoveTail
    <2>1. tail # w.tail => UNCHANGED <<cells, head, tail, published, popped>>
      BY <1>4 DEF MoveTail, WriterIsAt
    <2>. QED BY <1>1, <1>4, <2>1, MoveTailDrops DEF Fifo!Next
  <1>5. CASE TakeEntry
    <2>1. tail # r.tail => UNCHANGED <<cells, head, tail, published, popped>>
      BY <1>5 DEF TakeEntry, ReaderIsAt
    <2>. QED BY <1>1, <1>5, <2>1, TakeEntryTakes DEF Fifo!Next
  <1>6. CASE \/ Reserve \/ Assure \/ Forward \/ Reserved \/ Ring \/ Die \/ Ringing
             \/ Construct \/ Bind \/ Wait \/ Acknowledge \/ LoadTail \/ LoadHead \/ PeekSize
             \/ CheckTail \/ CopyByte
    <2>1. UNCHANGED <<cells, head, tail, published, popped>>
      BY <1>6 DEF Reserve, Assure, Forward, Reserved, Ring, Die, Ringing, Construct, Bind, Wait,
         Acknowledge, LoadTail, LoadHead, PeekSize, CheckTail, CopyByte, WriterIsAt, ReaderIsAt,
         shared
    <2>. QED BY <1>1, <2>1
  <1>7. CASE UNCHANGED vars
    BY <1>1, <1>7 DEF vars, shared
  <1>. QED BY <1>2, <1>3, <1>4, <1>5, <1>6, <1>7, NoFlush DEF Next, Writer, Reader

\* The buffer is a queue of whole messages (core/CyclicBuffer.h:243-246, the
\* claim on "writes of partial buffers"): whatever Reserve overwrites while Read
\* copies, and wherever the writer dies, the reader gets the oldest entry that
\* is left, and gets it whole.
THEOREM Refinement == ASSUME Assumed PROVE Spec => ImplementsFifo
  <1>1. Init => Fifo!Init
    <2>. SUFFICES ASSUME Init PROVE Fifo!Init
      OBVIOUS
    <2>2. Inside = 0
      BY LengthFacts DEF Init, Inside, Used
    <2>3. Contents = {}
      <3>1. Contents = Entries(View, Inside)
        BY InitInv, ContentsIs DEF IInv
      <3>2. 0..(Inside - 1) = {}
        BY <2>2
      <3>. QED BY <3>1, <3>2 DEF Entries
    <2>. QED BY <2>3 DEF Init, Fifo!Init
  <1>2. IInv /\ IInv' /\ [Next]_vars => [Fifo!Next]_(Fifo!vars)
    BY FifoStep
  <1>. QED BY <1>1, <1>2, Invariance, PTL DEF Spec, ImplementsFifo, Fifo!Spec

-----------------------------------------------------------------------------
(* What LossyFifo says of the messages taken.                               *)

\* Each message taken has been put, and was taken once, before all that were put
\* after it and before all that are left.
InOrder(put, queue, taken) ==
    /\ put \in Nat /\ queue \subseteq 1..put /\ taken \in Seq(1..put)
    /\ \A i, j \in 1..Len(taken) : i < j => taken[i] < taken[j]
    /\ \A i \in 1..Len(taken) : \A k \in queue : taken[i] < k

LEMMA PutInOrder ==
    ASSUME NEW put, NEW queue, NEW taken, InOrder(put, queue, taken)
    PROVE  InOrder(put + 1, queue \cup {put + 1}, taken)
  <1>1. /\ put \in Nat /\ Len(taken) \in Nat
        /\ \A i \in 1..Len(taken) : taken[i] \in 1..put
        /\ 1..put \subseteq 1..(put + 1)
    BY DEF InOrder
  <1>2. taken \in Seq(1..(put + 1))
    BY <1>1 DEF InOrder
  <1>. QED BY <1>1, <1>2 DEF InOrder

LEMMA TakeInOrder ==
    ASSUME NEW put, NEW queue, NEW taken, InOrder(put, queue, taken),
           NEW n \in queue, \A k \in queue : n <= k
    PROVE  InOrder(put, queue \ {n}, Append(taken, n))
  <1>. PICK more : more = Append(taken, n)
    OBVIOUS
  <1>1. /\ put \in Nat /\ n \in 1..put /\ Len(taken) \in Nat
        /\ \A i \in 1..Len(taken) : taken[i] \in 1..put
    BY DEF InOrder
  <1>2. /\ more \in Seq(1..put) /\ Len(more) = Len(taken) + 1
        /\ \A i \in 1..Len(taken) : more[i] = taken[i]
        /\ more[Len(taken) + 1] = n
    BY <1>1 DEF InOrder
  <1>3. \A i \in 1..Len(more) : i \in 1..Len(taken) \/ i = Len(taken) + 1
    BY <1>1, <1>2
  <1>4. ASSUME NEW i \in 1..Len(more), NEW j \in 1..Len(more), i < j
        PROVE  more[i] < more[j]
    <2>1. i \in 1..Len(taken)
      BY <1>1, <1>2, <1>4
    <2>. QED BY <1>2, <1>3, <1>4, <2>1 DEF InOrder
  <1>5. ASSUME NEW i \in 1..Len(more), NEW k \in queue \ {n}
        PROVE  more[i] < k
    <2>1. n < k
      BY <1>1 DEF InOrder
    <2>. QED BY <1>2, <1>3, <2>1 DEF InOrder
  <1>6. queue \ {n} \subseteq 1..put
    BY DEF InOrder
  <1>. QED BY <1>1, <1>2, <1>4, <1>5, <1>6 DEF InOrder

LEMMA InOrderStep ==
    InOrder(published, Contents, popped) /\ [Fifo!Next]_(Fifo!vars)
        => InOrder(published, Contents, popped)'
  <1>. SUFFICES ASSUME InOrder(published, Contents, popped), [Fifo!Next]_(Fifo!vars)
                PROVE  InOrder(published', Contents', popped')
    BY DEF InOrder
  <1>. PICK put, queue, taken : put = published /\ queue = Contents /\ taken = popped
    OBVIOUS
  <1>1. InOrder(put, queue, taken)
    OBVIOUS
  <1>2. CASE Fifo!Put
    <2>1. published' = put + 1 /\ Contents' = queue \cup {put + 1} /\ popped' = taken
      BY <1>2 DEF Fifo!Put
    <2>. QED BY <1>1, <2>1, PutInOrder
  <1>3. CASE Fifo!Drop
    <2>1. Contents' \subseteq queue /\ published' = put /\ popped' = taken
      BY <1>3 DEF Fifo!Drop
    <2>. QED BY <1>1, <2>1 DEF InOrder
  <1>4. CASE Fifo!Take
    <2>1. PICK n \in queue : /\ \A k \in queue : n <= k
                             /\ popped' = Append(taken, n) /\ Contents' = queue \ {n}
                             /\ published' = put
      BY <1>4 DEF Fifo!Take
    <2>. QED BY <1>1, <2>1, TakeInOrder
  <1>5. CASE UNCHANGED Fifo!vars
    BY <1>1, <1>5 DEF Fifo!vars
  <1>. QED BY <1>2, <1>3, <1>4, <1>5 DEF Fifo!Next

\* PopData gives out entries that have been published, whole (a mixture would be
\* 0), none of them twice and each after all earlier ones, for any behaviour of
\* the writer.
THEOREM ReadInOrder ==
    ASSUME Assumed
    PROVE  Spec => [](/\ popped \in Seq(1..published)
                      /\ \A i, j \in 1..Len(popped) : i < j => popped[i] < popped[j])
  <1>1. Fifo!Init => InOrder(published, Contents, popped)
    BY DEF Fifo!Init, InOrder
  <1>2. InOrder(published, Contents, popped) =>
           /\ popped \in Seq(1..published)
           /\ \A i, j \in 1..Len(popped) : i < j => popped[i] < popped[j]
    BY DEF InOrder
  <1>. QED BY <1>1, <1>2, InOrderStep, Refinement, PTL DEF ImplementsFifo, Fifo!Spec
=============================================================================
