--------------------------- MODULE MessageBuffer ---------------------------
(***************************************************************************)
(* A buffer in shared memory through which the messages (traces, logs) of  *)
(* one process reach the reader in another: CyclicBuffer with the entries  *)
(* of MessageDataBuffer, and the doorbell that wakes the MessageClient.    *)
(*                                                                         *)
(* Reader and writer share no lock.  They agree through _tail, which both  *)
(* move by compare-and-exchange, and _head, which only the writer moves.   *)
(* The writer makes room by moving the tail before it overwrites anything; *)
(* the reader copies an entry first and then finds out whether the tail is *)
(* still where it was.  The writer stands for all threads of its process,  *)
(* which PushData serialises by _dataLock; it may die at any point.        *)
(*                                                                         *)
(* A byte of an entry is the number of the entry and its place in it; the  *)
(* first HeaderSize bytes hold the length.                                 *)
(***************************************************************************)
EXTENDS Naturals, Sequences

CONSTANTS
    Size,           \* _size
    Lengths,        \* the lengths of entries, header included
    ReadSize,       \* the size of the buffer of the reader
    Unknown,        \* the entries of a type the reader has no factory for
    MaxEntries      \* bound: entries in a behaviour

HeaderSize == 2

ASSUME SizeAssumption ==
    /\ Size \in Nat \ {0} /\ ReadSize \in Nat \ {0} /\ MaxEntries \in Nat
    /\ Lengths \subseteq (HeaderSize + 1)..(Size - 1)
    /\ Unknown \subseteq 1..MaxEntries

VARIABLES
    cells,          \* _realBuffer
    head,           \* _head
    tail,           \* _tail: its index and the rounds it has made
    reservedPID,    \* _reservedPID is not 0
    reserved,       \* _reserved
    written,        \* _reservedWritten
    inflight,       \* a ring is on its way to the socket of the reader
    event,          \* _signal of the doorbell of the reader
    bound,          \* the reader has bound that socket
    w,              \* the writer: where it is in PushData, and its local variables
    r,              \* the reader: the same for the loop over PopData
    published,      \* history: how many entries have been written
    popped          \* history: the entries the reader got, 0 for a mixture

shared == <<cells, head, tail, reservedPID, reserved, written>>
bell == <<inflight, event, bound>>
vars == <<shared, bell, w, r, published, popped>>

Index == 0..(Size - 1)
At(i) == i % Size

Used(h, t) == IF h >= t THEN h - t ELSE Size - (t - h)
Free(h, t) == IF h >= t THEN Size - (h - t) ELSE t - h

\* Mutant of Complete: the tail does not start again at the end of the buffer.
CompletePastEnd(t, offset) == [t EXCEPT !.at = @ + offset]

\* Cursor::GetCompleteTail.  The rounds are counted modulo 2^(31-k) for an index
\* of k bits, which no behaviour of MaxEntries entries reaches.
Complete(t, offset) ==
    LET at == At(t.at + offset)
    IN  [round |-> IF at < t.at THEN t.round + 1 ELSE t.round, at |-> at]

\* The length an entry has that starts at index i, as a cursor peeks it: what
\* is no header of one entry can be read as any number.
Peeked(i) ==
    LET first == cells[At(i)]
        second == cells[At(i + 1)]
    IN  IF first.entry = second.entry /\ first.at = 0 /\ second.at = 1
        THEN {first.length} ELSE 0..Size

Init ==
    /\ cells = [i \in Index |-> [entry |-> 0, at |-> 0, length |-> 0]]
    /\ head = 0
    /\ tail = [round |-> 0, at |-> 0]
    /\ reservedPID = FALSE /\ reserved = 0 /\ written = 0
    /\ inflight = FALSE /\ event = FALSE /\ bound = FALSE
    /\ w = [pc |-> "idle", length |-> 0, tail |-> tail, free |-> 0, skip |-> 0]
    /\ r = [pc |-> "construct", tail |-> tail, size |-> 0, done |-> 0, value |-> 0, head |-> 0]
    /\ published = 0
    /\ popped = << >>

-----------------------------------------------------------------------------
(* The writer: MessageDataBuffer::PushData.                                 *)

WriterIsAt(pc) == w.pc = pc /\ UNCHANGED <<r, popped>>

\* Reserve, up to the exchange of _reservedPID.
Reserve ==
    /\ WriterIsAt("idle") /\ published < MaxEntries
    /\ ~reservedPID
    /\ reservedPID' = TRUE
    /\ \E n \in Lengths : w' = [w EXCEPT !.pc = "assure", !.length = n]
    /\ UNCHANGED <<cells, head, tail, reserved, written, bell, published>>

\* AssureFreeSpace reads where the tail is ...
Assure ==
    /\ WriterIsAt("assure")
    /\ w' = [w EXCEPT !.pc = "room", !.tail = tail, !.free = Free(head, tail.at), !.skip = 0]
    /\ UNCHANGED <<shared, bell, published>>

NoRoom == w.free <= w.length
Remaining == (w.length + 1) - w.free

\* ... GetOverwriteSize goes from entry to entry until it has passed enough ...
Forward ==
    /\ WriterIsAt("room") /\ NoRoom /\ w.skip < Remaining
    /\ \E n \in Peeked(w.tail.at + w.skip) : w' = [w EXCEPT !.skip = @ + n]
    /\ UNCHANGED <<shared, bell, published>>

\* Mutant of MoveTail: the room the reader has made meanwhile is not noticed.
MoveTailStale ==
    /\ WriterIsAt("room") /\ NoRoom /\ w.skip >= Remaining
    /\ IF tail = w.tail
       THEN /\ tail' = Complete(w.tail, w.skip)
            /\ w' = [w EXCEPT !.free = Free(head, tail'.at), !.skip = 0]
       ELSE /\ w' = [w EXCEPT !.tail = tail, !.skip = 0]
            /\ UNCHANGED tail
    /\ UNCHANGED <<cells, head, reservedPID, reserved, written, bell, published>>

\* ... and the tail moves there, unless the reader has moved it.
MoveTail ==
    /\ WriterIsAt("room") /\ NoRoom /\ w.skip >= Remaining
    /\ IF tail = w.tail
       THEN /\ tail' = Complete(w.tail, w.skip)
            /\ w' = [w EXCEPT !.free = Free(head, tail'.at), !.skip = 0]
       ELSE /\ w' = [w EXCEPT !.tail = tail, !.free = Free(head, tail.at), !.skip = 0]
            /\ UNCHANGED tail
    /\ UNCHANGED <<cells, head, reservedPID, reserved, written, bell, published>>

Reserved ==
    /\ WriterIsAt("room") /\ ~NoRoom
    /\ w' = [w EXCEPT !.pc = "header"]
    /\ reserved' = w.length
    /\ written' = 0
    /\ UNCHANGED <<cells, head, tail, reservedPID, bell, published>>

\* The next n bytes of the entry, after those written already.
Store(n) ==
    cells' = [i \in Index |->
                LET at == Used(i, At(head + written))
                IN  IF at < n THEN [entry |-> published + 1, at |-> written + at,
                                    length |-> w.length]
                    ELSE cells[i]]

\* Write of the length: not all that is reserved, so the head stays.
WriteHeader ==
    /\ WriterIsAt("header")
    /\ Store(HeaderSize)
    /\ written' = written + HeaderSize
    /\ w' = [w EXCEPT !.pc = "payload"]
    /\ UNCHANGED <<head, tail, reservedPID, reserved, bell, published>>

\* Write of the value, which completes the reservation ...
WritePayload ==
    /\ WriterIsAt("payload")
    /\ Store(reserved - written)
    /\ written' = reserved
    /\ reservedPID' = FALSE
    /\ w' = [w EXCEPT !.pc = "publish"]
    /\ UNCHANGED <<head, tail, reserved, bell, published>>

\* ... and moves the head.
Publish ==
    /\ WriterIsAt("publish")
    /\ head' = At(head + reserved)
    /\ published' = published + 1
    /\ w' = [w EXCEPT !.pc = "ring"]
    /\ UNCHANGED <<cells, tail, reservedPID, reserved, written, bell>>

\* DoorBell::Ring in another process; a datagram to nobody is lost.
Ring ==
    /\ WriterIsAt("ring")
    /\ inflight' = (inflight \/ bound)
    /\ w' = [w EXCEPT !.pc = "idle"]
    /\ UNCHANGED <<shared, event, bound, published>>

Die ==
    /\ w.pc # "dead"
    /\ w' = [w EXCEPT !.pc = "dead"]
    /\ UNCHANGED <<shared, bell, r, published, popped>>

Writer ==
    \/ Reserve \/ Assure \/ Forward \/ MoveTail \/ Reserved
    \/ WriteHeader \/ WritePayload \/ Publish \/ Ring

-----------------------------------------------------------------------------
(* The reader: MessageClient::WaitForUpdates and PopMessagesAndCall.        *)

ReaderIsAt(pc) == r.pc = pc /\ UNCHANGED <<w, published>>

\* DoorBell::Connector::Handle on the thread of the resource monitor.
Ringing ==
    /\ inflight
    /\ inflight' = FALSE
    /\ event' = TRUE
    /\ UNCHANGED <<shared, bound, w, r, published, popped>>

\* The constructor rings its own bell when there are entries already.
Construct ==
    /\ ReaderIsAt("construct")
    /\ event' = (Used(head, tail.at) > 0)
    /\ r' = [r EXCEPT !.pc = "bind"]
    /\ UNCHANGED <<shared, inflight, bound, popped>>

\* DoorBell::Wait binds the socket the first time.
Bind ==
    /\ ReaderIsAt("bind")
    /\ bound' = TRUE
    /\ r' = [r EXCEPT !.pc = "wait"]
    /\ UNCHANGED <<shared, inflight, event, popped>>

Wait ==
    /\ ReaderIsAt("wait") /\ event
    /\ r' = [r EXCEPT !.pc = "acknowledge"]
    /\ UNCHANGED <<shared, bell, popped>>

\* The bell is reset before the buffer is read, so that a ring meanwhile is kept.
Acknowledge ==
    /\ ReaderIsAt("acknowledge")
    /\ event' = FALSE
    /\ r' = [r EXCEPT !.pc = "tail"]
    /\ UNCHANGED <<shared, inflight, bound, popped>>

\* Read loads the tail, then the head ...
LoadTail ==
    /\ ReaderIsAt("tail")
    /\ r' = [r EXCEPT !.pc = "head", !.tail = tail]
    /\ UNCHANGED <<shared, bell, popped>>

LoadHead ==
    /\ ReaderIsAt("head")
    /\ r' = [r EXCEPT !.pc = IF Used(head, r.tail.at) = 0 THEN "wait" ELSE "size"]
    /\ UNCHANGED <<shared, bell, popped>>

\* ... peeks how long the entry is (GetReadSize), and trusts it only if the
\* tail has not moved.
PeekSize ==
    /\ ReaderIsAt("size")
    /\ \E n \in Peeked(r.tail.at) :
          r' = [r EXCEPT !.pc = "check",
                         !.size = IF n > HeaderSize THEN n - HeaderSize ELSE 0]
    /\ UNCHANGED <<shared, bell, popped>>

CheckTail ==
    /\ ReaderIsAt("check")
    /\ r' = [r EXCEPT !.pc = IF r.size = 0 \/ tail # r.tail THEN "tail" ELSE "copy",
                      !.done = 0]
    /\ UNCHANGED <<shared, bell, popped>>

BufferLength == IF r.size < ReadSize THEN r.size ELSE ReadSize

\* memcpy, byte by byte: value is the entry all of them belong to.
CopyByte ==
    /\ ReaderIsAt("copy") /\ r.done < BufferLength
    /\ LET byte == cells[At(r.tail.at + HeaderSize + r.done)]
           fits == byte.at = HeaderSize + r.done /\ (r.done = 0 \/ byte.entry = r.value)
       IN  r' = [r EXCEPT !.done = @ + 1, !.value = IF fits THEN byte.entry ELSE 0]
    /\ UNCHANGED <<shared, bell, popped>>

\* Where Read puts the tail, with its three cases.
NewTail ==
    LET offset == r.tail.at + HeaderSize
    IN  CASE offset + r.size < Size -> [round |-> r.tail.round, at |-> offset + r.size]
          [] offset > Size -> [round |-> r.tail.round + 1, at |-> (offset - Size) + BufferLength]
          [] OTHER -> [round |-> r.tail.round + 1, at |-> r.size - (Size - offset)]

\* Mutant of TakeEntry: the rounds of the tail are not compared.
TakeEntryAnyRound ==
    /\ ReaderIsAt("copy") /\ r.done = BufferLength
    /\ IF tail.at = r.tail.at
       THEN /\ tail' = NewTail
            /\ popped' = Append(popped, r.value)
            /\ r' = [r EXCEPT !.pc = IF r.value \in Unknown THEN "flush" ELSE "tail"]
       ELSE /\ r' = [r EXCEPT !.pc = "tail"]
            /\ UNCHANGED <<tail, popped>>
    /\ UNCHANGED <<cells, head, reservedPID, reserved, written, bell>>

\* Mutant of TakeEntry: one message is read for each ring.
TakeEntryOnce ==
    /\ ReaderIsAt("copy") /\ r.done = BufferLength
    /\ IF tail = r.tail
       THEN /\ tail' = NewTail
            /\ popped' = Append(popped, r.value)
            /\ r' = [r EXCEPT !.pc = IF r.value \in Unknown THEN "flush" ELSE "wait"]
       ELSE /\ r' = [r EXCEPT !.pc = "tail"]
            /\ UNCHANGED <<tail, popped>>
    /\ UNCHANGED <<cells, head, reservedPID, reserved, written, bell>>

\* The exchange of the tail; PopMessagesAndCall flushes when it knows nothing
\* of the message, and pops the next one.
TakeEntry ==
    /\ ReaderIsAt("copy") /\ r.done = BufferLength
    /\ IF tail = r.tail
       THEN /\ tail' = NewTail
            /\ popped' = Append(popped, r.value)
            /\ r' = [r EXCEPT !.pc = IF r.value \in Unknown THEN "flush" ELSE "tail"]
       ELSE /\ r' = [r EXCEPT !.pc = "tail"]
            /\ UNCHANGED <<tail, popped>>
    /\ UNCHANGED <<cells, head, reservedPID, reserved, written, bell>>

\* Flush loads the head and stores it, without the rounds, in the tail.
FlushLoad ==
    /\ ReaderIsAt("flush")
    /\ r' = [r EXCEPT !.pc = "store", !.head = head]
    /\ UNCHANGED <<shared, bell, popped>>

FlushStore ==
    /\ ReaderIsAt("store")
    /\ tail' = [round |-> 0, at |-> r.head]
    /\ r' = [r EXCEPT !.pc = "tail"]
    /\ UNCHANGED <<cells, head, reservedPID, reserved, written, bell, popped>>

Reader ==
    \/ Construct \/ Bind \/ Wait \/ Acknowledge \/ LoadTail \/ LoadHead \/ PeekSize
    \/ CheckTail \/ CopyByte \/ TakeEntry \/ FlushLoad \/ FlushStore

Next == Writer \/ Die \/ Ringing \/ Reader

Spec == Init /\ [][Next]_vars

\* The writer need not write, and may die; the reader and the resource monitor
\* of its process go on.
Fairness == WF_vars(Reader) /\ WF_vars(Ringing)

FairSpec == Spec /\ Fairness

-----------------------------------------------------------------------------
TypeOK ==
    /\ cells \in [Index -> [entry : 0..MaxEntries, at : 0..Size, length : 0..Size]]
    /\ head \in Index
    /\ tail \in [round : 0..MaxEntries, at : Index]
    /\ reservedPID \in BOOLEAN /\ reserved \in 0..Size /\ written \in 0..Size
    /\ inflight \in BOOLEAN /\ event \in BOOLEAN /\ bound \in BOOLEAN
    /\ published \in 0..MaxEntries
    /\ popped \in Seq(0..MaxEntries)

\* The entries that begin between tail and head.
Contents ==
    {cells[i].entry :
        i \in {j \in Index : Used(j, tail.at) < Used(head, tail.at) /\ cells[j].at = 0}}

\* The buffer is a queue of whole messages: whatever the writer overwrites
\* while the reader reads, and wherever it dies, "writes of partial buffers"
\* leave no "readers seeing incomplete data" (core/CyclicBuffer.h:243-246).
Fifo == INSTANCE LossyFifo WITH put <- published, queue <- Contents, taken <- popped
ImplementsFifo == Fifo!Spec

\* The writer drops an entry only when the room there is does not suffice, the
\* room that the reader has made by then included (AssureFreeSpace).
NoNeedlessLoss ==
    [][MoveTail => tail' = tail \/ Free(head, tail.at) <= w.length]_vars

\* Who rings is heard: once a ring is on its way, the reader comes back to an
\* empty buffer, unless it is filled again and again.
RingHeard == (inflight \/ event) ~> (Used(head, tail.at) = 0)

\* Once nobody writes any more, all that has been written is read.
Drained == <>[](Used(head, tail.at) = 0)
=============================================================================
