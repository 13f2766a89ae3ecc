--------------------------- MODULE IpcCall_proofs ---------------------------
(***************************************************************************)
(* Proofs about IpcCall, for any set of calls and any labels.              *)
(*                                                                         *)
(* OneOutbound is made inductive by what holds of a call that has been     *)
(* signalled (Signals).  Whose answer a call brings rests on what may      *)
(* still be under way while the link is open (UnderWay): the call in       *)
(* progress, and calls that timed out, each at one place.                  *)
(***************************************************************************)
EXTENDS IpcCall, SequenceTheorems, TLAPS

USE CallAssumption

-----------------------------------------------------------------------------
(* Types.                                                                   *)

LEMMA HeadTail ==
    ASSUME NEW S, NEW s \in Seq(S), s # << >>
    PROVE  Head(s) \in S /\ Tail(s) \in Seq(S)
  BY HeadTailProperties, EmptySeq

LEMMA TypeInit == Init => TypeOK
<1>1. Nothing \in Frames
  BY DEF Frames, Nothing, Messages, Theirs
<1>2. << >> \in Seq(Messages)
  OBVIOUS
<1> SUFFICES ASSUME Init PROVE TypeOK
  OBVIOUS
<1>3. /\ pc \in [Calls -> Places] /\ result \in [Calls -> Results]
      /\ response \in [Calls -> Calls \cup {NoCall}]
  BY DEF Init, Places, Results
<1>4. queue \in Seq(Messages) /\ wire \in Seq(Messages) /\ reading \in Frames
  BY <1>1, <1>2 DEF Init
<1>5. asked \in 0 .. MaxAsked /\ jobs \in Nat
  BY DEF Init
<1>6. signalled \subseteq Calls /\ peer \subseteq Calls /\ served \subseteq Calls
  BY DEF Init
<1>7. /\ side \in Sides /\ link \in {"open", "closing", "closed"}
      /\ owner \in Calls \cup {NoCall}
      /\ outbound \in Calls \cup {NoCall} /\ callback \in Calls \cup {NoCall}
      /\ abort \in BOOLEAN /\ inbound \in BOOLEAN
  BY DEF Init
<1> QED BY <1>3, <1>4, <1>5, <1>6, <1>7 DEF TypeOK

LEMMA TypeStep == TypeOK /\ OneOutbound /\ [Next]_vars => TypeOK'
<1> SUFFICES ASSUME TypeOK, OneOutbound, [Next]_vars PROVE TypeOK'
  OBVIOUS
<1> USE DEF TypeOK, Places, Waiting, Results, caller, administration, stream, other
<1>1. ASSUME NEW c \in Calls, Call(c) PROVE TypeOK'
  BY <1>1 DEF Call
<1>2. ASSUME NEW c \in Calls, SetOutbound(c) PROVE TypeOK'
  BY <1>2 DEF SetOutbound
<1>3. ASSUME NEW c \in Calls, NotOpen(c) PROVE TypeOK'
  BY <1>3 DEF NotOpen, Flush
<1>4. ASSUME NEW c \in Calls, Open(c) PROVE TypeOK'
  BY <1>4 DEF Open
<1>5. ASSUME NEW c \in Calls, Submit(c) PROVE TypeOK'
  BY <1>5 DEF Submit, Messages
<1>6. ASSUME NEW c \in Calls, Woken(c) PROVE TypeOK'
  BY <1>6 DEF Woken
<1>7. ASSUME NEW c \in Calls, TimedOut(c) PROVE TypeOK'
  BY <1>7 DEF TimedOut
<1>8. ASSUME NEW c \in Calls, Finalize(c) PROVE TypeOK'
  BY <1>8 DEF Finalize, Flush
<1>9. ASSUME NEW c \in Calls, Shutdown(c) PROVE TypeOK'
  BY <1>9 DEF Shutdown, Closing
<1>10. ASSUME NEW c \in Calls, PeerAnswers(c) PROVE TypeOK'
  BY <1>10 DEF PeerAnswers, Messages
<1>11. CASE Send
  <2>1. Head(queue) \in Messages /\ Tail(queue) \in Seq(Messages)
    BY <1>11, HeadTail DEF Send
  <2> QED BY <1>11, <2>1 DEF Send, Messages, Theirs
<1>12. CASE Header
  <2>1. Head(wire) \in Messages /\ Tail(wire) \in Seq(Messages)
    BY <1>12, HeadTail DEF Header
  <2>2. Element(Head(wire)) \in Calls \cup {NoCall}
    BY DEF Element
  <2>3. reading' \in Frames
    BY <1>12, <2>1, <2>2 DEF Header, Frames
  <2> QED BY <1>12, <2>1, <2>3 DEF Header
<1>13. CASE Payload
  <2>0. Nothing \in Frames
    BY DEF Frames, Nothing, Messages, Theirs
  <2>1. reading' \in Frames /\ reading.of \in Messages /\ reading.into \in Calls \cup {NoCall}
    BY <1>13, <2>0 DEF Payload, Frames
  <2>2. response' \in [Calls -> Calls \cup {NoCall}]
    <3> HIDE DEF TypeOK
    <3>1. reading.of \in Calls \cup {NoCall} /\ response \in [Calls -> Calls \cup {NoCall}]
      BY <2>1 DEF TypeOK, Messages, Theirs
    <3>2. CASE reading.into = NoCall
      BY <1>13, <3>1, <3>2 DEF Payload
    <3>3. CASE reading.into # NoCall
      BY <1>13, <2>1, <3>1, <3>3 DEF Payload
    <3> QED BY <3>2, <3>3
  <2>3. signalled' \subseteq Calls
    BY <1>13, <2>1 DEF Payload, OneOutbound
  <2>4. jobs' \in Nat /\ outbound' \in Calls \cup {NoCall} /\ callback' \in Calls \cup {NoCall}
    BY <1>13 DEF Payload
  <2> QED BY <1>13, <2>1, <2>2, <2>3, <2>4 DEF Payload
<1>14. CASE StateChange
  BY <1>14 DEF StateChange, Abort
<1>15. CASE ReportResponse
  BY <1>15 DEF ReportResponse, Messages, Theirs
<1>16. CASE PeerAsks
  BY <1>16 DEF PeerAsks, Messages, Theirs
<1>17. CASE PeerCloses
  BY <1>17 DEF PeerCloses
<1>18. CASE UNCHANGED vars
  BY <1>18 DEF vars
<1> QED
  BY <1>1, <1>2, <1>3, <1>4, <1>5, <1>6, <1>7, <1>8, <1>9, <1>10, <1>11, <1>12,
     <1>13, <1>14, <1>15, <1>16, <1>17, <1>18 DEF Next, Caller, Monitor

-----------------------------------------------------------------------------
(* The call in progress.                                                    *)

\* Who has been signalled, and what the administration knows of it then.
Signals ==
    /\ abort => ~IsOpen
    /\ \A c \in Calls : pc[c] \in {"new", "enter"} => c \notin signalled
    /\ \A c \in signalled : c = owner => callback = NoCall /\ (abort \/ outbound = NoCall)
    /\ reading.into # NoCall => reading.of # Theirs

IInv == TypeOK /\ OneOutbound /\ Signals

LEMMA OutboundInit == Init => OneOutbound /\ Signals
  BY DEF Init, OneOutbound, Signals, IsOpen, Waiting, Nothing

LEMMA OutboundStep == IInv /\ [Next]_vars => OneOutbound' /\ Signals'
<1> SUFFICES ASSUME IInv, [Next]_vars PROVE OneOutbound' /\ Signals'
  OBVIOUS
<1> USE DEF IInv, OneOutbound, Signals, IsOpen, Waiting, administration, caller, stream, other
<1>1. ASSUME NEW c \in Calls, Call(c) PROVE OneOutbound' /\ Signals'
  BY <1>1 DEF Call, TypeOK
<1>2. ASSUME NEW c \in Calls, SetOutbound(c) PROVE OneOutbound' /\ Signals'
  BY <1>2 DEF SetOutbound, TypeOK
<1>3. ASSUME NEW c \in Calls, NotOpen(c) PROVE OneOutbound' /\ Signals'
  BY <1>3 DEF NotOpen, Flush, TypeOK
<1>4. ASSUME NEW c \in Calls, Open(c) PROVE OneOutbound' /\ Signals'
  BY <1>4 DEF Open, TypeOK
<1>5. ASSUME NEW c \in Calls, Submit(c) PROVE OneOutbound' /\ Signals'
  BY <1>5 DEF Submit, TypeOK
<1>6. ASSUME NEW c \in Calls, Woken(c) PROVE OneOutbound' /\ Signals'
  BY <1>6 DEF Woken, TypeOK
<1>7. ASSUME NEW c \in Calls, TimedOut(c) PROVE OneOutbound' /\ Signals'
  BY <1>7 DEF TimedOut, TypeOK
<1>8. ASSUME NEW c \in Calls, Finalize(c) PROVE OneOutbound' /\ Signals'
  BY <1>8 DEF Finalize, Flush, TypeOK
<1>9. ASSUME NEW c \in Calls, Shutdown(c) PROVE OneOutbound' /\ Signals'
  BY <1>9 DEF Shutdown, Closing, TypeOK
<1>10. ASSUME NEW c \in Calls, PeerAnswers(c) PROVE OneOutbound' /\ Signals'
  BY <1>10 DEF PeerAnswers
<1>11. CASE Send
  BY <1>11 DEF Send
<1>12. CASE Header
  BY <1>12 DEF Header, Element
<1>13. CASE Payload
  BY <1>13 DEF Payload, Nothing, TypeOK, Frames
<1>14. CASE StateChange
  BY <1>14 DEF StateChange, Abort, TypeOK
<1>15. CASE ReportResponse
  BY <1>15 DEF ReportResponse
<1>16. CASE PeerAsks
  BY <1>16 DEF PeerAsks
<1>17. CASE PeerCloses
  BY <1>17 DEF PeerCloses
<1>18. CASE UNCHANGED vars
  BY <1>18 DEF vars
<1> QED
  BY <1>1, <1>2, <1>3, <1>4, <1>5, <1>6, <1>7, <1>8, <1>9, <1>10, <1>11, <1>12,
     <1>13, <1>14, <1>15, <1>16, <1>17, <1>18 DEF Next, Caller, Monitor

LEMMA Inductive == Spec => []IInv
<1>1. Init => IInv
  BY TypeInit, OutboundInit DEF IInv
<1>2. IInv /\ [Next]_vars => IInv'
  BY TypeStep, OutboundStep DEF IInv
<1> QED
  BY <1>1, <1>2, PTL DEF Spec

\* Every variable keeps its type, and no job answers what was not asked
\* (ReportResponse).
THEOREM TypeCorrect == Spec => []TypeOK
<1>1. IInv => TypeOK
  BY DEF IInv
<1> QED
  BY <1>1, Inductive, PTL

\* The administration refers to a call only while its Execute runs, however the
\* answer, the timeout and the end of the channel meet; and the assertions on
\* what it knows hold.
THEOREM OneOutboundHolds == Spec => []OneOutbound
<1>1. IInv => OneOutbound
  BY DEF IInv
<1> QED
  BY <1>1, Inductive, PTL

-----------------------------------------------------------------------------
(* Own answers.                                                             *)

Has(s, c) == \E i \in 1 .. Len(s) : s[i] = c
Queued(c) == Has(queue, c)
OnWire(c) == Has(wire, c)
Read(c) == reading.busy /\ reading.of = c
Once(s) == \A i, j \in 1 .. Len(s) : s[i] = s[j] /\ s[i] \in Calls => i = j

GaveUp(c) == pc[c] \in {"finalize", "shutdown", "returned"} /\ result[c] = "timedout"

\* A call is at one place at most on its way there and back.
Apart ==
    /\ Once(queue) /\ Once(wire)
    /\ \A c \in Calls :
          /\ Queued(c) => c \notin peer /\ c \notin served
          /\ c \in peer => c \notin served
          /\ OnWire(c) => c \in served /\ ~Read(c)
          /\ Read(c) => c \in served
          /\ pc[c] \in {"new", "enter", "set", "submit"} =>
                ~Queued(c) /\ c \notin peer /\ c \notin served

\* A call whose answer may come when nobody waits for it.
Missed(c) == GaveUp(c) \/ response[c] \notin {c, NoCall}

\* What is under way while the link is open.
UnderWay ==
    IsOpen => \A c \in Calls :
        /\ Queued(c) \/ c \in peer \/ OnWire(c) \/ Read(c) => c = outbound \/ Missed(c)
        /\ pc[c] \in {"set", "submit"} => outbound = c \/ Missed(c)

\* How a call comes to its end.
Closes ==
    \A c \in Calls :
        /\ pc[c] = "finalize" => result[c] \in {"answered", "timedout"}
        /\ pc[c] = "shutdown" => result[c] = "timedout"
        /\ GaveUp(c) => <<side, Label[c]>> \in Impatient
        /\ result[c] = "answered" => c \in signalled
        /\ pc[c] \in {"new", "enter", "set", "submit", "waiting"} => result[c] = "none"
        /\ pc[c] = "returned" => result[c] \in {"answered", "timedout"} \/ ~IsOpen

\* The answer to d may be taken for that to c.
Ends(c) == pc[c] \in {"shutdown", "returned"} /\ result[c] \in {"answered", "timedout"}
Passes(d, c) == d \in Calls /\ Label[d] = Label[c] /\ (d = c \/ Ends(d))

Own ==
    /\ reading.into # NoCall =>
          /\ reading.busy /\ Passes(reading.of, reading.into)
          /\ pc[reading.into] \notin {"new", "enter"}
          /\ IsOpen => reading.into \notin signalled
    /\ \A c \in Calls :
          /\ response[c] # NoCall =>
                /\ response[c] \in served /\ Passes(response[c], c)
                /\ ~OnWire(response[c]) /\ ~Read(response[c])
                /\ \A d \in Calls : response[d] = response[c] => d = c
                /\ pc[c] \notin {"new", "enter"}
          /\ c \in signalled /\ c = owner => abort \/ response[c] # NoCall
          /\ pc[c] \in {"shutdown", "returned"} /\ result[c] = "answered" => response[c] # NoCall

\* Nobody gives up a call of this label.
Patient(l) == \A s \in Sides : <<s, l>> \notin Impatient

\* Calls of such a label get their own answers.
PatientOwn ==
    \A c \in Calls : Patient(Label[c]) =>
        /\ reading.into = c => reading.of = c
        /\ response[c] \in {c, NoCall}

Path == Apart /\ UnderWay /\ Closes /\ Own /\ PatientOwn
Kept == IInv /\ Path

LEMMA AppendHas ==
    ASSUME NEW s \in Seq(Messages), NEW x \in Messages
    PROVE  /\ \A c : Has(Append(s, x), c) <=> Has(s, c) \/ c = x
           /\ Once(s) /\ (x \in Calls => ~Has(s, x)) => Once(Append(s, x))
<1>1. /\ Len(s) \in Nat /\ Len(Append(s, x)) = Len(s) + 1
      /\ \A i \in 1 .. Len(s) : Append(s, x)[i] = s[i]
      /\ Append(s, x)[Len(s) + 1] = x
  BY AppendProperties, LenProperties
<1>2. \A c : Has(Append(s, x), c) <=> Has(s, c) \/ c = x
  BY <1>1 DEF Has
<1>3. Once(s) /\ (x \in Calls => ~Has(s, x)) => Once(Append(s, x))
  BY <1>1 DEF Has, Once
<1> QED
  BY <1>2, <1>3

LEMMA TailHas ==
    ASSUME NEW s \in Seq(Messages), s # << >>
    PROVE  /\ Head(s) \in Messages /\ Tail(s) \in Seq(Messages)
           /\ \A c : Has(s, c) <=> Has(Tail(s), c) \/ c = Head(s)
           /\ Once(s) => Once(Tail(s)) /\ (Head(s) \in Calls => ~Has(Tail(s), Head(s)))
<1>1. /\ Len(s) \in Nat \ {0} /\ Head(s) = s[1]
      /\ Head(s) \in Messages /\ Tail(s) \in Seq(Messages) /\ Len(Tail(s)) = Len(s) - 1
      /\ \A i \in 1 .. (Len(s) - 1) : Tail(s)[i] = s[i + 1]
  BY HeadTailProperties, EmptySeq, LenProperties
<1>2. \A c : Has(Tail(s), c) \/ c = Head(s) => Has(s, c)
  BY <1>1 DEF Has
<1>3. ASSUME NEW c, Has(s, c), c # Head(s) PROVE Has(Tail(s), c)
  <2>1. PICK i \in 1 .. Len(s) : s[i] = c
    BY <1>3 DEF Has
  <2>2. i - 1 \in 1 .. (Len(s) - 1) /\ Tail(s)[i - 1] = s[i]
    BY <1>1, <1>3, <2>1
  <2> QED BY <1>1, <2>1, <2>2 DEF Has
<1>4. Once(s) => Once(Tail(s)) /\ (Head(s) \in Calls => ~Has(Tail(s), Head(s)))
  BY <1>1 DEF Has, Once
<1> QED
  BY <1>1, <1>2, <1>3, <1>4

LEMMA KeptInit == Init => Kept
<1>1. \A c : ~Has(<< >>, c)
  BY DEF Has
<1>2. Once(<< >>)
  BY DEF Once
<1> SUFFICES ASSUME Init PROVE Kept
  OBVIOUS
<1>3. IInv
  BY TypeInit, OutboundInit DEF IInv
<1>4. Apart /\ UnderWay
  BY <1>1, <1>2 DEF Init, Apart, UnderWay, Missed, GaveUp, Queued, OnWire, Read, Nothing
<1>5. Closes /\ Own /\ PatientOwn
  BY DEF Init, Closes, Own, PatientOwn, GaveUp, Nothing
<1> QED
  BY <1>3, <1>4, <1>5 DEF Kept, Path

\* The steps that leave alone what is on its way.
LEMMA CallerKeeps ==
    ASSUME Kept, NEW c \in Calls,
           \/ Call(c) \/ SetOutbound(c) \/ NotOpen(c) \/ Open(c)
           \/ Woken(c) \/ TimedOut(c) \/ Finalize(c) \/ Shutdown(c)
    PROVE  Path'
<1>1. /\ UNCHANGED <<side, queue, wire, reading, response, peer, served, signalled>>
      /\ \A d \in Calls \ {c} : pc'[d] = pc[d] /\ result'[d] = result[d]
      /\ IsOpen' => IsOpen
  BY DEF Call, SetOutbound, NotOpen, Open, Woken, TimedOut, Finalize, Shutdown, Closing, IsOpen,
         Kept, IInv, TypeOK, stream, other, caller, administration
<1>2. Ends(c) => Ends(c)'
  BY DEF Call, SetOutbound, NotOpen, Open, Woken, TimedOut, Finalize, Shutdown, Ends, Kept, IInv, TypeOK
<1>3. GaveUp(c) /\ IsOpen => GaveUp(c)'
  BY DEF Call, SetOutbound, NotOpen, Open, Woken, TimedOut, Finalize, Shutdown, GaveUp, Kept, IInv,
         TypeOK, Signals
<1>4. \A d \in Calls : (Ends(d) => Ends(d)') /\ (GaveUp(d) /\ IsOpen => GaveUp(d)')
  BY <1>1, <1>2, <1>3 DEF Ends, GaveUp
<1>5. Apart'
  <2>1. pc'[c] \in {"new", "enter", "set", "submit"} => pc[c] \in {"new", "enter", "set", "submit"}
    BY DEF Call, SetOutbound, NotOpen, Open, Woken, TimedOut, Finalize, Shutdown, Kept, IInv, TypeOK
  <2> QED BY <1>1, <2>1 DEF Kept, Path, Apart, Queued, OnWire, Read
<1>6. UnderWay'
  <2>1. ASSUME IsOpen', NEW d \in Calls, d = outbound PROVE outbound' = d \/ GaveUp(d)'
    <3>1. CASE Finalize(c)
      <4>1. ~abort /\ outbound = c /\ result' = result /\ result[c] = "timedout"
            /\ pc'[c] \in {"shutdown", "returned"}
        BY <1>1, <2>1, <3>1 DEF Finalize, Kept, Path, IInv, TypeOK, Signals, OneOutbound, Waiting, Closes
      <4> QED BY <2>1, <4>1 DEF GaveUp
    <3>2. CASE ~Finalize(c)
      BY <1>1, <2>1, <3>2 DEF Call, SetOutbound, NotOpen, Open, Woken, TimedOut, Shutdown, administration,
         Kept, IInv, OneOutbound, IsOpen
    <3> QED BY <3>1, <3>2
  <2>2. pc'[c] \in {"set", "submit"} => outbound' = c \/ pc[c] \in {"set", "submit"}
    BY DEF Call, SetOutbound, NotOpen, Open, Woken, TimedOut, Finalize, Shutdown, Kept, IInv, TypeOK
  <2>3. \A d \in Calls : Missed(d) /\ IsOpen => Missed(d)'
    BY <1>1, <1>4 DEF Missed
  <2>4. \A d \in Calls : GaveUp(d)' => Missed(d)'
    BY DEF Missed
  <2> QED BY <1>1, <2>1, <2>2, <2>3, <2>4 DEF Kept, Path, UnderWay, Queued, OnWire, Read, IInv, TypeOK
<1>7. Closes'
  <2>1. CASE Call(c) \/ SetOutbound(c) \/ Open(c)
    BY <1>1, <2>1 DEF Call, SetOutbound, Open, Kept, Path, Closes, GaveUp, IInv, TypeOK
  <2>2. CASE NotOpen(c)
    <3>1. /\ pc' = [pc EXCEPT ![c] = "returned"] /\ result' = [result EXCEPT ![c] = "closed"]
          /\ ~IsOpen /\ ~IsOpen'
      BY <2>2 DEF NotOpen, IsOpen
    <3> QED BY <1>1, <3>1 DEF Kept, Path, Closes, GaveUp, IInv, TypeOK
  <2>3. CASE Woken(c) \/ TimedOut(c)
    <3>1. /\ pc' = [pc EXCEPT ![c] = "finalize"] /\ link' = link
          /\ \/ result' = [result EXCEPT ![c] = "answered"] /\ c \in signalled
             \/ result' = [result EXCEPT ![c] = "timedout"] /\ <<side, Label[c]>> \in Impatient
      BY <2>3 DEF Woken, TimedOut
    <3>2. /\ pc'[c] = "finalize" /\ result'[c] \in {"answered", "timedout"}
          /\ result'[c] = "answered" => c \in signalled
          /\ result'[c] = "timedout" => <<side, Label[c]>> \in Impatient
      BY <3>1 DEF Kept, IInv, TypeOK
    <3> QED BY <1>1, <3>1, <3>2 DEF Kept, Path, Closes, GaveUp, IsOpen
  <2>4. CASE Finalize(c)
    <3>1. /\ pc' = [pc EXCEPT ![c] = IF result'[c] = "timedout" /\ Label[c] = "invoke"
                                     THEN "shutdown" ELSE "returned"]
          /\ pc[c] = "finalize"
          /\ result' = result \/ (result' = [result EXCEPT ![c] = "failed"] /\ ~IsOpen /\ ~IsOpen')
      BY <2>4 DEF Finalize, Flush, Kept, IInv, Signals, IsOpen
    <3> QED BY <1>1, <3>1 DEF Kept, Path, Closes, GaveUp, IInv, TypeOK
  <2>5. CASE Shutdown(c)
    BY <1>1, <2>5 DEF Shutdown, Kept, Path, Closes, GaveUp, IInv, TypeOK
  <2> QED BY <2>1, <2>2, <2>3, <2>4, <2>5
<1>8. Own'
  <2>1. \A d, e : Passes(d, e) => Passes(d, e)'
    BY <1>4 DEF Passes
  <2>2. \A d \in Calls : pc[d] \notin {"new", "enter"} => pc'[d] \notin {"new", "enter"}
    BY <1>1 DEF Call, SetOutbound, NotOpen, Open, Woken, TimedOut, Finalize, Shutdown, Kept, IInv, TypeOK
  <2>3. ASSUME NEW d \in Calls, d \in signalled, d = owner' PROVE abort' \/ response[d] # NoCall
    BY <2>3 DEF Call, SetOutbound, NotOpen, Open, Woken, TimedOut, Finalize, Shutdown, Kept, Path, Own,
       administration, caller, IInv, Signals
  <2>4. ASSUME NEW d \in Calls, pc'[d] \in {"shutdown", "returned"}, result'[d] = "answered"
        PROVE  response[d] # NoCall
    <3>1. CASE d = c /\ Finalize(c)
      <4>1. d \in signalled /\ d = owner /\ ~abort
        BY <2>4, <3>1 DEF Finalize, Kept, Path, Closes, IInv, TypeOK, OneOutbound, Waiting
      <4> QED BY <4>1 DEF Kept, Path, Own
    <3>2. CASE d # c \/ ~Finalize(c)
      BY <1>1, <2>4, <3>2 DEF Call, SetOutbound, NotOpen, Open, Woken, TimedOut, Shutdown, Kept, Path, Own,
         IInv, TypeOK
    <3> QED BY <3>1, <3>2
  <2>5. reading.into # NoCall => reading.into \in Calls
    BY DEF Kept, IInv, TypeOK, Frames
  <2> QED BY <1>1, <2>1, <2>2, <2>3, <2>4, <2>5 DEF Kept, Path, Own, OnWire, Read
<1>9. PatientOwn'
  BY <1>1 DEF Kept, Path, PatientOwn, Patient
<1> QED
  BY <1>5, <1>6, <1>7, <1>8, <1>9 DEF Path

\* The steps of what is on its way.
LEMMA SubmitKeeps ==
    ASSUME Kept, NEW c \in Calls, Submit(c)
    PROVE  Path'
<1>1. /\ \A d : Has(Append(queue, c), d) <=> Has(queue, d) \/ d = c
      /\ Once(queue) /\ (c \in Calls => ~Has(queue, c)) => Once(Append(queue, c))
  BY AppendHas DEF Kept, Path, IInv, TypeOK, Messages
<1> USE DEF Kept, Path, IInv, OneOutbound, Signals, IsOpen, Waiting, Apart, UnderWay, Closes, Own,
            PatientOwn, Queued, OnWire, Read, GaveUp, Missed, Ends, Passes, administration, caller, stream, other
<1>2. CASE IsOpen
  BY <1>1, <1>2 DEF Submit, TypeOK
<1>3. CASE ~IsOpen
  BY <1>3 DEF Submit, TypeOK
<1> QED
  BY <1>2, <1>3

\* What a step leaves that only moves messages.
LEMMA MessagesMove ==
    ASSUME Kept, UNCHANGED <<side, link, caller, administration, signalled, reading, response>>,
           served \subseteq served',
           \A c \in Calls : response[c] # NoCall => ~OnWire(response[c])'
    PROVE  Closes' /\ Own' /\ PatientOwn'
<1> USE DEF caller, administration
<1>1. Closes'
  BY DEF Kept, Path, Closes, GaveUp, IsOpen
<1>2. Own'
  BY DEF Kept, Path, Own, Passes, Ends, Read, IsOpen
<1>3. PatientOwn'
  BY DEF Kept, Path, PatientOwn, Patient
<1> QED
  BY <1>1, <1>2, <1>3

LEMMA ReportKeeps ==
    ASSUME Kept, ReportResponse
    PROVE  Path'
<1>1. /\ \A d : Has(Append(queue, Theirs), d) <=> Has(queue, d) \/ d = Theirs
      /\ Once(queue) => Once(Append(queue, Theirs))
  BY AppendHas DEF Kept, IInv, TypeOK, Messages, Theirs
<1>2. /\ UNCHANGED <<side, link, caller, administration, signalled, wire, reading, response, peer, served>>
      /\ \A d \in Calls : Queued(d)' <=> Queued(d)
      /\ Once(queue)'
  BY <1>1 DEF ReportResponse, other, Theirs, Queued, Kept, Path, Apart
<1>3. Apart' /\ UnderWay'
  BY <1>2 DEF Kept, Path, Apart, UnderWay, OnWire, Read, Missed, GaveUp, IsOpen, caller, administration
<1> QED
  BY <1>2, <1>3, MessagesMove DEF Path, Kept, Own, OnWire

LEMMA SendKeeps ==
    ASSUME Kept, Send
    PROVE  Path'
<1>1. /\ Head(queue) \in Messages
      /\ \A d : Has(queue, d) <=> Has(Tail(queue), d) \/ d = Head(queue)
      /\ Once(Tail(queue)) /\ (Head(queue) \in Calls => ~Has(Tail(queue), Head(queue)))
  BY TailHas DEF Kept, Path, IInv, TypeOK, Send, Apart
<1>2. /\ UNCHANGED <<side, link, caller, administration, signalled, wire, reading, response, served>>
      /\ \A d \in Calls : Queued(d)' \/ d \in peer' <=> Queued(d) \/ d \in peer
      /\ \A d \in Calls : Queued(d)' => Queued(d) /\ d \notin peer'
      /\ Once(queue)'
  BY <1>1 DEF Send, Theirs, Messages, Queued, Kept, Path, Apart
<1>3. Apart' /\ UnderWay'
  BY <1>2 DEF Kept, Path, Apart, UnderWay, OnWire, Read, Missed, GaveUp, IsOpen, caller, administration
<1> QED
  BY <1>2, <1>3, MessagesMove DEF Path, Kept, Own, OnWire

LEMMA PeerKeeps ==
    ASSUME Kept, PeerAsks \/ \E c \in Calls : PeerAnswers(c)
    PROVE  Path'
<1>1. \A x \in Messages :
          /\ \A d : Has(Append(wire, x), d) <=> Has(wire, d) \/ d = x
          /\ Once(wire) /\ (x \in Calls => ~Has(wire, x)) => Once(Append(wire, x))
  BY AppendHas DEF Kept, IInv, TypeOK
<1>2. CASE PeerAsks
  <2>1. /\ UNCHANGED <<side, link, caller, administration, signalled, queue, reading, response, peer, served>>
        /\ \A d \in Calls : OnWire(d)' <=> OnWire(d)
        /\ Once(wire)'
    BY <1>1, <1>2 DEF PeerAsks, Theirs, Messages, OnWire, Kept, Path, Apart
  <2>2. Apart' /\ UnderWay'
    BY <2>1 DEF Kept, Path, Apart, UnderWay, Queued, Read, Missed, GaveUp, IsOpen, caller, administration
  <2> QED BY <2>1, <2>2, MessagesMove DEF Path, Kept, Own, Passes, IInv, TypeOK
<1>3. ASSUME NEW c \in Calls, PeerAnswers(c) PROVE Path'
  <2>1. /\ UNCHANGED <<side, link, caller, administration, signalled, queue, reading, response>>
        /\ c \in peer /\ peer' = peer \ {c} /\ served' = served \cup {c}
        /\ \A d \in Calls : OnWire(d)' <=> OnWire(d) \/ d = c
    BY <1>1, <1>3 DEF PeerAnswers, Messages, OnWire
  <2>2. Once(wire)'
    BY <1>1, <1>3 DEF PeerAnswers, Messages, OnWire, Kept, Path, Apart
  <2>3. Apart' /\ UnderWay'
    BY <2>1, <2>2 DEF Kept, Path, Apart, UnderWay, Queued, Read, Missed, GaveUp, IsOpen, caller, administration
  <2>4. \A d \in Calls : response[d] # NoCall => response[d] \in Calls /\ response[d] # c /\ ~OnWire(response[d])
    BY <2>1 DEF Kept, Path, Own, Apart, Passes
  <2> QED BY <2>1, <2>3, <2>4, MessagesMove DEF Path
<1> QED
  BY <1>2, <1>3

\* The answer whose header is read belongs to the call in progress, or to one of
\* that label whose answer has missed it.
LEMMA HeaderKeeps ==
    ASSUME Kept, Header
    PROVE  Path'
<1> DEFINE m == Head(wire)
<1>1. /\ m \in Messages
      /\ \A d : Has(wire, d) <=> Has(Tail(wire), d) \/ d = m
      /\ Once(Tail(wire)) /\ (m \in Calls => ~Has(Tail(wire), m))
  BY TailHas DEF Kept, Path, IInv, TypeOK, Header, Apart
<1>2. /\ IsOpen /\ ~reading.busy
      /\ reading' = [busy |-> TRUE, of |-> m, into |-> Element(m)] /\ wire' = Tail(wire)
      /\ UNCHANGED <<side, link, pc, result, owner, outbound, callback, abort, signalled, queue,
                     response, peer, served>>
  BY DEF Header, caller, other
<1>3. ASSUME Element(m) # NoCall
      PROVE  /\ Element(m) \in Calls /\ m \in Calls /\ Label[m] = Label[Element(m)]
             /\ Element(m) \notin signalled
             /\ m = Element(m) \/ (Ends(m) /\ Missed(m))
  <2>1. m \in Calls /\ outbound \in Calls /\ Label[outbound] = Label[m] /\ Element(m) = outbound
    BY <1>1, <1>3 DEF Element, Messages, Theirs, Kept, IInv, TypeOK
  <2>2. outbound \notin signalled
    BY <1>2, <2>1 DEF Kept, IInv, Signals, OneOutbound
  <2>3. m = outbound \/ Missed(m)
    BY <1>1, <1>2, <2>1 DEF Kept, Path, UnderWay, OnWire
  <2>4. ASSUME m # outbound PROVE Ends(m)
    <3>1. m # owner /\ pc[m] \notin Waiting
      BY <2>1, <2>4 DEF Kept, IInv, OneOutbound
    <3>2. pc[m] \notin {"new", "enter"}
      BY <1>1, <2>1 DEF Kept, Path, Apart, OnWire
    <3>3. pc[m] \in {"shutdown", "returned"}
      BY <2>1, <3>1, <3>2 DEF Kept, IInv, TypeOK, Places, Waiting
    <3> QED BY <1>2, <2>1, <3>3 DEF Ends, Kept, Path, Closes
  <2> QED BY <2>1, <2>2, <2>3, <2>4
<1>4. Apart'
  BY <1>1, <1>2 DEF Theirs, Messages, Kept, Path, Apart, Queued, OnWire, Read
<1>5. UnderWay'
  BY <1>1, <1>2 DEF Kept, Path, IsOpen, UnderWay, Queued, OnWire, Read, GaveUp, Missed
<1>6. Closes'
  BY <1>2 DEF Kept, Path, IsOpen, Closes, GaveUp
<1>7. Own'
  <2>1. \A c \in Calls : response[c] # NoCall => response[c] # m
    BY <1>1 DEF Kept, Path, Own, OnWire
  <2>2. \A c, d : Passes(d, c)' <=> Passes(d, c)
    BY <1>2 DEF Passes, Ends
  <2>3. \A d : OnWire(d)' \/ Read(d)' => OnWire(d) \/ Read(d)
    BY <1>1, <1>2 DEF OnWire, Read
  <2>4. ASSUME Element(m) # NoCall
        PROVE  /\ Passes(m, Element(m)) /\ Element(m) \notin signalled
               /\ pc[Element(m)] \notin {"new", "enter"}
    <3>1. Element(m) = outbound /\ outbound = owner /\ pc[owner] \in Waiting
      BY <1>3, <2>4 DEF Element, Kept, IInv, OneOutbound
    <3> QED BY <1>3, <2>4, <3>1 DEF Passes, Waiting
  <2>5. \A d \in Calls : response[d] # NoCall => ~OnWire(response[d])' /\ ~Read(response[d])'
    BY <1>1, <1>2, <2>1 DEF OnWire, Read, Kept, Path, Own
  <2> QED BY <1>2, <2>2, <2>4, <2>5 DEF Kept, Path, Own, IsOpen
<1>8. PatientOwn'
  <2>1. ASSUME Element(m) # NoCall, m # Element(m) PROVE ~Patient(Label[m])
    <3>1. m \in Calls /\ Missed(m) /\ side \in Sides
      BY <1>3, <2>1 DEF Kept, IInv, TypeOK
    <3> QED BY <3>1 DEF Missed, GaveUp, Patient, Kept, Path, Closes, PatientOwn
  <2> QED BY <1>2, <1>3, <2>1 DEF Kept, Path, PatientOwn, Patient
<1> QED
  BY <1>4, <1>5, <1>6, <1>7, <1>8 DEF Path

LEMMA PayloadKeeps ==
    ASSUME Kept, Payload
    PROVE  Path'
<1> DEFINE t == reading.into
           m == reading.of
<1>1. /\ IsOpen /\ reading.busy /\ reading' = Nothing
      /\ UNCHANGED <<side, link, pc, result, owner, abort, queue, wire, peer, served>>
      /\ response' = IF t = NoCall THEN response ELSE [response EXCEPT ![t] = m]
  BY DEF Payload, caller, other
<1>2. t # NoCall => t \in Calls /\ m \in Calls /\ Passes(m, t) /\ t \notin signalled /\ m \in served
                    /\ ~OnWire(m) /\ ~Queued(m) /\ m \notin peer
                    /\ pc[t] \notin {"new", "enter"}
                    /\ \A c \in Calls : response[c] # m
  <2>1. t # NoCall => t \in Calls /\ Passes(m, t) /\ t \notin signalled
    BY <1>1 DEF Kept, Path, IInv, TypeOK, Frames, Own
  <2>2. t # NoCall => m \in Calls /\ Read(m)
    BY <1>1, <2>1 DEF Passes, Read
  <2>3. t # NoCall => m \in served /\ ~OnWire(m) /\ ~Queued(m) /\ m \notin peer
    BY <2>2 DEF Kept, Path, Apart
  <2>4. t # NoCall => \A c \in Calls : response[c] # m
    BY <2>2 DEF Kept, Path, Own
  <2>5. t # NoCall => pc[t] \notin {"new", "enter"}
    BY DEF Kept, Path, Own
  <2> QED BY <2>1, <2>2, <2>3, <2>4, <2>5
<1>3. /\ outbound' = outbound \/ (outbound' = NoCall /\ t # NoCall /\ outbound = t)
      /\ signalled' = signalled \/ (signalled' = signalled \cup {t} /\ t # NoCall /\ outbound = t)
  <2>1. outbound # NoCall => callback = outbound
    BY <1>1 DEF Kept, IInv, OneOutbound
  <2> QED BY <2>1 DEF Payload
<1>4. \A c \in Calls : GaveUp(c)' <=> GaveUp(c)
  BY <1>1 DEF GaveUp
<1>5. Apart'
  BY <1>1 DEF Kept, Path, Apart, Queued, OnWire, Read, Nothing
<1>6. UnderWay'
  <2>1. response \in [Calls -> Calls \cup {NoCall}]
    BY DEF Kept, IInv, TypeOK
  <2>2. \A c \in Calls : (c # m \/ t = NoCall) /\ Missed(c) => Missed(c)'
    <3> SUFFICES ASSUME NEW c \in Calls, c # m \/ t = NoCall, Missed(c) PROVE Missed(c)'
      OBVIOUS
    <3>1. CASE t = c
      <4>1. response'[c] = m /\ m # NoCall
        BY <1>1, <1>2, <2>1, <3>1
      <4> QED BY <1>2, <3>1, <4>1 DEF Missed
    <3>2. CASE t # c
      BY <1>1, <1>2, <1>4, <2>1, <3>2 DEF Missed
    <3> QED BY <3>1, <3>2
  <2>3. \A c \in Calls : c = t /\ t # m => Missed(c)'
    <3> SUFFICES ASSUME NEW c \in Calls, c = t, t # m PROVE Missed(c)'
      OBVIOUS
    <3>1. response'[c] = m /\ m # NoCall /\ m # c
      BY <1>1, <1>2, <2>1
    <3> QED BY <3>1 DEF Missed
  <2>4. ASSUME NEW c \in Calls, c # m \/ t = NoCall, c = outbound \/ Missed(c)
        PROVE  c = outbound' \/ Missed(c)'
    BY <1>2, <1>3, <2>2, <2>3, <2>4
  <2>5. ASSUME NEW c \in Calls, (Queued(c) \/ c \in peer \/ OnWire(c) \/ Read(c))'
        PROVE  c = outbound' \/ Missed(c)'
    <3>1. (Queued(c) \/ c \in peer \/ OnWire(c)) /\ (c # m \/ t = NoCall)
      BY <1>1, <1>2, <2>5 DEF Queued, OnWire, Read, Nothing
    <3>2. c = outbound \/ Missed(c)
      BY <1>1, <3>1 DEF Kept, Path, UnderWay
    <3> QED BY <2>4, <3>1, <3>2
  <2>6. ASSUME NEW c \in Calls, pc'[c] \in {"set", "submit"} PROVE outbound' = c \/ Missed(c)'
    <3>1. outbound = c \/ Missed(c)
      BY <1>1, <2>6 DEF Kept, Path, UnderWay
    <3>2. c # m \/ t = NoCall
      BY <1>1, <1>2, <2>6 DEF Kept, Path, Apart
    <3> QED BY <2>4, <3>1, <3>2
  <2> QED BY <2>5, <2>6 DEF UnderWay
<1>7. Closes'
  BY <1>1, <1>3, <1>4 DEF Kept, Path, Closes, IsOpen
<1>8. Own'
  <2>1. response \in [Calls -> Calls \cup {NoCall}]
    BY DEF Kept, IInv, TypeOK
  <2>2. \A c, d : Passes(d, c)' <=> Passes(d, c)
    BY <1>1 DEF Passes, Ends
  <2> QED BY <1>1, <1>2, <1>3, <2>1, <2>2 DEF Kept, Path, Own, IsOpen, Nothing, OnWire, Read
<1>9. PatientOwn'
  BY <1>1, <1>2 DEF Kept, Path, IInv, TypeOK, PatientOwn, Patient, Nothing
<1> QED
  BY <1>5, <1>6, <1>7, <1>8, <1>9 DEF Path

LEMMA EndKeeps ==
    ASSUME Kept, StateChange \/ PeerCloses \/ UNCHANGED vars
    PROVE  Path'
<1> USE DEF Kept, Path, IInv, OneOutbound, Signals, IsOpen, Waiting, Apart, UnderWay, Closes, Own,
            PatientOwn, Queued, OnWire, Read, GaveUp, Missed, Ends, Passes, administration, caller, stream, other
<1>1. CASE StateChange
  BY <1>1 DEF StateChange, Abort, TypeOK
<1>2. CASE PeerCloses
  BY <1>2 DEF PeerCloses
<1>3. CASE UNCHANGED vars
  BY <1>3 DEF vars
<1> QED
  BY <1>1, <1>2, <1>3

LEMMA KeptStep == Kept /\ [Next]_vars => Kept'
<1> SUFFICES ASSUME Kept, [Next]_vars PROVE Kept'
  OBVIOUS
<1>1. IInv'
  BY TypeStep, OutboundStep DEF Kept, Path, IInv
<1>2. Path'
  BY CallerKeeps, SubmitKeeps, ReportKeeps, SendKeeps, PeerKeeps, HeaderKeeps, PayloadKeeps, EndKeeps
     DEF Next, Caller, Monitor
<1> QED
  BY <1>1, <1>2 DEF Kept

-----------------------------------------------------------------------------
(* IpcCall implements RemoteCall.                                           *)

\* What a call brought, as its outcome.
Brought(c) ==
    CASE result[c] = "answered" -> <<"answer", response[c]>>
      [] result[c] = "timedout" -> <<"given up">>
      [] OTHER -> <<"failed">>

LEMMA Outcomes ==
    /\ DOMAIN Outcome = Ended
    /\ \A c \in Ended : Outcome[c] = Brought(c)
  BY DEF Outcome, Brought

\* A step that ends a call.
LEMMA EndMaps ==
    ASSUME Kept, Kept', NEW c \in Calls,
           pc[c] \notin {"new", "shutdown", "returned"}, pc'[c] \in {"shutdown", "returned"},
           \A d \in Calls : d # c => pc'[d] = pc[d] /\ result'[d] = result[d],
           UNCHANGED <<side, served, response>>
    PROVE  Promise!End(c)
<1> DEFINE o == Brought(c)'
<1>1. Ended' = Ended \cup {c} /\ c \notin Ended /\ Pending' = Pending \ {c} /\ c \in Pending
  BY DEF Ended, Pending
<1>2. \A d \in Ended : Brought(d)' = Brought(d)
  BY <1>1 DEF Brought, Ended
<1>3. Outcome' = [d \in DOMAIN Outcome \cup {c} |-> IF d = c THEN o ELSE Outcome[d]]
  <2>1. Outcome' = [d \in Ended' |-> Brought(d)']
    BY DEF Outcome, Brought
  <2> QED BY <1>1, <1>2, <2>1, Outcomes
<1>4. CASE result'[c] = "answered"
  <2> DEFINE d == response[c]
  <2>1. /\ d \in Calls /\ d \in served /\ Label[d] = Label[c]
        /\ d = c \/ Ends(d)'
        /\ \A e \in Calls : response[e] = d => e = c
    BY <1>4 DEF Kept, Path, Own, Passes, IInv, TypeOK
  <2>2. d # c => d \in DOMAIN Outcome /\ Outcome[d] # <<"failed">>
    <3> SUFFICES ASSUME d # c PROVE d \in DOMAIN Outcome /\ Outcome[d] # <<"failed">>
      OBVIOUS
    <3>1. Ends(d)
      BY <2>1 DEF Ends
    <3>2. d \in Ended /\ Outcome[d] = Brought(d)
      BY <2>1, <3>1, Outcomes DEF Ends, Ended
    <3>3. Brought(d) # <<"failed">>
      <4>1. <<"given up">> # <<"failed">>
        OBVIOUS
      <4>2. <<"answer", response[d]>> # <<"failed">>
        OBVIOUS
      <4> QED BY <3>1, <4>1, <4>2 DEF Ends, Brought
    <3> QED BY <3>2, <3>3, Outcomes
  <2>3. \A e \in DOMAIN Outcome : Outcome[e] # <<"answer", d>>
    <3> SUFFICES ASSUME NEW e \in Ended, Brought(e) = <<"answer", d>> PROVE FALSE
      BY Outcomes
    <3>1. e \in Calls /\ e # c
      BY <1>1 DEF Ended
    <3>2. response[e] # d
      BY <2>1, <3>1
    <3>3. <<"given up">> # <<"answer", d>> /\ <<"failed">> # <<"answer", d>>
      OBVIOUS
    <3>4. <<"answer", response[e]>> # <<"answer", d>>
      BY <3>2
    <3> QED BY <3>3, <3>4 DEF Brought
  <2>4. d \in Promise!Answers(c)
    BY <2>1, <2>2, <2>3 DEF Promise!Answers, Promise!Failed, Promise!Answer
  <2>5. o = Promise!Answer(d)
    BY <1>4 DEF Brought, Promise!Answer
  <2> QED BY <1>1, <1>3, <2>4, <2>5 DEF Promise!End
<1>5. CASE result'[c] = "timedout"
  <2>1. \E s \in Sides : <<s, Label[c]>> \in Impatient
    BY <1>5 DEF Kept, Path, Closes, GaveUp, IInv, TypeOK
  <2>2. o = Promise!GivenUp
    BY <1>5 DEF Brought, Promise!GivenUp
  <2> QED BY <1>1, <1>3, <2>1, <2>2 DEF Promise!End
<1>6. CASE result'[c] \notin {"answered", "timedout"}
  <2>1. o = Promise!Failed
    BY <1>6 DEF Brought, Promise!Failed
  <2> QED BY <1>1, <1>3, <2>1 DEF Promise!End
<1> QED
  BY <1>4, <1>5, <1>6

\* A step on which no call begins or ends, and none is carried out.
LEMMA StutterMaps ==
    ASSUME \A c \in Calls : (pc'[c] = "new" <=> pc[c] = "new")
              /\ (pc'[c] \in {"shutdown", "returned"} <=> pc[c] \in {"shutdown", "returned"}),
           \A c \in Ended : Brought(c)' = Brought(c),
           UNCHANGED served
    PROVE  UNCHANGED Promise!vars
<1>1. Ended' = Ended /\ Pending' = Pending
  BY DEF Ended, Pending
<1>2. Outcome' = Outcome
  <2>1. Outcome' = [d \in Ended' |-> Brought(d)'] /\ Outcome = [d \in Ended |-> Brought(d)]
    BY DEF Outcome, Brought
  <2> QED BY <1>1, <2>1
<1> QED
  BY <1>1, <1>2 DEF Promise!vars

LEMMA InitMaps == Init => Promise!Init
<1> SUFFICES ASSUME Init PROVE Promise!Init
  OBVIOUS
<1>1. Pending = {} /\ Ended = {}
  BY DEF Init, Pending, Ended
<1>2. Outcome = [c \in {} |-> <<"failed">>]
  BY <1>1 DEF Outcome
<1> QED
  BY <1>1, <1>2 DEF Init, Promise!Init, Promise!Failed

LEMMA StepMaps ==
    ASSUME Kept, Kept', [Next]_vars
    PROVE  [Promise!Next]_(Promise!vars)
<1> USE DEF caller, administration, stream, other
<1>1. /\ pc \in [Calls -> Places] /\ result \in [Calls -> Results]
      /\ response \in [Calls -> Calls \cup {NoCall}]
      /\ pc' \in [Calls -> Places] /\ peer \subseteq Calls
  BY DEF Kept, IInv, TypeOK
<1>2. ASSUME NEW c \in Calls, Call(c) PROVE Promise!Begin(c)
  <2>1. Pending' = Pending \cup {c} /\ Ended' = Ended /\ c \notin Pending /\ c \notin Ended
    BY <1>1, <1>2 DEF Call, Pending, Ended
  <2>2. Outcome' = Outcome
    <3>1. UNCHANGED <<result, response>>
      BY <1>2 DEF Call
    <3> QED BY <2>1, <3>1 DEF Outcome
  <2> QED BY <1>2, <2>1, <2>2, Outcomes DEF Call, Promise!Begin
<1>3. ASSUME NEW c \in Calls, PeerAnswers(c) PROVE Promise!CarryOut(c)
  <2>1. c \notin served /\ pc[c] # "new"
    BY <1>3 DEF PeerAnswers, Kept, Path, Apart
  <2>2. c \in Pending \cup DOMAIN Outcome
    BY <2>1, Outcomes DEF Pending, Ended
  <2>3. UNCHANGED <<Pending, Outcome>>
    BY <1>3 DEF PeerAnswers, Pending, Outcome, Ended
  <2> QED BY <1>3, <2>1, <2>2, <2>3 DEF PeerAnswers, Promise!CarryOut
<1>4. ASSUME NEW c \in Calls, NotOpen(c) PROVE Promise!End(c)
  <2>1. /\ pc[c] = "set" /\ pc'[c] = "returned" /\ UNCHANGED <<side, served, response>>
        /\ \A d \in Calls : d # c => pc'[d] = pc[d] /\ result'[d] = result[d]
    BY <1>1, <1>4 DEF NotOpen
  <2> QED BY <2>1, EndMaps
<1>5. ASSUME NEW c \in Calls, Finalize(c) PROVE Promise!End(c)
  <2>1. /\ pc[c] = "finalize" /\ pc'[c] \in {"shutdown", "returned"}
        /\ UNCHANGED <<side, served, response>>
        /\ \A d \in Calls : d # c => pc'[d] = pc[d] /\ result'[d] = result[d]
    BY <1>1, <1>5 DEF Finalize, Flush
  <2> QED BY <2>1, EndMaps
<1>6. ASSUME NEW c \in Calls, Shutdown(c) PROVE UNCHANGED Promise!vars
  BY <1>1, <1>6, StutterMaps DEF Shutdown, Brought
<1>7. ASSUME NEW c \in Calls,
             SetOutbound(c) \/ Open(c) \/ Submit(c) \/ Woken(c) \/ TimedOut(c)
      PROVE  UNCHANGED Promise!vars
  <2>1. /\ pc[c] \in {"enter", "set", "submit", "waiting"}
        /\ pc'[c] \in {"set", "submit", "waiting", "finalize"}
        /\ UNCHANGED <<served, response>>
        /\ \A d \in Calls : d # c => pc'[d] = pc[d] /\ result'[d] = result[d]
    BY <1>1, <1>7 DEF SetOutbound, Open, Submit, Woken, TimedOut
  <2>2. \A d \in Ended : Brought(d)' = Brought(d)
    BY <2>1 DEF Ended, Brought
  <2> QED BY <2>1, <2>2, StutterMaps
<1>8. ASSUME Send \/ Header \/ StateChange \/ ReportResponse \/ PeerAsks \/ PeerCloses \/ UNCHANGED vars
      PROVE  UNCHANGED Promise!vars
  <2>1. UNCHANGED <<pc, result, response, served>>
    BY <1>8 DEF Send, Header, StateChange, ReportResponse, PeerAsks, PeerCloses, vars
  <2> QED BY <2>1, StutterMaps DEF Brought
<1>9. ASSUME Payload PROVE UNCHANGED Promise!vars
  <2>1. UNCHANGED <<pc, result, served>> /\ IsOpen
        /\ response' = IF reading.into = NoCall THEN response ELSE [response EXCEPT ![reading.into] = reading.of]
    BY <1>9 DEF Payload
  <2>2. ASSUME NEW d \in Calls, result[d] = "answered" PROVE response'[d] = response[d]
    <3>1. d \in signalled /\ (reading.into # NoCall => reading.into \notin signalled)
      BY <2>1, <2>2 DEF Kept, Path, Own, Closes
    <3> QED BY <1>1, <2>1, <3>1
  <2>3. \A d \in Ended : Brought(d)' = Brought(d)
    BY <2>1, <2>2 DEF Ended, Brought
  <2> QED BY <2>1, <2>3, StutterMaps
<1> QED
  BY <1>2, <1>3, <1>4, <1>5, <1>6, <1>7, <1>8, <1>9 DEF Next, Caller, Monitor, Promise!Next

LEMMA AlwaysKept == Spec => []Kept
<1>1. Init => Kept
  BY KeptInit
<1>2. Kept /\ [Next]_vars => Kept'
  BY KeptStep
<1> QED
  BY <1>1, <1>2, PTL DEF Spec

\* A call that succeeds brings the answer to a call of its label that was carried
\* out, its own or one an earlier call has left behind, and no answer is brought
\* twice (Element, ReceivedMessage, Finalize, UnknownProxy::Shutdown): for any calls,
\* labels and time-outs, at either end.
THEOREM Refinement == Spec => ImplementsCall
<1>1. Init => Promise!Init
  BY InitMaps
<1>2. Kept /\ Kept' /\ [Next]_vars => [Promise!Next]_(Promise!vars)
  BY StepMaps
<1> QED
  BY <1>1, <1>2, AlwaysKept, PTL DEF Spec, ImplementsCall, Promise!Spec

\* What the caller finds in its message after a call that succeeded is the answer to
\* that very call, if no call of its label waits for a limited time: RPC::Communication-
\* TimeOut is infinite in a debug build.
THEOREM PatientAnswers ==
    Spec => [](\A c \in Ended : result[c] = "answered" /\ Patient(Label[c]) => response[c] = c)
<1>1. Kept => (\A c \in Ended : result[c] = "answered" /\ Patient(Label[c]) => response[c] = c)
  BY DEF Kept, Path, Own, PatientOwn, Ended
<1> QED
  BY <1>1, AlwaysKept, PTL
=============================================================================
