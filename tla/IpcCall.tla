------------------------------- MODULE IpcCall -------------------------------
(***************************************************************************)
(* One end of an IPC channel: the callers that Execute a call on it, one   *)
(* at a time, the thread of the resource monitor that sends, receives and  *)
(* closes, and the jobs that answer what the other end asks.               *)
(*                                                                         *)
(* The administration (IPCFactory) knows one call in progress.  An answer  *)
(* carries the label of its message, that is which kind of call it answers *)
(* and not which call: one that comes after its call was given up is taken *)
(* for the answer to the call of that label that is in progress by then.   *)
(***************************************************************************)
EXTENDS Naturals, Sequences, FiniteSets

CONSTANTS
    Calls,          \* bound: each is made once
    NoCall,
    Label,          \* [Calls -> labels]: InvokeMessage or AnnounceMessage
    Sides,          \* the ends to start with
    Impatient,      \* side and label of the calls that wait for a limited time
    MaxAsked        \* bound: what the other end asks

ASSUME CallAssumption ==
    /\ NoCall \notin Calls
    /\ DOMAIN Label = Calls
    /\ Sides \subseteq {"server", "client"}
    /\ MaxAsked \in Nat

VARIABLES
    side,           \* a Communicator has the end of a server, a CommunicatorClient the other
    link,           \* the socket: closing is everything but open, until it is closed
    pc,             \* where a call is
    result,         \* what Execute returns for it
    owner,          \* the call that has locked _serialize
    outbound,       \* _outbound, _callback (the IPCTrigger of a call), _abort and _inbound
    callback,       \* of the administration
    abort,
    inbound,
    signalled,      \* the calls whose event is set
    queue,          \* the queue of the serializer
    wire,           \* what the other end has sent and is not read yet
    reading,        \* what the deserializer is in the middle of
    response,       \* whose answer has been put into the response of a call
    peer,           \* the calls the other end is busy with
    served,         \* the calls it has carried out
    asked,          \* the requests the other end has sent
    jobs            \* those a job here is to answer

administration == <<outbound, callback, abort, inbound>>
caller == <<pc, result, owner>>
stream == <<queue, wire, reading>>
other == <<peer, served, asked>>
vars == <<side, link, caller, administration, signalled, stream, response, other, jobs>>

\* "set": the administration has the call, the link is not looked at yet.
\* "shutdown": a call that timed out, after it has unlocked _serialize.
Waiting == {"set", "submit", "waiting", "finalize"}
Places == {"new", "enter", "shutdown", "returned"} \cup Waiting
Results == {"none", "answered", "timedout", "failed", "closed"}

\* A message belongs to a call made here, or to one the other end makes.
Theirs == NoCall
Messages == Calls \cup {Theirs}

\* The message whose header has been read, and the call it is put into.
Frames == [busy : BOOLEAN, of : Messages, into : Calls \cup {NoCall}]
Nothing == [busy |-> FALSE, of |-> Theirs, into |-> NoCall]

Init ==
    /\ side \in Sides /\ link = "open"
    /\ pc = [c \in Calls |-> "new"] /\ result = [c \in Calls |-> "none"]
    /\ owner = NoCall
    /\ outbound = NoCall /\ callback = NoCall /\ abort = FALSE /\ inbound = FALSE
    /\ signalled = {}
    /\ queue = << >> /\ wire = << >> /\ reading = Nothing
    /\ response = [c \in Calls |-> NoCall]
    /\ peer = {} /\ served = {} /\ asked = 0 /\ jobs = 0

IsOpen == link = "open"
Closing == IF link = "open" THEN "closing" ELSE link

-----------------------------------------------------------------------------
(* A caller: IPCChannelType::Execute, and UnknownProxy around it.           *)

Call(c) ==
    /\ pc[c] = "new"
    /\ pc' = [pc EXCEPT ![c] = "enter"]
    /\ UNCHANGED <<side, link, result, owner, administration, signalled, stream, response, other, jobs>>

\* _serialize.Lock() and SetOutbound.
SetOutbound(c) ==
    /\ pc[c] = "enter" /\ owner = NoCall
    /\ owner' = c
    /\ outbound' = c /\ callback' = c
    /\ pc' = [pc EXCEPT ![c] = "set"]
    /\ UNCHANGED <<side, link, result, abort, inbound, signalled, stream, response, other, jobs>>

\* Flush of the administration.  _abort stays as it is.
Flush == outbound' = NoCall /\ callback' = NoCall /\ inbound' = FALSE

\* The link is down: Flush, and _serialize.Unlock().
NotOpen(c) ==
    /\ pc[c] = "set" /\ ~IsOpen
    /\ Flush
    /\ result' = [result EXCEPT ![c] = "closed"]
    /\ owner' = NoCall
    /\ pc' = [pc EXCEPT ![c] = "returned"]
    /\ UNCHANGED <<side, link, abort, signalled, stream, response, other, jobs>>

Open(c) ==
    /\ pc[c] = "set" /\ IsOpen
    /\ pc' = [pc EXCEPT ![c] = "submit"]
    /\ UNCHANGED <<side, link, result, owner, administration, signalled, stream, response, other, jobs>>

\* LinkType::Submit looks at the link once more, and then Wait begins.
Submit(c) ==
    /\ pc[c] = "submit"
    /\ queue' = IF IsOpen THEN Append(queue, c) ELSE queue
    /\ pc' = [pc EXCEPT ![c] = "waiting"]
    /\ UNCHANGED <<side, link, result, owner, administration, signalled, wire, reading, response, other, jobs>>

Woken(c) ==
    /\ pc[c] = "waiting" /\ c \in signalled
    /\ result' = [result EXCEPT ![c] = "answered"]
    /\ pc' = [pc EXCEPT ![c] = "finalize"]
    /\ UNCHANGED <<side, link, owner, administration, signalled, stream, response, other, jobs>>

TimedOut(c) ==
    /\ pc[c] = "waiting" /\ c \notin signalled
    /\ <<side, Label[c]>> \in Impatient
    /\ result' = [result EXCEPT ![c] = "timedout"]
    /\ pc' = [pc EXCEPT ![c] = "finalize"]
    /\ UNCHANGED <<side, link, owner, administration, signalled, stream, response, other, jobs>>

\* Mutant of Finalize: the administration keeps the trigger of a call in time-out.
FinalizeKeepsTrigger(c) ==
    /\ pc[c] = "finalize"
    /\ IF abort
       THEN /\ Flush
            /\ abort' = FALSE
            /\ result' = [result EXCEPT ![c] = "failed"]
       ELSE /\ outbound' = NoCall
            /\ UNCHANGED <<callback, abort, inbound, result>>
    /\ owner' = NoCall
    /\ pc' = [pc EXCEPT ![c] = IF result'[c] = "timedout" /\ Label[c] = "invoke"
                               THEN "shutdown" ELSE "returned"]
    /\ UNCHANGED <<side, link, signalled, stream, response, other, jobs>>

\* Finalize and _serialize.Unlock().  Only an InvokeMessage that timed out is
\* followed by Shutdown.
Finalize(c) ==
    /\ pc[c] = "finalize"
    /\ IF abort
       THEN /\ Flush
            /\ abort' = FALSE
            /\ result' = [result EXCEPT ![c] = "failed"]
       ELSE /\ outbound' = NoCall /\ callback' = NoCall
            /\ UNCHANGED <<abort, inbound, result>>
    /\ owner' = NoCall
    /\ pc' = [pc EXCEPT ![c] = IF result'[c] = "timedout" /\ Label[c] = "invoke"
                               THEN "shutdown" ELSE "returned"]
    /\ UNCHANGED <<side, link, signalled, stream, response, other, jobs>>

\* UnknownProxy::Shutdown: only the channel of a server is a Communicator::Client.
Shutdown(c) ==
    /\ pc[c] = "shutdown"
    /\ link' = IF side = "server" THEN Closing ELSE link
    /\ pc' = [pc EXCEPT ![c] = "returned"]
    /\ UNCHANGED <<side, result, owner, administration, signalled, stream, response, other, jobs>>

-----------------------------------------------------------------------------
(* The thread of the resource monitor.                                      *)

\* The serializer sends the first of its queue.
Send ==
    /\ IsOpen /\ queue # << >>
    /\ queue' = Tail(queue)
    /\ peer' = IF Head(queue) = Theirs THEN peer ELSE peer \cup {Head(queue)}
    /\ UNCHANGED <<side, link, caller, administration, signalled, wire, reading, response, served, asked, jobs>>

\* Mutant of Element: the label is not looked at.
ElementAnyLabel(msg) ==
    IF msg # Theirs /\ outbound # NoCall THEN outbound ELSE NoCall

\* Element: where to put the message whose header has been read.
Element(msg) ==
    IF msg # Theirs /\ outbound # NoCall /\ Label[outbound] = Label[msg]
    THEN outbound ELSE NoCall

Header ==
    /\ IsOpen /\ ~reading.busy /\ wire # << >>
    /\ reading' = [busy |-> TRUE, of |-> Head(wire), into |-> Element(Head(wire))]
    /\ inbound' = (Head(wire) = Theirs)
    /\ wire' = Tail(wire)
    /\ UNCHANGED <<side, link, caller, outbound, callback, abort, signalled, queue, response, other, jobs>>

\* The message is complete: Deserialized, Received and ReceivedMessage.  One
\* that belongs to nobody any more is passed over.
Payload ==
    /\ IsOpen /\ reading.busy
    /\ response' = IF reading.into = NoCall THEN response
                   ELSE [response EXCEPT ![reading.into] = reading.of]
    /\ IF reading.into # NoCall /\ outbound = reading.into
       THEN /\ outbound' = NoCall /\ callback' = NoCall
            /\ signalled' = signalled \cup {callback}
            /\ UNCHANGED <<inbound, jobs>>
       ELSE /\ jobs' = IF inbound THEN jobs + 1 ELSE jobs
            /\ inbound' = FALSE
            /\ UNCHANGED <<outbound, callback, signalled>>
    /\ reading' = Nothing
    /\ UNCHANGED <<side, link, caller, abort, queue, wire, other>>

\* Abort of the administration.
Abort ==
    IF callback = NoCall
    THEN UNCHANGED <<callback, abort, signalled>>
    ELSE /\ abort' = TRUE
         /\ signalled' = signalled \cup {callback}
         /\ callback' = NoCall

\* Mutant of StateChange: Flush instead of Abort, the caller is not woken.
StateChangeFlush ==
    /\ link = "closing"
    /\ Flush
    /\ link' \in {"closing", "closed"}
    /\ UNCHANGED <<side, caller, abort, signalled, stream, response, other, jobs>>

\* IPCLink::StateChange: on an error or the end of the stream, and in Closed().
StateChange ==
    /\ link = "closing"
    /\ Abort
    /\ link' \in {"closing", "closed"}
    /\ UNCHANGED <<side, caller, outbound, inbound, stream, response, other, jobs>>

-----------------------------------------------------------------------------
(* Jobs here, and the other end.                                            *)

\* Mutant of ReportResponse: a job reports once more.
ReportResponseAgain ==
    /\ jobs' = jobs - 1
    /\ queue' = IF IsOpen THEN Append(queue, Theirs) ELSE queue
    /\ UNCHANGED <<side, link, caller, administration, signalled, wire, reading, response, other>>

\* ReportResponse of a job.
ReportResponse ==
    /\ jobs > 0
    /\ jobs' = jobs - 1
    /\ queue' = IF IsOpen THEN Append(queue, Theirs) ELSE queue
    /\ UNCHANGED <<side, link, caller, administration, signalled, wire, reading, response, other>>

PeerAnswers(c) ==
    /\ c \in peer
    /\ peer' = peer \ {c} /\ served' = served \cup {c}
    /\ wire' = Append(wire, c)
    /\ UNCHANGED <<side, link, caller, administration, signalled, queue, reading, response, asked, jobs>>

PeerAsks ==
    /\ IsOpen /\ asked < MaxAsked
    /\ asked' = asked + 1
    /\ wire' = Append(wire, Theirs)
    /\ UNCHANGED <<side, link, caller, administration, signalled, queue, reading, response, peer, served, jobs>>

\* The other end closes, or the connection breaks.
PeerCloses ==
    /\ IsOpen
    /\ link' = "closing"
    /\ UNCHANGED <<side, caller, administration, signalled, stream, response, other, jobs>>

-----------------------------------------------------------------------------
Caller(c) ==
    \/ SetOutbound(c) \/ NotOpen(c) \/ Open(c) \/ Submit(c) \/ Woken(c) \/ Finalize(c) \/ Shutdown(c)
Monitor == Send \/ Header \/ Payload

Next ==
    \/ \E c \in Calls : Call(c) \/ Caller(c) \/ TimedOut(c) \/ PeerAnswers(c)
    \/ Monitor \/ StateChange
    \/ ReportResponse \/ PeerAsks \/ PeerCloses

Spec == Init /\ [][Next]_vars

\* The threads run, and the other end answers in the end.  Nobody has to call,
\* to time out, to ask or to close.
FairSpec ==
    /\ Spec
    /\ WF_vars(Monitor) /\ WF_vars(StateChange)
    /\ \A c \in Calls : WF_vars(Caller(c)) /\ WF_vars(PeerAnswers(c))

-----------------------------------------------------------------------------
TypeOK ==
    /\ side \in Sides /\ link \in {"open", "closing", "closed"}
    /\ pc \in [Calls -> Places] /\ result \in [Calls -> Results]
    /\ owner \in Calls \cup {NoCall}
    /\ outbound \in Calls \cup {NoCall} /\ callback \in Calls \cup {NoCall}
    /\ abort \in BOOLEAN /\ inbound \in BOOLEAN
    /\ signalled \subseteq Calls
    /\ queue \in Seq(Messages) /\ wire \in Seq(Messages) /\ reading \in Frames
    /\ response \in [Calls -> Calls \cup {NoCall}]
    /\ peer \subseteq Calls /\ served \subseteq Calls
    /\ asked \in 0 .. MaxAsked /\ jobs \in Nat

\* The administration never refers to a call that has returned, whose trigger
\* was on the stack; and the assertions of SetOutbound, Finalize, Element and
\* ReceivedMessage hold.  (The one for a message that belongs to nobody does
\* not, when a call times out between the header and the end of its answer.)
OneOutbound ==
    /\ \A c \in Calls : pc[c] \in Waiting <=> c = owner
    /\ outbound # NoCall => outbound = owner
    /\ callback # NoCall => callback = outbound
    /\ owner = NoCall => outbound = NoCall /\ callback = NoCall
    /\ \A c \in Calls : pc[c] = "finalize" /\ result[c] = "answered" => abort \/ outbound = NoCall
    /\ IsOpen => /\ inbound <=> reading.busy /\ reading.of = Theirs
                 /\ outbound # NoCall => callback # NoCall

\* Execute has returned: a call that timed out may be about to Shutdown.
Ended == {c \in Calls : pc[c] \in {"shutdown", "returned"}}
Pending == {c \in Calls : pc[c] \notin {"new", "shutdown", "returned"}}
Outcome ==
    [c \in Ended |-> CASE result[c] = "answered" -> <<"answer", response[c]>>
                       [] result[c] = "timedout" -> <<"given up">>
                       [] OTHER -> <<"failed">>]
Promise == INSTANCE RemoteCall
    WITH Kind <- Label, Impatient <- {c \in Calls : \E s \in Sides : <<s, Label[c]>> \in Impatient},
         pending <- Pending, carriedOut <- served, outcome <- Outcome

\* However answers, time-outs and the end of the channel meet, a call that succeeds
\* brings the answer to a call of its label that was carried out: its own, or one
\* that an earlier call of that label has left behind; and no answer is brought twice.
ImplementsCall == Promise!Spec

\* A call that succeeds brings its own answer: a release note of the code says that
\* the channel of a call in time-out is closed, so that later calls do not suffer.
OwnAnswer == \A c \in Ended : result[c] = "answered" => response[c] = c

\* The same release note, of the channel itself: a method call that timed out
\* leaves it closed.
ClosedAfterTimeout ==
    \A c \in Calls : pc[c] = "returned" /\ result[c] = "timedout" /\ Label[c] = "invoke" => ~IsOpen

\* Every call returns, also when the channel is closed at any moment of it.
CallsReturn == \A c \in Calls : pc[c] = "enter" ~> pc[c] = "returned"
=============================================================================
