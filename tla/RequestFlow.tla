---------------------------- MODULE RequestFlow ----------------------------
(***************************************************************************)
(* Requests on their way from the channels (HTTP and web sockets) to the   *)
(* plugins: Server::Channel, its jobs, and two ThrottleQueueType in a row, *)
(* one of the channel and one of the service.                              *)
(*                                                                         *)
(* The thread of the resource monitor pushes what it receives; the minions *)
(* of the worker pool dispatch the jobs, and a job that is done first pops *)
(* the throttle of its service and then that of its channel, if it is      *)
(* still there.  Push and Pop hold the lock of their throttle while they   *)
(* forward, so each of them is one step with all it hands on.              *)
(***************************************************************************)
EXTENDS Integers, Sequences, FiniteSets

CONSTANTS
    Channels,
    Services,
    Requests,       \* bound: the requests of a behaviour
    Source,         \* [Requests -> Channels]
    Target,         \* [Requests -> Services]
    ChannelSlots,   \* [Channels -> Nat], channel_throttle; 0 is no limit
    ServiceSlots,   \* [Services -> Nat], throttle; 0 is no limit
    MinionCount

ASSUME RouteAssumption ==
    /\ Source \in [Requests -> Channels]
    /\ Target \in [Requests -> Services]
    /\ IsFiniteSet(Requests)

ASSUME SlotAssumption ==
    /\ ChannelSlots \in [Channels -> Nat]
    /\ ServiceSlots \in [Services -> Nat]
    /\ MinionCount \in Nat \ {0}

VARIABLES
    phase,          \* where the job of a request is
    connection,     \* a channel is open, closed, or no longer in the ChannelMap
    cused, cqueue,  \* _used and _queue of the throttle of a channel
    sused, squeue   \* ... and of a service

vars == <<phase, connection, cused, cqueue, sused, squeue>>

\* "channel" and "service": queued there.  "pool": submitted to the worker pool.
\* The rest is Job::Dispatch: "dispatch" until the response has been submitted,
\* then "answered" until Pop of the service, "popped" until the channel has been
\* looked up, "found" until its Pop, and "held" while Completed refers to it.
Running == {"dispatch", "answered", "popped", "found", "held"}
Phase == {"new", "channel", "service", "pool", "done", "dropped"} \cup Running

Init ==
    /\ phase = [r \in Requests |-> "new"]
    /\ connection = [c \in Channels |-> "open"]
    /\ cused = [c \in Channels |-> 0] /\ cqueue = [c \in Channels |-> << >>]
    /\ sused = [s \in Services |-> 0] /\ squeue = [s \in Services |-> << >>]

HasSlot(used, slots) == used < slots \/ slots = 0

\* Mutant of PushService: one request too many is forwarded.
PushServiceTooMany(r, now) ==
    LET s == Target[r]
    IN  IF HasSlot(sused[s] - 1, ServiceSlots[s])
        THEN /\ sused' = [sused EXCEPT ![s] = @ + 1]
             /\ phase' = [now EXCEPT ![r] = "pool"]
             /\ UNCHANGED squeue
        ELSE /\ squeue' = [squeue EXCEPT ![s] = Append(@, r)]
             /\ phase' = [now EXCEPT ![r] = "service"]
             /\ UNCHANGED sused

\* Service::Submit: Push of its throttle, which forwards to the worker pool.
PushService(r, now) ==
    LET s == Target[r]
    IN  IF HasSlot(sused[s], ServiceSlots[s])
        THEN /\ sused' = [sused EXCEPT ![s] = @ + 1]
             /\ phase' = [now EXCEPT ![r] = "pool"]
             /\ UNCHANGED squeue
        ELSE /\ squeue' = [squeue EXCEPT ![s] = Append(@, r)]
             /\ phase' = [now EXCEPT ![r] = "service"]
             /\ UNCHANGED sused

\* Channel::Received of a request that needs its plugin.
Received(r) ==
    LET c == Source[r]
    IN  /\ phase[r] = "new" /\ connection[c] = "open"
        /\ IF HasSlot(cused[c], ChannelSlots[c])
           THEN /\ cused' = [cused EXCEPT ![c] = @ + 1]
                /\ PushService(r, phase)
                /\ UNCHANGED cqueue
           ELSE /\ cqueue' = [cqueue EXCEPT ![c] = Append(@, r)]
                /\ phase' = [phase EXCEPT ![r] = "channel"]
                /\ UNCHANGED <<cused, sused, squeue>>
        /\ UNCHANGED connection

\* A minion takes the job.  Which one is the business of CategoryQueue.
Dispatch(r) ==
    /\ phase[r] = "pool"
    /\ Cardinality({q \in Requests : phase[q] \in Running}) < MinionCount
    /\ phase' = [phase EXCEPT ![r] = "dispatch"]
    /\ UNCHANGED <<connection, cused, cqueue, sused, squeue>>

\* The plugin has processed it, and Job::Submit has sent the response, if any,
\* to the channel, if it is there.
Answer(r) ==
    /\ phase[r] = "dispatch"
    /\ phase' = [phase EXCEPT ![r] = "answered"]
    /\ UNCHANGED <<connection, cused, cqueue, sused, squeue>>

\* Mutant of ServicePop: the slot is given back, and the next one not handed on.
ServicePopForgetful(r) ==
    /\ phase[r] = "answered"
    /\ sused' = [sused EXCEPT ![Target[r]] = @ - 1]
    /\ phase' = [phase EXCEPT ![r] = "popped"]
    /\ UNCHANGED <<connection, cused, cqueue, squeue>>

\* Mutant of ServicePop: the slot is given back and handed on.
ServicePopTwice(r) ==
    LET s == Target[r]
    IN  /\ phase[r] = "answered"
        /\ sused' = [sused EXCEPT ![s] = @ - 1]
        /\ IF squeue[s] # << >>
           THEN /\ phase' = [phase EXCEPT ![r] = "popped", ![Head(squeue[s])] = "pool"]
                /\ squeue' = [squeue EXCEPT ![s] = Tail(@)]
           ELSE /\ phase' = [phase EXCEPT ![r] = "popped"]
                /\ UNCHANGED squeue
        /\ UNCHANGED <<connection, cused, cqueue>>

\* Mutant of ServicePop: nothing is popped for a channel that is gone.
ServicePopIfThere(r) ==
    LET s == Target[r]
    IN  /\ phase[r] = "answered"
        /\ IF squeue[s] # << >>
           THEN /\ phase' = [phase EXCEPT ![r] = "popped", ![Head(squeue[s])] = "pool"]
                /\ squeue' = [squeue EXCEPT ![s] = Tail(@)]
                /\ UNCHANGED sused
           ELSE /\ sused' = IF connection[Source[r]] = "removed" THEN sused
                            ELSE [sused EXCEPT ![s] = @ - 1]
                /\ phase' = [phase EXCEPT ![r] = "popped"]
                /\ UNCHANGED squeue
        /\ UNCHANGED <<connection, cused, cqueue>>

\* Job::Completed: Pop of the throttle of the service ...
ServicePop(r) ==
    LET s == Target[r]
    IN  /\ phase[r] = "answered"
        /\ IF squeue[s] # << >>
           THEN /\ phase' = [phase EXCEPT ![r] = "popped", ![Head(squeue[s])] = "pool"]
                /\ squeue' = [squeue EXCEPT ![s] = Tail(@)]
                /\ UNCHANGED sused
           ELSE /\ sused' = [sused EXCEPT ![s] = @ - 1]
                /\ phase' = [phase EXCEPT ![r] = "popped"]
                /\ UNCHANGED squeue
        /\ UNCHANGED <<connection, cused, cqueue>>

\* Mutant of FindChannel: a channel that is closed is not found.
FindOpenChannel(r) ==
    /\ phase[r] = "popped"
    /\ phase' = [phase EXCEPT ![r] = IF connection[Source[r]] # "open"
                                     THEN "done" ELSE "found"]
    /\ UNCHANGED <<connection, cused, cqueue, sused, squeue>>

\* ... Server::Connection ...
FindChannel(r) ==
    /\ phase[r] = "popped"
    /\ phase' = [phase EXCEPT ![r] = IF connection[Source[r]] = "removed"
                                     THEN "done" ELSE "found"]
    /\ UNCHANGED <<connection, cused, cqueue, sused, squeue>>

\* ... and Pop of the throttle of the channel.
ChannelPop(r) ==
    LET c == Source[r]
    IN  /\ phase[r] = "found"
        /\ IF cqueue[c] # << >>
           THEN /\ PushService(Head(cqueue[c]), [phase EXCEPT ![r] = "held"])
                /\ cqueue' = [cqueue EXCEPT ![c] = Tail(@)]
                /\ UNCHANGED cused
           ELSE /\ cused' = [cused EXCEPT ![c] = @ - 1]
                /\ phase' = [phase EXCEPT ![r] = "held"]
                /\ UNCHANGED <<cqueue, sused, squeue>>
        /\ UNCHANGED connection

\* The last reference to a channel that has been removed destroys it, with what
\* it has still queued.
Holders(c) == {r \in Requests : Source[r] = c /\ phase[r] \in {"found", "held"}}
Queued(c) == {r \in Requests : Source[r] = c /\ phase[r] = "channel"}
Destroyed(c, now) == [r \in Requests |-> IF r \in Queued(c) THEN "dropped" ELSE now[r]]

ReleaseChannel(r) ==
    LET c == Source[r]
        now == [phase EXCEPT ![r] = "done"]
    IN  /\ phase[r] = "held"
        /\ IF connection[c] = "removed" /\ Holders(c) = {r}
           THEN /\ phase' = Destroyed(c, now)
                /\ cqueue' = [cqueue EXCEPT ![c] = << >>]
           ELSE /\ phase' = now
                /\ UNCHANGED cqueue
        /\ UNCHANGED <<connection, cused, sused, squeue>>

\* The connection is lost, or closed from either side.
Close(c) ==
    /\ connection[c] = "open"
    /\ connection' = [connection EXCEPT ![c] = "closed"]
    /\ UNCHANGED <<phase, cused, cqueue, sused, squeue>>

\* ChannelMap::Cleanup, or the next Accept, forgets a channel that is closed.
Cleanup(c) ==
    /\ connection[c] = "closed"
    /\ connection' = [connection EXCEPT ![c] = "removed"]
    /\ IF Holders(c) = {}
       THEN /\ phase' = Destroyed(c, phase)
            /\ cqueue' = [cqueue EXCEPT ![c] = << >>]
       ELSE UNCHANGED <<phase, cqueue>>
    /\ UNCHANGED <<cused, sused, squeue>>

\* The rest of Job::Dispatch, once a minion has taken the job.
Proceed(r) ==
    Answer(r) \/ ServicePop(r) \/ FindChannel(r) \/ ChannelPop(r) \/ ReleaseChannel(r)

Next ==
    \/ \E r \in Requests : Received(r) \/ Dispatch(r) \/ Proceed(r)
    \/ \E c \in Channels : Close(c) \/ Cleanup(c)

Spec == Init /\ [][Next]_vars

\* The minions go on.  That is all it takes: a behaviour has finitely many
\* requests, so none can be passed over for ever.
Fairness == WF_vars(\E r \in Requests : Dispatch(r) \/ Proceed(r))

FairSpec == Spec /\ Fairness

-----------------------------------------------------------------------------
TypeOK ==
    /\ phase \in [Requests -> Phase]
    /\ connection \in [Channels -> {"open", "closed", "removed"}]
    /\ cused \in [Channels -> Nat] /\ cqueue \in [Channels -> Seq(Requests)]
    /\ sused \in [Services -> Nat] /\ squeue \in [Services -> Seq(Requests)]

HasChannelSlot == {"service", "pool", "dispatch", "answered", "popped", "found"}

\* Who has a slot of a service, and who of a channel.
InService(s) ==
    {r \in Requests : Target[r] = s /\ phase[r] \in {"pool", "dispatch", "answered"}}
InChannel(c) ==
    {r \in Requests : Source[r] = c /\ phase[r] \in HasChannelSlot}

ServiceAccount == \A s \in Services :
    /\ sused[s] = Cardinality(InService(s))
    /\ ServiceSlots[s] # 0 => sused[s] <= ServiceSlots[s]

ChannelAccount == \A c \in Channels : connection[c] # "removed" =>
    /\ cused[c] = Cardinality(InChannel(c))
    /\ ChannelSlots[c] # 0 => cused[c] <= ChannelSlots[c]

\* The counts say what they count, whatever Received, Pop and the end of a
\* channel do in between; and no more have a slot than there are.
SlotAccount == ServiceAccount /\ ChannelAccount

\* Nobody is queued while there is a slot: there is nobody who would hand it on.
NoIdleSlot ==
    /\ \A s \in Services : squeue[s] # << >> => ~HasSlot(sused[s], ServiceSlots[s])
    /\ \A c \in Channels : cqueue[c] # << >> => ~HasSlot(cused[c], ChannelSlots[c])

\* Who waits, and who in front of whom: requests of one channel to one plugin,
\* first those in the queue of the plugin, then those in that of the channel.
Waiting == {r \in Requests : phase[r] \in {"channel", "service"}}
Earlier(queue, q, r) ==
    \E i, j \in 1..Len(queue) : i < j /\ queue[i] = q /\ queue[j] = r
Ahead(q, r) ==
    /\ Source[q] = Source[r] /\ Target[q] = Target[r]
    /\ \/ phase[q] = "service" /\ phase[r] = "channel"
       \/ Earlier(squeue[Target[r]], q, r)
       \/ Earlier(cqueue[Source[r]], q, r)
Before == {pair \in Waiting \X Waiting : Ahead(pair[1], pair[2])}
Admitted == {r \in Requests : phase[r] \in {"pool", "dispatch"}}
Arrived == {r \in Requests : phase[r] # "new"}

\* The two throttles in a row admit each plugin's requests of a channel in the
\* order in which they came, and no more at a time than either allows.
Admission == INSTANCE RequestAdmission
    WITH waiting <- Waiting, before <- Before, admitted <- Admitted, arrived <- Arrived
ImplementsAdmission == Admission!Spec

\* A request is answered, unless its channel does not stay open; the slots of a
\* plugin come back even then.
Answered == \A r \in Requests :
    phase[r] # "new" ~> (phase[r] = "done" \/ connection[Source[r]] # "open")
SlotsReturn == <>[](\A s \in Services : sused[s] = 0)
=============================================================================
