-------------------------- MODULE RequestAdmission --------------------------
(***************************************************************************)
(* What the request flow promises: the requests a channel sends to a       *)
(* plugin stand in line and are admitted in the order of their arrival, no *)
(* more of a plugin, and no more of a channel, at a time than its throttle *)
(* allows.  The end of a line is lost when the channel is closed.          *)
(***************************************************************************)
EXTENDS Naturals, FiniteSets

CONSTANTS Channels, Services, Requests, Source, Target, ChannelSlots, ServiceSlots

VARIABLES
    waiting,        \* the requests that stand in a line
    before,         \* <<q, r>>: q stands in front of r, in one line
    admitted,       \* the requests that are being handled
    arrived         \* the requests there have been

vars == <<waiting, before, admitted, arrived>>

Init == waiting = {} /\ before = {} /\ admitted = {} /\ arrived = {}

\* The line of r: requests of one channel to one plugin.
Line(r) == {q \in waiting : Source[q] = Source[r] /\ Target[q] = Target[r]}

\* There is room for r among the requests that are handled now.
Room(r) ==
    LET ofPlugin == {q \in admitted : Target[q] = Target[r]}
        ofChannel == {q \in admitted : Source[q] = Source[r]}
    IN  /\ ServiceSlots[Target[r]] = 0 \/ Cardinality(ofPlugin) < ServiceSlots[Target[r]]
        /\ ChannelSlots[Source[r]] = 0 \/ Cardinality(ofChannel) < ChannelSlots[Source[r]]

\* A request joins its line at the end, or is admitted if there is no line.
Arrive(r) ==
    /\ r \notin arrived
    /\ arrived' = arrived \cup {r}
    /\ \/ /\ waiting' = waiting \cup {r}
          /\ before' = before \cup (Line(r) \X {r})
          /\ UNCHANGED admitted
       \/ /\ Line(r) = {} /\ Room(r)
          /\ admitted' = admitted \cup {r}
          /\ UNCHANGED <<waiting, before>>

Leave(gone) ==
    /\ waiting' = waiting \ gone
    /\ before' = before \cap (waiting' \X waiting')

\* The first in line is admitted.
Admit(r) ==
    /\ r \in waiting /\ Room(r)
    /\ \A q \in waiting : <<q, r>> \notin before
    /\ Leave({r})
    /\ admitted' = admitted \cup {r}
    /\ UNCHANGED arrived

Finish(r) ==
    /\ r \in admitted
    /\ admitted' = admitted \ {r}
    /\ UNCHANGED <<waiting, before, arrived>>

\* The channel is gone: the ends of its lines, what it has not passed on, are lost.
HangUp(c) ==
    /\ \E gone \in SUBSET {r \in waiting : Source[r] = c} :
          /\ \A q \in gone, r \in waiting : <<q, r>> \in before => r \in gone
          /\ Leave(gone)
    /\ UNCHANGED <<admitted, arrived>>

Next ==
    \/ \E r \in Requests : Arrive(r) \/ Admit(r) \/ Finish(r)
    \/ \E c \in Channels : HangUp(c)

Spec == Init /\ [][Next]_vars
=============================================================================
