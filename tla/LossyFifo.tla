----------------------------- MODULE LossyFifo -----------------------------
(***************************************************************************)
(* What a message buffer promises: a queue of whole messages from one      *)
(* process to another.  Messages are numbered in the order in which they   *)
(* are put, so the queue is the set of the numbers that are in it.  A      *)
(* writer that finds no room drops the oldest ones, a reader that does not *)
(* know a kind of message drops all, and what the reader takes is always   *)
(* the oldest message that is left.                                        *)
(***************************************************************************)
EXTENDS Naturals, Sequences

VARIABLES
    put,        \* how many messages have been put; they are numbered from 1
    queue,      \* the messages that can be taken
    taken       \* the messages the reader took

vars == <<put, queue, taken>>

Init == put = 0 /\ queue = {} /\ taken = << >>

Put ==
    /\ put' = put + 1
    /\ queue' = queue \cup {put + 1}
    /\ UNCHANGED taken

Drop ==
    /\ \E n \in queue : queue' = {k \in queue : k > n}
    /\ UNCHANGED <<put, taken>>

Take ==
    /\ \E n \in queue :
          /\ \A k \in queue : n <= k
          /\ taken' = Append(taken, n)
          /\ queue' = queue \ {n}
    /\ UNCHANGED put

Next == Put \/ Drop \/ Take

Spec == Init /\ [][Next]_vars
=============================================================================
