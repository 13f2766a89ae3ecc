--------------------------- MODULE MCRequestFlow ---------------------------
(* Instances of RequestFlow for TLC: channel "c1" lets two requests through *)
(* and "c2" one; plugin "p" handles one at a time, "q" as many as come.     *)
EXTENDS RequestFlow

MCSource == [r \in Requests |-> IF r \in {1, 2, 3, 4} THEN "c1" ELSE "c2"]
MCTarget == [r \in Requests |-> IF r = 3 THEN "q" ELSE "p"]
MCChannelSlots == [c \in Channels |-> IF c = "c1" THEN 2 ELSE 1]
MCServiceSlots == [s \in Services |-> IF s = "p" THEN 1 ELSE 0]
=============================================================================
