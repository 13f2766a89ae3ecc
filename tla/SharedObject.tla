---------------------------- MODULE SharedObject ----------------------------
(***************************************************************************)
(* What reference counting across two processes promises: an object lives  *)
(* as long as its own process or, while the two are connected, anybody in  *)
(* the other process refers to it.                                         *)
(***************************************************************************)
CONSTANT Holders    \* who may refer to the object in the other process

VARIABLES
    alive,
    local,      \* the process of the object refers to it
    remote,     \* those who refer to it in the other process
    connected,
    trusted     \* the promise has not been broken yet

sharedVars == <<alive, local, remote, connected, trusted>>

TypeOK ==
    /\ alive \in BOOLEAN /\ local \in BOOLEAN /\ connected \in BOOLEAN /\ trusted \in BOOLEAN
    /\ remote \subseteq Holders

Init ==
    /\ alive = TRUE /\ local = TRUE /\ remote = {} /\ connected = TRUE
    /\ trusted \in BOOLEAN

Needed == local \/ (connected /\ remote # {})

\* In the other process a reference is taken, copied, handed over or dropped;
\* only what lives can be referred to.
Refer(h) ==
    /\ h \notin remote /\ (connected => alive)
    /\ remote' = remote \cup {h}
    /\ UNCHANGED <<alive, local, connected>>

Drop(h) ==
    /\ h \in remote /\ remote' = remote \ {h}
    /\ UNCHANGED <<alive, local, connected>>

HandOver(h, other) ==
    /\ h \in remote /\ other \notin remote
    /\ remote' = (remote \ {h}) \cup {other}
    /\ UNCHANGED <<alive, local, connected>>

\* The process of the object is done with it, which may be its end.
Forget ==
    /\ local /\ local' = FALSE
    /\ alive' \in IF connected /\ remote # {} THEN {alive} ELSE {alive, FALSE}
    /\ UNCHANGED <<remote, connected>>

Destroy ==
    /\ alive /\ ~ Needed /\ alive' = FALSE
    /\ UNCHANGED <<local, remote, connected>>

Disconnect ==
    /\ connected /\ connected' = FALSE
    /\ UNCHANGED <<alive, local, remote>>

Kept ==
    \/ \E h \in Holders : Refer(h) \/ Drop(h)
    \/ \E h, other \in Holders : HandOver(h, other)
    \/ Forget \/ Destroy \/ Disconnect

\* Nothing is promised from the step on that breaks the trust.
Next ==
    \/ Kept /\ trusted /\ trusted'
    \/ ~ trusted'

Spec == Init /\ [][Next]_sharedVars
=============================================================================
