-------------------------- MODULE PluginContract --------------------------
(***************************************************************************)
(* What the plugin life cycle promises to the rest of the daemon and to    *)
(* the observers of a plugin, whatever the number of threads that request  *)
(* changes: every change of a plugin has one owner from its first step to  *)
(* its last, only the owner completes it, and the observers are told about *)
(* it in between and in order.                                             *)
(***************************************************************************)
CONSTANTS Plugins, Threads

VARIABLES
    phase,   \* "down", "starting", "up" or "stopping"
    owner,   \* the threads inside the plugin's Initialize or Deinitialize
    told     \* the observers' view: TRUE between Activated and Deactivated

contract == <<phase, owner, told>>

Init ==
    /\ phase = [p \in Plugins |-> "down"]
    /\ owner = [p \in Plugins |-> {}]
    /\ told = [p \in Plugins |-> FALSE]

\* A thread starts the plugin.
Start(t, p) ==
    /\ phase[p] = "down" /\ owner[p] = {}
    /\ phase' = [phase EXCEPT ![p] = "starting"]
    /\ owner' = [owner EXCEPT ![p] = {t}]
    /\ UNCHANGED told

\* It came up, and the observers are told in the same step.
Started(t, p) ==
    /\ phase[p] = "starting" /\ owner[p] = {t}
    /\ phase' = [phase EXCEPT ![p] = "up"]
    /\ owner' = [owner EXCEPT ![p] = {}]
    /\ told' = [told EXCEPT ![p] = TRUE]

\* It did not come up; no observer ever hears of it.
Failed(t, p) ==
    /\ phase[p] = "starting" /\ owner[p] = {t}
    /\ phase' = [phase EXCEPT ![p] = "down"]
    /\ owner' = [owner EXCEPT ![p] = {}]
    /\ UNCHANGED told

\* A thread stops the plugin.
Stop(t, p) ==
    /\ phase[p] = "up" /\ owner[p] = {}
    /\ phase' = [phase EXCEPT ![p] = "stopping"]
    /\ owner' = [owner EXCEPT ![p] = {t}]
    /\ UNCHANGED told

\* The observers are told while the plugin is still there.
Tell(t, p) ==
    /\ phase[p] = "stopping" /\ owner[p] = {t} /\ told[p]
    /\ told' = [told EXCEPT ![p] = FALSE]
    /\ UNCHANGED <<phase, owner>>

\* The plugin is gone.
Stopped(t, p) ==
    /\ phase[p] = "stopping" /\ owner[p] = {t} /\ ~told[p]
    /\ phase' = [phase EXCEPT ![p] = "down"]
    /\ owner' = [owner EXCEPT ![p] = {}]
    /\ UNCHANGED told

Next == \E t \in Threads, p \in Plugins :
            \/ Start(t, p) \/ Started(t, p) \/ Failed(t, p)
            \/ Stop(t, p) \/ Tell(t, p) \/ Stopped(t, p)

Spec == Init /\ [][Next]_contract
=============================================================================
