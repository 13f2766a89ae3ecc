------------------------ MODULE MCPluginLifecycle ------------------------
(* Instances of PluginLifecycle for TLC.  Plugin "A" controls the subsystem *)
(* that plugin "B" depends on.                                              *)
EXTENDS PluginLifecycle

MCOrder == <<"A", "B">>
MCPreconditions == [p \in Plugins |-> IF p = "B" THEN {"NETWORK"} ELSE {}]
MCTerminations == [p \in Plugins |-> IF p = "B" THEN {"NETWORK"} ELSE {}]
MCControls == [p \in Plugins |-> IF p = "A" THEN {"NETWORK"} ELSE {}]

\* "A" itself waits for a subsystem of the platform.
FullPreconditions == [p \in Plugins |-> IF p = "B" THEN {"NETWORK"} ELSE {"PLATFORM"}]

\* "B" depends on a subsystem of "A" and on one of the platform.
EitherConditions == [p \in Plugins |-> IF p = "B" THEN {"NETWORK", "INTERNET"} ELSE {}]
=============================================================================
