----------------------------- MODULE MCIpcCall -----------------------------
(* Instances of IpcCall for TLC: two calls of a method and an announcement. *)
EXTENDS IpcCall

MCLabel == [c \in Calls |-> IF c \in {"i", "j"} THEN "invoke" ELSE "announce"]
Methods == {"server", "client"} \X {"invoke"}
Anything == {"server", "client"} \X {"invoke", "announce"}
=============================================================================
