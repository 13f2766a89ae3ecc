---------------------------- MODULE MCJobQueue ----------------------------
(* Instances of JobQueue for TLC: "a" and "b" make a COM-RPC call during    *)
(* which "A" and "B" call back, "c" and "d" do not call anyone.             *)
EXTENDS JobQueue

MCCallback ==
    [j \in Jobs |-> CASE j = "a" -> "A" [] j = "b" /\ "B" \in Jobs -> "B" [] OTHER -> NoJob]

MCPriority == [j \in Jobs |-> IF j = "d" THEN "MEDIUM" ELSE "LOW"]

\* Two threads, of which low priority jobs may take one; eight slots per thread
\* scaled down to two in all.
MCMark == [c \in Categories |-> IF c = "HIGH" THEN 2 ELSE 1]
\* Three threads, of which low priority jobs may take two.
WideMark == [c \in Categories |-> IF c = "HIGH" THEN 3 ELSE 2]
=============================================================================
