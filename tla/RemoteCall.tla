----------------------------- MODULE RemoteCall -----------------------------
(***************************************************************************)
(* What calling another process promises.  A call that succeeds brings an  *)
(* answer to a call of its own kind, which has been carried out there: its *)
(* own, or that of an earlier call that was given up, or that itself       *)
(* brought another one.  An answer is brought once.  A call that fails may *)
(* or may not have been carried out, now or later, and none is carried out *)
(* twice.                                                                  *)
(***************************************************************************)
CONSTANTS
    Calls,
    Kind,           \* [Calls -> kinds of calls]
    Impatient       \* the calls that may be given up

VARIABLES
    pending,        \* the calls somebody waits for
    carriedOut,     \* the calls the other process has carried out
    outcome         \* of the calls that ended

vars == <<pending, carriedOut, outcome>>

Failed == <<"failed">>
GivenUp == <<"given up">>
Answer(c) == <<"answer", c>>

Init == pending = {} /\ carriedOut = {} /\ outcome = [c \in {} |-> Failed]

Begin(c) ==
    /\ c \notin pending /\ c \notin DOMAIN outcome
    /\ pending' = pending \cup {c}
    /\ UNCHANGED <<carriedOut, outcome>>

CarryOut(c) ==
    /\ c \in (pending \cup DOMAIN outcome) \ carriedOut
    /\ carriedOut' = carriedOut \cup {c}
    /\ UNCHANGED <<pending, outcome>>

\* The calls whose answer c may be given.
Answers(c) ==
    {d \in carriedOut :
        /\ Kind[d] = Kind[c]
        /\ d = c \/ (d \in DOMAIN outcome /\ outcome[d] # Failed)
        /\ \A e \in DOMAIN outcome : outcome[e] # Answer(d)}

End(c) ==
    /\ c \in pending
    /\ pending' = pending \ {c}
    /\ \E o \in {Failed} \cup {GivenUp : i \in {c} \cap Impatient} \cup {Answer(d) : d \in Answers(c)} :
          outcome' = [d \in DOMAIN outcome \cup {c} |-> IF d = c THEN o ELSE outcome[d]]
    /\ UNCHANGED carriedOut

Next == \E c \in Calls : Begin(c) \/ CarryOut(c) \/ End(c)

Spec == Init /\ [][Next]_vars
=============================================================================
