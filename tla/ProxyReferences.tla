-------------------------- MODULE ProxyReferences --------------------------
(***************************************************************************)
(* The references that one process holds, through proxies, to an object of *)
(* another: ProxyStub::UnknownProxy and RPC::Administrator on both ends of *)
(* one channel.                                                            *)
(*                                                                         *)
(* The owner of the object counts every reference it handed out twice, in  *)
(* the object and in the RecoverySet of the channel, from which the        *)
(* references of a peer that is gone are released.  The user counts its    *)
(* own references in a proxy, and tells the owner only when the last one   *)
(* goes: by a RELEASE call or, when the object came in as a parameter, in  *)
(* the response of that call.                                              *)
(***************************************************************************)
EXTENDS Integers, Sequences, FiniteSets, SequencesExt

CONSTANTS
    Users,      \* threads of the process that uses the object
    MaxProxies, \* bound: the proxies there are at a time
    Calls,      \* bound: the calls of the user that are under way at a time,
                \* those that nobody waits for any more included
    MaxTakes,   \* bound: the calls that hand out references, and the copies
    Roles       \* "service": the object is returned by calls; "sink": it is
                \* offered as their parameter; "both"

\* "nobody" makes no call; "sink" is who keeps what it was offered.
ASSUME UserAssumption == IsFiniteSet(Users) /\ Users \cap {"nobody", "sink"} = {}

ASSUME BoundAssumption == MaxProxies \in Nat \ {0} /\ IsFiniteSet(Calls) /\ MaxTakes \in Nat

ASSUME RoleAssumption == Roles \subseteq {"service", "sink", "both"}

VARIABLES
    setup,      \* the role of the object, and which side runs the Communicator
    link,       \* the channel: "open", "closed", "deleted" (DeleteChannel is done)
    count,      \* references to the object; 0: it is destroyed
    own,        \* its process holds one of them
    registered, \* ... those in the RecoverySet of the channel
    held,       \* ... those of jobs (Job::_instance)
    call,       \* the calls of the user
    inbound,    \* the call of the owner, also when it is given up (bound: one)
    offerer,    \* the thread of the owner that makes it
    proxy,      \* the proxies by number
    known,      \* the vector of the channel in _channelProxyMap
    dead,       \* those to be reported as dangling
    user,       \* the threads
    kept,       \* the proxy a callee has kept beyond its call
    takes,
    lost,       \* references that came with an answer nobody waited for
    slips       \* the windows that have been hit

vars == <<setup, link, count, own, registered, held, call, inbound, offerer,
          proxy, known, dead, user, kept, takes, lost, slips>>

ownerVars == <<count, own, registered, held>>

Proxies == 1 .. MaxProxies
None == 0
NoCall == [kind |-> "none", by |-> "nobody", refs |-> 0, stage |-> "none"]
NoInbound == [at |-> "none", p |-> None, gone |-> FALSE, cached |-> "none"]
NoProxy == [count |-> 0, mode |-> {}, remote |-> 0, channel |-> FALSE, lock |-> FALSE]
Idle == [at |-> "idle", p |-> None]

Init ==
    /\ setup \in [role : Roles, server : {"owner", "user"}]
    /\ link = "open"
    /\ count = 1 /\ own = TRUE /\ registered = 0 /\ held = 0
    /\ call = [c \in Calls |-> NoCall] /\ inbound = NoInbound /\ offerer = "idle"
    /\ proxy = [p \in Proxies |-> NoProxy] /\ known = << >> /\ dead = {}
    /\ user = [u \in Users |-> Idle] /\ kept = None
    /\ takes = 0 /\ lost = 0 /\ slips = {}

-----------------------------------------------------------------------------
\* Administrator: finding and making proxies.

\* Mutant of Existing: also one whose last reference is being released.
ExistingAny == IF known # << >> THEN Head(known) ELSE None

\* The entry that ProxyInstance finds is the first one; it is of use if somebody
\* still refers to it.
Existing == IF known # << >> /\ proxy[Head(known)].count > 1 THEN Head(known) ELSE None

\* UnknownProxy::Acquire waits for the lock of the proxy.
Accessible == known # << >> => ~ proxy[Head(known)].lock

Fresh == CHOOSE p \in Proxies : proxy[p].count = 0
Room == \E p \in Proxies : proxy[p].count = 0

\* Mutant of Instance: a second reference is not counted as one of the owner.
InstanceOnce(p, mode) ==
    IF p = Existing
    THEN /\ proxy' = [proxy EXCEPT ![p].count = @ + 1, ![p].mode = @ \cup mode]
         /\ UNCHANGED known
    ELSE /\ proxy' = [proxy EXCEPT ![p] =
                        [count |-> 2, mode |-> IF mode = {} THEN {} ELSE {"addref"},
                         remote |-> 1, channel |-> TRUE, lock |-> FALSE]]
         /\ known' = Append(known, p)

\* The proxy for an inbound or outbound instance, with a reference for the caller.
Instance(p, mode) ==
    IF p = Existing
    THEN /\ proxy' = [proxy EXCEPT ![p].count = @ + 1,
                                   ![p].mode = @ \cup mode,
                                   ![p].remote = @ + IF mode = {} THEN 1 ELSE 0]
         /\ UNCHANGED known
    ELSE /\ proxy' = [proxy EXCEPT ![p] =
                        [count |-> 2, mode |-> IF mode = {} THEN {} ELSE {"addref"},
                         remote |-> 1, channel |-> TRUE, lock |-> FALSE]]
         /\ known' = Append(known, p)

Chosen == IF Existing # None THEN Existing ELSE Fresh
Possible == Accessible /\ (Existing # None \/ Room)

\* Mutant of Without: the proxy stays in the vector.
WithoutNobody(p) == known

\* UnregisterUnknownProxy.
Without(p) ==
    IF \E i \in DOMAIN known : known[i] = p
    THEN RemoveAt(known, CHOOSE i \in DOMAIN known : known[i] = p)
    ELSE known

-----------------------------------------------------------------------------
\* The threads of the user.

\* IPCChannelType::Execute sends one call at a time (_serialize).
Serial == \A c \in Calls : call[c].by = "nobody"

\* A call that returns the object.
Ask(u) ==
    /\ setup.role # "sink" /\ user[u].at = "idle" /\ takes < MaxTakes
    /\ Serial /\ link = "open"
    /\ \E c \in Calls :
        /\ call[c] = NoCall
        /\ call' = [call EXCEPT ![c] = [kind |-> "get", by |-> u, refs |-> 0, stage |-> "sent"]]
    /\ user' = [user EXCEPT ![u].at = "asking"]
    /\ takes' = takes + 1
    /\ UNCHANGED <<setup, link, ownerVars, inbound, offerer, proxy, known, dead, kept, lost, slips>>

\* Its answer: with the object, or with nothing.
Return(u) ==
    \E c \in Calls :
        /\ user[u].at = "asking" /\ call[c].by = u /\ call[c].stage = "answered"
        /\ user' = [user EXCEPT ![u].at = IF call[c].refs = 1 THEN "returned" ELSE "idle"]
        /\ call' = [call EXCEPT ![c] = NoCall]
        /\ UNCHANGED <<setup, link, ownerVars, inbound, offerer, proxy, known, dead, kept,
                       takes, lost, slips>>

\* ProxyInstance for what was returned.
Obtain(u) ==
    /\ user[u].at = "returned" /\ Possible
    /\ Instance(Chosen, {})
    /\ user' = [user EXCEPT ![u] = [at |-> "holds", p |-> Chosen]]
    /\ UNCHANGED <<setup, link, ownerVars, call, inbound, offerer, dead, kept, takes, lost, slips>>

\* ... or its failure, the channel being closed.
AskFails(u) ==
    /\ user[u].at = "asking" /\ link # "open"
    /\ user' = [user EXCEPT ![u] = Idle]
    /\ UNCHANGED <<setup, link, ownerVars, call, inbound, offerer, proxy, known, dead, kept,
                   takes, lost, slips>>

\* A thread uses the reference of another one, or of what is kept, with an
\* AddRef of its own.
Copy(u) ==
    /\ user[u].at = "idle" /\ takes < MaxTakes
    /\ \E p \in Proxies :
        /\ p = kept \/ \E v \in Users : user[v] = [at |-> "holds", p |-> p]
        /\ proxy' = [proxy EXCEPT ![p].count = @ + 1]
        /\ user' = [user EXCEPT ![u] = [at |-> "holds", p |-> p]]
    /\ takes' = takes + 1
    /\ UNCHANGED <<setup, link, ownerVars, call, inbound, offerer, known, dead, kept, lost, slips>>

\* ... or takes what is kept, to release it.
TakeKept(u) ==
    /\ user[u].at = "idle" /\ kept # None
    /\ user' = [user EXCEPT ![u] = [at |-> "holds", p |-> kept]]
    /\ kept' = None
    /\ UNCHANGED <<setup, link, ownerVars, call, inbound, offerer, proxy, known, dead,
                   takes, lost, slips>>

\* The last reference goes while Complete is between its Release and the rest.
Gap(p) == IF inbound.at = "gap" /\ inbound.p = p /\ ~ inbound.gone THEN {"gap"} ELSE {}

\* Release: with the last reference the owner is told, unless Complete will do
\* that, and the lock of the proxy is held until it answers.
Drop(u) ==
    LET p == user[u].p
    IN  /\ user[u].at = "holds"
        /\ IF proxy[p].count > 2
           THEN /\ proxy' = [proxy EXCEPT ![p].count = @ - 1]
                /\ user' = [user EXCEPT ![u] = Idle]
                /\ UNCHANGED slips
           ELSE /\ slips' = slips \cup Gap(p)
                /\ IF proxy[p].channel /\ proxy[p].mode = {}
                   THEN /\ proxy' = [proxy EXCEPT ![p].count = 1, ![p].lock = TRUE]
                        /\ user' = [user EXCEPT ![u].at = "releasing"]
                   ELSE /\ proxy' = [proxy EXCEPT ![p].count = 1, ![p].channel = FALSE]
                        /\ user' = [user EXCEPT ![u].at = "leaving"]
        /\ UNCHANGED <<setup, link, ownerVars, call, inbound, offerer, known, dead, kept,
                       takes, lost>>

SendRelease(u) ==
    /\ user[u].at = "releasing" /\ Serial /\ link = "open"
    /\ \E c \in Calls :
        /\ call[c] = NoCall
        /\ call' = [call EXCEPT ![c] = [kind |-> "release", by |-> u,
                                        refs |-> proxy[user[u].p].remote, stage |-> "sent"]]
    /\ user' = [user EXCEPT ![u].at = "telling"]
    /\ UNCHANGED <<setup, link, ownerVars, inbound, offerer, proxy, known, dead, kept,
                   takes, lost, slips>>

\* The proxy lets go of its channel, and Release of the lock.
Parted(p) == [proxy EXCEPT ![p].channel = FALSE, ![p].lock = FALSE]

\* The call is answered ...
Released(u) ==
    \E c \in Calls :
        /\ user[u].at = "telling" /\ call[c].by = u /\ call[c].stage = "answered"
        /\ call' = [call EXCEPT ![c] = NoCall]
        /\ proxy' = Parted(user[u].p)
        /\ user' = [user EXCEPT ![u].at = "leaving"]
        /\ UNCHANGED <<setup, link, ownerVars, inbound, offerer, known, dead, kept, takes,
                       lost, slips>>

\* ... or has failed with the channel.
ReleaseFails(u) ==
    /\ user[u].at \in {"releasing", "telling"} /\ link # "open"
    /\ proxy' = Parted(user[u].p)
    /\ user' = [user EXCEPT ![u].at = "leaving"]
    /\ UNCHANGED <<setup, link, ownerVars, call, inbound, offerer, known, dead, kept, takes,
                   lost, slips>>

\* A call is given up: CommunicationTimeOut, of a release build, is over.  It is
\* still under way.  RemoteInterface does not care, all others call Shutdown.
TimedOut(u) ==
    \E c \in Calls :
        /\ user[u].at \in {"asking", "telling"} /\ call[c].by = u /\ link = "open"
        /\ call' = [call EXCEPT ![c].by = "nobody"]
        /\ \/ user' = [user EXCEPT ![u].at = "shutting"]
           \/ user[u].at = "asking" /\ user' = [user EXCEPT ![u] = Idle]
        /\ UNCHANGED <<setup, link, ownerVars, inbound, offerer, proxy, known, dead, kept,
                       takes, lost, slips>>

\* What is on its way when the channel closes is lost.
Closing ==
    /\ link' = "closed"
    /\ call' = [c \in Calls |-> IF call[c].stage \in {"sent", "answered"} THEN NoCall ELSE call[c]]
    /\ inbound' = IF inbound.at \in {"sent", "answer"} THEN NoInbound ELSE inbound

\* Shutdown closes the channel of the Communicator, and none at its client.
Shut(side) ==
    IF setup.server = side /\ link = "open" THEN Closing ELSE UNCHANGED <<link, call, inbound>>

\* Mutant of Shutdown: Release tries again.
ShutdownRetry(u) ==
    /\ user[u].at = "shutting"
    /\ Shut("user")
    /\ user' = IF user[u].p = None THEN [user EXCEPT ![u] = Idle]
               ELSE [user EXCEPT ![u].at = "releasing"]
    /\ UNCHANGED <<setup, ownerVars, offerer, proxy, known, dead, kept, takes, lost, slips>>

Shutdown(u) ==
    /\ user[u].at = "shutting"
    /\ Shut("user")
    /\ IF user[u].p = None
       THEN user' = [user EXCEPT ![u] = Idle] /\ UNCHANGED proxy
       ELSE user' = [user EXCEPT ![u].at = "leaving"] /\ proxy' = Parted(user[u].p)
    /\ UNCHANGED <<setup, ownerVars, offerer, known, dead, kept, takes, lost, slips>>

\* The lock is free again: the proxy leaves the administration, and is deleted.
Leave(u) ==
    LET p == user[u].p
    IN  /\ user[u].at = "leaving"
        /\ known' = Without(p)
        /\ proxy' = [proxy EXCEPT ![p] = NoProxy]
        /\ user' = [user EXCEPT ![u] = Idle]
        /\ UNCHANGED <<setup, link, ownerVars, call, inbound, offerer, dead, kept, takes,
                       lost, slips>>

-----------------------------------------------------------------------------
\* The late answer of a call that was given up.

Late(c) == call[c].by = "nobody" /\ call[c].stage = "answered" /\ link = "open"
Carried(c) == IF call[c].kind = "get" THEN call[c].refs ELSE 0

\* It finds no call: "Unexpected response message".
Unexpected(c) ==
    /\ Late(c)
    /\ \A d \in Calls : call[d].by # "nobody" => call[d].stage = "answered"
    /\ lost' = lost + Carried(c)
    /\ call' = [call EXCEPT ![c] = NoCall]
    /\ UNCHANGED <<setup, link, ownerVars, inbound, offerer, proxy, known, dead, user, kept,
                   takes, slips>>

\* It is taken for the answer of the call that waits now, all having the label
\* of InvokeMessage; that call's own answer will find nobody waiting.  What a
\* RELEASE answers is no object, and what RELEASE is answered is not looked at.
Mistaken(c) ==
    \E d \in Calls :
        /\ Late(c) /\ call[d].by # "nobody" /\ call[d].stage # "answered"
        /\ call' = [call EXCEPT ![c] = [kind |-> call[d].kind, by |-> call[d].by, refs |-> Carried(c),
                                        stage |-> "answered"],
                                ![d].by = "nobody"]
        /\ lost' = IF call[d].kind = "get" THEN lost ELSE lost + Carried(c)
        /\ UNCHANGED <<setup, link, ownerVars, inbound, offerer, proxy, known, dead, user,
                       kept, takes, slips>>

-----------------------------------------------------------------------------
\* The owner handles the calls of the user.

\* Job::Set, on the thread of the resource monitor, refers to the object called.
Receive(c) ==
    /\ link = "open" /\ call[c].stage = "sent"
    /\ call' = [call EXCEPT ![c].stage = "queued"]
    /\ IF call[c].kind = "release"
       THEN held' = held + 1 /\ count' = count + 1
       ELSE UNCHANGED <<held, count>>
    /\ UNCHANGED <<setup, link, own, registered, inbound, offerer, proxy, known, dead, user,
                   kept, takes, lost, slips>>

\* Job::Invoke, on a minion: a channel that is closed by now gets no answer.
Begin(c) ==
    /\ call[c].stage = "queued"
    /\ call' = [call EXCEPT ![c] = IF link = "open" THEN [@ EXCEPT !.stage = "handling"] ELSE NoCall]
    /\ UNCHANGED <<setup, link, ownerVars, inbound, offerer, proxy, known, dead, user, kept,
                   takes, lost, slips>>

Report(c, refs) ==
    call' = [call EXCEPT ![c] =
               IF link = "open" THEN [@ EXCEPT !.stage = "answered", !.refs = refs] ELSE NoCall]

\* The object is returned with a reference, which RegisterInterface registers;
\* also when the channel has been cleaned up since IsOpen was asked.
HandleGet(c) ==
    /\ call[c].kind = "get" /\ call[c].stage = "handling"
    /\ IF own
       THEN /\ count' = count + 1 /\ registered' = registered + 1 /\ Report(c, 1)
            /\ slips' = slips \cup IF link = "deleted" /\ setup.server = "owner" THEN {"late"} ELSE {}
       ELSE UNCHANGED <<count, registered, slips>> /\ Report(c, 0)
    /\ UNCHANGED <<setup, link, own, held, inbound, offerer, proxy, known, dead, user, kept,
                   takes, lost>>

Less(n, refs) == IF refs < n THEN n - refs ELSE 0

\* UnknownStub::Handle of RELEASE.  What is not registered is released all the same.
HandleRelease(c) ==
    /\ call[c].kind = "release" /\ call[c].stage = "handling"
    /\ registered' = Less(registered, call[c].refs)
    /\ count' = Less(count, call[c].refs)
    /\ slips' = slips \cup IF registered < call[c].refs THEN {"unregistered"} ELSE {}
    /\ Report(c, call[c].refs)
    /\ UNCHANGED <<setup, link, own, held, inbound, offerer, proxy, known, dead, user, kept,
                   takes, lost>>

\* Jobs that refer to the object and are not done.
AtWork == {c \in Calls : call[c].kind = "release" /\ call[c].stage \in {"queued", "handling"}}

\* A job that is done lets go of the object.
Clear ==
    /\ held > Cardinality(AtWork)
    /\ held' = held - 1 /\ count' = Less(count, 1)
    /\ UNCHANGED <<setup, link, own, registered, call, inbound, offerer, proxy, known, dead,
                   user, kept, takes, lost, slips>>

\* The process of the object is done with it; not in a call that passes it.
OwnerDrop ==
    /\ own /\ offerer = "idle"
    /\ own' = FALSE /\ count' = Less(count, 1)
    /\ UNCHANGED <<setup, link, registered, held, call, inbound, offerer, proxy, known, dead,
                   user, kept, takes, lost, slips>>

-----------------------------------------------------------------------------
\* A call of the owner that offers the object as a parameter.

Offer ==
    /\ setup.role # "service" /\ own /\ takes < MaxTakes
    /\ inbound = NoInbound /\ offerer = "idle" /\ link = "open"
    /\ inbound' = [NoInbound EXCEPT !.at = "sent"] /\ offerer' = "waiting"
    /\ takes' = takes + 1
    /\ UNCHANGED <<setup, link, ownerVars, call, proxy, known, dead, user, kept, lost, slips>>

\* It is given up: the owner will not hear what the response tells it to do.
OfferTimedOut ==
    /\ offerer = "waiting" /\ link = "open"
    /\ offerer' = "shutting" /\ slips' = slips \cup {"unheard"}
    /\ UNCHANGED <<setup, link, ownerVars, call, inbound, proxy, known, dead, user, kept,
                   takes, lost>>

OfferShutdown ==
    /\ offerer = "shutting" /\ offerer' = "idle"
    /\ Shut("owner")
    /\ UNCHANGED <<setup, ownerVars, proxy, known, dead, user, kept, takes, lost, slips>>

OfferFails ==
    /\ offerer = "waiting" /\ link # "open"
    /\ offerer' = "idle"
    /\ UNCHANGED <<setup, link, ownerVars, call, inbound, proxy, known, dead, user, kept,
                   takes, lost, slips>>

\* Job::Invoke in the process of the user, which finds the channel open.
BeginOffer ==
    /\ inbound.at = "sent" /\ link = "open"
    /\ inbound' = [inbound EXCEPT !.at = "begun"]
    /\ UNCHANGED <<setup, link, ownerVars, call, offerer, proxy, known, dead, user, kept,
                   takes, lost, slips>>

\* The stub makes a proxy of the parameter and calls the implementation.
Unmarshal ==
    /\ inbound.at = "begun" /\ Possible
    /\ Instance(Chosen, {"release"})
    /\ inbound' = [inbound EXCEPT !.at = "inside", !.p = Chosen]
    /\ UNCHANGED <<setup, link, ownerVars, call, offerer, dead, user, kept, takes, lost, slips>>

\* The implementation keeps the object: Register.
Keep ==
    /\ inbound.at = "inside" /\ kept = None
    /\ kept' = inbound.p
    /\ proxy' = [proxy EXCEPT ![inbound.p].count = @ + 1]
    /\ UNCHANGED <<setup, link, ownerVars, call, inbound, offerer, known, dead,
                   user, takes, lost, slips>>

\* ... or releases what it has kept: Unregister.
LetGo ==
    /\ inbound.at = "inside" /\ kept = inbound.p
    /\ kept' = None
    /\ proxy' = [proxy EXCEPT ![inbound.p].count = @ - 1]
    /\ UNCHANGED <<setup, link, ownerVars, call, inbound, offerer, known, dead,
                   user, takes, lost, slips>>

\* Complete begins with the Release of the stub's own reference.  The mode keeps
\* a last one from being sent.
CompleteRelease ==
    LET p == inbound.p
        last == proxy[p].count = 2
    IN  /\ inbound.at = "inside"
        /\ inbound' = [inbound EXCEPT !.at = "gap", !.gone = last]
        /\ proxy' = [proxy EXCEPT ![p].count = @ - 1,
                                  ![p].channel = IF last THEN FALSE ELSE @]
        /\ known' = IF last THEN Without(p) ELSE known
        /\ UNCHANGED <<setup, link, ownerVars, call, offerer, dead, user, kept, takes, lost, slips>>

\* Mutant of Cached: the owner is not told that the object is kept.
CachedRelease(p) == IF proxy[p].mode = {"release"} /\ inbound.gone THEN "release" ELSE "none"

\* What the response of the call tells the owner to do.
Cached(p) ==
    CASE "addref" \in proxy[p].mode /\ proxy[p].count > 1 -> "addref"
      [] proxy[p].mode = {"release"} /\ inbound.gone -> "release"
      [] OTHER -> "none"

\* A cached AddRef is used up, and so is a cached Release.
Completed(mode) == IF "addref" \in mode THEN mode \ {"addref"} ELSE {}

\* ... and it ends with what is cached, in the response, and the deletion.  What
\* it finds in a proxy that has been deleted in the meantime is anything.
CompleteMode ==
    LET p == inbound.p
    IN  /\ inbound.at = "gap" /\ ~ proxy[p].lock
        /\ \E cached \in IF proxy[p].count > 0 THEN {Cached(p)} ELSE {"none", "addref", "release"} :
            inbound' = IF link = "open"
                       THEN [NoInbound EXCEPT !.at = "answer", !.cached = cached]
                       ELSE NoInbound
        /\ proxy' = [proxy EXCEPT ![p] =
                        IF inbound.gone THEN NoProxy
                        ELSE [proxy[p] EXCEPT !.mode = Completed(proxy[p].mode)]]
        /\ UNCHANGED <<setup, link, ownerVars, call, offerer, known, dead, user, kept, takes,
                       lost, slips>>

\* The owner processes the response: Administrator::AddRef and Release.
Accept ==
    /\ inbound.at = "answer" /\ offerer = "waiting"
    /\ inbound' = NoInbound /\ offerer' = "idle"
    /\ CASE inbound.cached = "addref"  -> count' = count + 1 /\ registered' = registered + 1
         [] inbound.cached = "release" -> /\ count' = Less(count, 1)
                                          /\ registered' = Less(registered, 1)
         [] OTHER                      -> UNCHANGED <<count, registered>>
    /\ UNCHANGED <<setup, link, own, held, call, proxy, known, dead, user, kept, takes,
                   lost, slips>>

\* ... which is not there any more.
Unheard ==
    /\ inbound.at = "answer" /\ offerer # "waiting"
    /\ inbound' = NoInbound
    /\ UNCHANGED <<setup, link, ownerVars, call, offerer, proxy, known, dead, user, kept,
                   takes, lost, slips>>

-----------------------------------------------------------------------------
\* The end of the channel, when a peer crashes or leaves.

Close ==
    /\ link = "open" /\ Closing
    /\ UNCHANGED <<setup, ownerVars, offerer, proxy, known, dead, user, kept, takes, lost, slips>>

\* Communicator::Closed at the server, DeleteChannel: what the peer refers to is
\* released for it, the proxies lose their channel and are to be reported.
Closed ==
    LET gone == {p \in Proxies : \E i \in DOMAIN known : known[i] = p}
        told == {p \in gone : proxy[p].channel}
    IN  /\ link = "closed"
        /\ link' = "deleted"
        /\ IF setup.server = "owner"
           THEN /\ count' = Less(count, registered) /\ registered' = 0
                /\ UNCHANGED <<proxy, known, dead>>
           ELSE /\ \A p \in gone : ~ proxy[p].lock
                /\ proxy' = [p \in Proxies |->
                               IF p \in told
                               THEN [proxy[p] EXCEPT !.count = @ + 1, !.channel = FALSE]
                               ELSE proxy[p]]
                /\ known' = << >> /\ dead' = dead \cup told
                /\ UNCHANGED <<count, registered>>
        /\ UNCHANGED <<setup, own, held, call, inbound, offerer, user, kept, takes, lost, slips>>

\* Mutant of Dangling: it is reported, and the reference of Invalidate is kept.
DanglingKept(p) ==
    /\ p \in dead
    /\ dead' = dead \ {p}
    /\ kept' = IF kept = p THEN None ELSE kept
    /\ proxy' = [proxy EXCEPT ![p].count = IF kept = p THEN @ - 1 ELSE @]
    /\ UNCHANGED <<setup, link, ownerVars, call, inbound, offerer, known, user, takes, lost, slips>>

\* The job that reports a dangling proxy: who has kept it lets it go, and then
\* the reference taken by Invalidate is released.
Dangling(p) ==
    LET left == proxy[p].count - (IF kept = p THEN 2 ELSE 1)
    IN  /\ p \in dead
        /\ dead' = dead \ {p}
        /\ kept' = IF kept = p THEN None ELSE kept
        /\ proxy' = [proxy EXCEPT ![p] = IF left = 1 THEN NoProxy ELSE [@ EXCEPT !.count = left]]
        /\ slips' = slips \cup IF left = 1 THEN Gap(p) ELSE {}
        /\ UNCHANGED <<setup, link, ownerVars, call, inbound, offerer, known, user, takes, lost>>

-----------------------------------------------------------------------------
UserNext(u) ==
    \/ Ask(u) \/ Return(u) \/ Obtain(u) \/ AskFails(u) \/ Copy(u) \/ TakeKept(u)
    \/ Drop(u) \/ SendRelease(u) \/ Released(u) \/ ReleaseFails(u) \/ TimedOut(u)
    \/ Shutdown(u) \/ Leave(u)

CallNext(c) ==
    \/ Receive(c) \/ Begin(c) \/ HandleGet(c) \/ HandleRelease(c)
    \/ Unexpected(c) \/ Mistaken(c)

InboundNext ==
    \/ Offer \/ OfferTimedOut \/ OfferShutdown \/ OfferFails
    \/ BeginOffer \/ Unmarshal \/ Keep \/ LetGo
    \/ CompleteRelease \/ CompleteMode \/ Accept \/ Unheard

Next ==
    \/ \E u \in Users : UserNext(u)
    \/ \E c \in Calls : CallNext(c)
    \/ Clear \/ OwnerDrop
    \/ InboundNext
    \/ Close \/ Closed
    \/ \E p \in Proxies : Dangling(p)

Spec == Init /\ [][Next]_vars

\* Threads and jobs that can go on do, and everybody lets go of what it refers
\* to in the end: only then are there no references left to wait for.  No time-out
\* and no end of the channel is assumed.
Fairness ==
    /\ \A u \in Users :
        /\ WF_vars(Return(u)) /\ WF_vars(Obtain(u)) /\ WF_vars(AskFails(u)) /\ WF_vars(TakeKept(u))
        /\ WF_vars(Drop(u)) /\ SF_vars(SendRelease(u)) /\ WF_vars(Released(u))
        /\ WF_vars(ReleaseFails(u)) /\ WF_vars(Shutdown(u)) /\ WF_vars(Leave(u))
    /\ \A c \in Calls :
        /\ WF_vars(Receive(c)) /\ WF_vars(Begin(c)) /\ WF_vars(HandleGet(c))
        /\ WF_vars(HandleRelease(c)) /\ WF_vars(Unexpected(c)) /\ WF_vars(Mistaken(c))
    /\ WF_vars(Clear) /\ WF_vars(OwnerDrop)
    /\ WF_vars(OfferShutdown) /\ WF_vars(OfferFails)
    /\ WF_vars(BeginOffer) /\ WF_vars(Unmarshal) /\ WF_vars(CompleteRelease)
    /\ WF_vars(CompleteMode) /\ WF_vars(Accept) /\ WF_vars(Unheard)
    /\ WF_vars(Closed) /\ \A p \in Proxies : WF_vars(Dangling(p))

FairSpec == Spec /\ Fairness

-----------------------------------------------------------------------------
\* Types of the state; the proxies in the administration are distinct.
TypeOK ==
    /\ setup \in [role : Roles, server : {"owner", "user"}]
    /\ link \in {"open", "closed", "deleted"}
    /\ count \in Nat /\ own \in BOOLEAN /\ registered \in Nat /\ held \in Nat
    /\ call \in [Calls -> [kind : {"none", "get", "release"}, by : Users \cup {"nobody"},
                           refs : Nat, stage : {"none", "sent", "queued", "handling", "answered"}]]
    /\ inbound \in [at : {"none", "sent", "begun", "inside", "gap", "answer"},
                    p : Proxies \cup {None}, gone : BOOLEAN,
                    cached : {"none", "addref", "release"}]
    /\ offerer \in {"idle", "waiting", "shutting"}
    /\ proxy \in [Proxies -> [count : Nat, mode : SUBSET {"addref", "release"}, remote : Nat,
                              channel : BOOLEAN, lock : BOOLEAN]]
    /\ known \in Seq(Proxies) /\ \A i, j \in DOMAIN known : known[i] = known[j] => i = j
    /\ dead \subseteq Proxies
    /\ user \in [Users -> [at : {"idle", "asking", "returned", "holds", "releasing", "telling",
                                 "shutting", "leaving"},
                           p : Proxies \cup {None}]]
    /\ kept \in Proxies \cup {None}
    /\ takes \in 0 .. MaxTakes /\ lost \in Nat
    /\ slips \subseteq {"gap", "unregistered", "unheard", "late"}

One(b) == IF b THEN 1 ELSE 0
Pairs(S, f) == UNION {{x} \X (1 .. f[x]) : x \in S}
Total(S, f) == Cardinality(Pairs(S, f))

\* The references of the owner that a proxy stands for, until it tells the owner;
\* those that a message brings to the user, or back; and the last steps of both.
Told(p) == \E u \in Users : user[u].at \in {"telling", "shutting"} /\ user[u].p = p
Owed(p) ==
    IF proxy[p].channel /\ ~ Told(p) THEN proxy[p].remote - One("addref" \in proxy[p].mode) ELSE 0
OnItsWay(c) ==
    IF call[c].kind = IF call[c].stage = "answered" THEN "get" ELSE "release"
    THEN call[c].refs ELSE 0
Returned == {u \in Users : user[u].at = "returned"}
ToTheOwner ==
    One(inbound.cached = "release")
      + One(inbound.at = "gap" /\ inbound.gone /\ proxy[inbound.p].mode = {"release"})

\* Nobody hit a window, and the object is not both returned and offered.
Sound == slips = {} /\ setup.role # "both"

\* Whatever calls are given up and whichever call takes their answers, the
\* object has exactly the references of its process, of the peer and of the
\* jobs; and while the channel is open every reference that is registered for
\* the peer is owed by one of its proxies or by a message, or came with an
\* answer that nobody waited for.  (RegisterUnknown, UnregisterUnknown, Release,
\* Complete, DeleteChannel; Element, which drops a late answer.)
Account ==
    Sound =>
        /\ count = One(own) + registered + held
        /\ link = "open" =>
            registered + One(inbound.cached = "addref")
              = Total(Proxies, [p \in Proxies |-> Owed(p)]) + Total(Calls, [c \in Calls |-> OnItsWay(c)])
                  + Cardinality(Returned) + ToTheOwner + lost
        /\ link = "deleted" /\ setup.server = "owner" => registered = 0

\* Nobody works on a proxy that has been deleted: not the threads that refer to
\* it, the callee that has kept it, the vector of the channel or the job that
\* reports it; nor Complete, unless the last reference went in its gap.
NoneOnDeleted ==
    /\ \A u \in Users : user[u].p # None => proxy[user[u].p].count > 0
    /\ kept # None => proxy[kept].count > 1
    /\ inbound.p # None /\ proxy[inbound.p].count = 0 => inbound.at = "gap" /\ "gap" \in slips
    /\ \A i \in DOMAIN known : proxy[known[i]].count > 0
    /\ \A p \in dead : proxy[p].count > 1

\* For an object that is returned no window is hit before the channel ends: no
\* time-out and no answer that another call took makes a RELEASE find too few
\* references registered.
ReturnedSound == setup.role = "service" /\ link = "open" => slips = {}

\* The counting promises what SharedObject says: the object lives as long as
\* anybody refers to it, in its own process or over the open channel; until a
\* window is hit.
Shared == INSTANCE SharedObject
    WITH Holders <- Users \cup {"sink"},
         alive <- count > 0,
         local <- own,
         remote <- {u \in Users : user[u].at = "holds"}
                     \cup (IF kept = None THEN {} ELSE {"sink"}),
         connected <- link = "open",
         trusted <- Sound

ImplementsSharing == Shared!Spec

\* When all have let go no proxy is left, reported as dangling or not, and the
\* object has only the references that were lost, as long as the channel is
\* open; the Communicator's end of it releases those too.
Freed ==
    <>[](/\ \A p \in Proxies : proxy[p].count = 0
         /\ Sound => /\ link = "open" => count = lost
                     /\ link # "open" /\ setup.server = "owner" => count = 0)

\* The release of the references of a proxy finds them registered: "This is an
\* external referenced interface that we handed out, so it should be registered"
\* (com/IUnknown.cpp, RELEASE).
ReleasesRegistered ==
    [][\A c \in Calls : HandleRelease(c) => registered >= call[c].refs]_vars

\* Nobody deletes the proxy that Complete works on: "Concurrent access trhough
\* this code is prevented by the CriticalSection in the Administrator"
\* (com/IUnknown.h, of what Administrator::Release calls).
CompleteAlone == inbound.p # None => proxy[inbound.p].count > 0

\* When the last proxy is gone, no message is on its way and none was lost, the
\* owner keeps no reference for the peer: "once this proxy goes out of scope, we
\* also need to release the AddRef associated with this on the other side"
\* (com/IUnknown.h, Acquire).
NothingOwed ==
    link = "open" /\ slips = {} /\ inbound = NoInbound
        /\ (\A c \in Calls : call[c] = NoCall)
        /\ (\A u \in Users : user[u] = Idle)
        /\ (\A p \in Proxies : proxy[p].count = 0)
      => registered = lost

=============================================================================
