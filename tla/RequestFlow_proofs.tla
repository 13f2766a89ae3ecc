------------------------ MODULE RequestFlow_proofs ------------------------
(***************************************************************************)
(* Machine-checked facts about RequestFlow, for any channels, plugins and  *)
(* throttles and any finite set of requests: the two throttles count what  *)
(* they let through, nobody is queued while there is a slot, and the       *)
(* requests of a channel are admitted in their order (RequestAdmission).   *)
(***************************************************************************)
EXTENDS RequestFlow, FiniteSetTheorems, SequenceTheorems, TLAPS

\* A queue holds requests of R in phase p, each of them once.
Orderly(queue, p, now, R) ==
    /\ queue \in Seq(R)
    /\ \A i \in 1..Len(queue) : now[queue[i]] = p
    /\ \A i, j \in 1..Len(queue) : queue[i] = queue[j] => i = j

To(s) == {r \in Requests : Target[r] = s}
From(c) == {r \in Requests : Source[r] = c}

\* What holds of the throttles of the services ...
ServicesInv ==
    /\ sused \in [Services -> Nat] /\ squeue \in [Services -> Seq(Requests)]
    /\ \A s \in Services : Orderly(squeue[s], "service", phase, To(s))
    /\ ServiceAccount
    /\ \A s \in Services : squeue[s] # << >> => ~HasSlot(sused[s], ServiceSlots[s])

\* ... and of the channels: the count is not brought down once it is removed.
ChannelBound == \A c \in Channels :
    /\ Cardinality(InChannel(c)) <= cused[c]
    /\ connection[c] # "removed" => cused[c] = Cardinality(InChannel(c))
    /\ ChannelSlots[c] # 0 => cused[c] <= ChannelSlots[c]

ChannelsInv ==
    /\ connection \in [Channels -> {"open", "closed", "removed"}]
    /\ cused \in [Channels -> Nat] /\ cqueue \in [Channels -> Seq(Requests)]
    /\ \A c \in Channels : Orderly(cqueue[c], "channel", phase, From(c))
    /\ ChannelBound
    /\ \A c \in Channels : cqueue[c] # << >> => ~HasSlot(cused[c], ChannelSlots[c])

IInv == phase \in [Requests -> Phase] /\ ServicesInv /\ ChannelsInv

-----------------------------------------------------------------------------
LEMMA Gain ==
    ASSUME NEW S, IsFiniteSet(S), NEW x, x \notin S
    PROVE  Cardinality(S) \in Nat /\ Cardinality(S \cup {x}) = Cardinality(S) + 1
  BY FS_AddElement, FS_CardinalityType

LEMMA Loss ==
    ASSUME NEW S, IsFiniteSet(S), NEW x \in S
    PROVE  /\ Cardinality(S) \in Nat /\ Cardinality(S) > 0
           /\ Cardinality(S \ {x}) = Cardinality(S) - 1
  <1>1. Cardinality(S \ {x}) = Cardinality(S) - 1 /\ IsFiniteSet(S \ {x})
    BY FS_RemoveElement
  <1>. QED BY <1>1, FS_CardinalityType

LEMMA Exchange ==
    ASSUME NEW S, IsFiniteSet(S), NEW x \in S, NEW y, y \notin S
    PROVE  Cardinality((S \ {x}) \cup {y}) = Cardinality(S)
  <1>1. IsFiniteSet(S \ {x}) /\ y \notin S \ {x}
    BY FS_RemoveElement
  <1>. QED BY <1>1, Gain, Loss

LEMMA Finite ==
    ASSUME NEW s, NEW c
    PROVE  IsFiniteSet(InService(s)) /\ IsFiniteSet(InChannel(c))
  <1>1. InService(s) \in SUBSET Requests /\ InChannel(c) \in SUBSET Requests
    BY DEF InService, InChannel
  <1>. QED BY <1>1, RouteAssumption, FS_Subset

\* A queue whose members keep their phase stays orderly.
LEMMA OrderlySame ==
    ASSUME NEW queue, NEW p, NEW old, NEW now, NEW R, Orderly(queue, p, old, R),
           \A x \in R : old[x] = p => now[x] = p
    PROVE  Orderly(queue, p, now, R)
  BY DEF Orderly

LEMMA OrderlyAppend ==
    ASSUME NEW queue, NEW p, NEW old, NEW now, NEW R, Orderly(queue, p, old, R),
           NEW r \in R, old[r] # p, now[r] = p,
           \A x \in R : old[x] = p => now[x] = p
    PROVE  Orderly(Append(queue, r), p, now, R)
  <1>1. /\ queue \in Seq(R) /\ Len(queue) \in Nat
        /\ Append(queue, r) \in Seq(R) /\ Len(Append(queue, r)) = Len(queue) + 1
        /\ \A i \in 1..Len(queue) : Append(queue, r)[i] = queue[i] /\ queue[i] \in R
        /\ Append(queue, r)[Len(queue) + 1] = r
    BY DEF Orderly
  <1>. QED BY <1>1 DEF Orderly

LEMMA OrderlyTail ==
    ASSUME NEW queue, NEW p, NEW old, NEW now, NEW R, Orderly(queue, p, old, R),
           queue # << >>, \A x \in R : old[x] = p /\ x # Head(queue) => now[x] = p
    PROVE  Head(queue) \in R /\ old[Head(queue)] = p /\ Orderly(Tail(queue), p, now, R)
  <1>1. /\ queue \in Seq(R) /\ Len(queue) \in Nat \ {0} /\ Head(queue) = queue[1]
        /\ Tail(queue) \in Seq(R) /\ Len(Tail(queue)) = Len(queue) - 1
        /\ \A i \in 1..(Len(queue) - 1) : Tail(queue)[i] = queue[i + 1]
        /\ \A i \in 1..Len(queue) : queue[i] \in R
    BY HeadTailProperties, EmptySeq, LenProperties DEF Orderly
  <1>2. \A i \in 1..(Len(queue) - 1) : queue[i + 1] # Head(queue)
    BY <1>1 DEF Orderly
  <1>. QED BY <1>1, <1>2 DEF Orderly

LEMMA OrderlyHead ==
    ASSUME NEW queue, NEW p, NEW now, NEW R, Orderly(queue, p, now, R), queue # << >>
    PROVE  Head(queue) \in R /\ now[Head(queue)] = p
  BY OrderlyTail DEF Orderly

LEMMA OrderlyEmpty ==
    ASSUME NEW p, NEW now, NEW R
    PROVE  Orderly(<< >>, p, now, R)
  BY DEF Orderly

-----------------------------------------------------------------------------
\* Nothing changes in the services, or in a channel, when no request gets or
\* loses a slot there.
LEMMA SameService ==
    ASSUME NEW s, \A x \in Requests :
              phase'[x] \in {"pool", "dispatch", "answered"}
                  <=> phase[x] \in {"pool", "dispatch", "answered"}
    PROVE  InService(s)' = InService(s)
  BY DEF InService

LEMMA SameChannel ==
    ASSUME NEW c, \A x \in Requests :
              phase'[x] \in HasChannelSlot <=> phase[x] \in HasChannelSlot
    PROVE  InChannel(c)' = InChannel(c)
  BY DEF InChannel

\* Push of the throttle of a service, by Received or by ChannelPop, which has
\* moved the requests on to phase now.
LEMMA PushServiceKeeps ==
    ASSUME IInv, NEW r \in Requests, NEW now \in [Requests -> Phase], PushService(r, now),
           phase[r] \in {"new", "channel"},
           \A x \in Requests \ {r} :
              now[x] = phase[x] \/ (phase[x] = "found" /\ now[x] = "held")
    PROVE  /\ phase' \in [Requests -> Phase]
           /\ phase'[r] \in {"service", "pool"}
           /\ \A x \in Requests \ {r} : phase'[x] = now[x]
           /\ ServicesInv'
  <1>. DEFINE t == Target[r]
  <1>1. t \in Services /\ r \in To(t)
    BY RouteAssumption DEF To
  <1>2. /\ sused \in [Services -> Nat] /\ squeue \in [Services -> Seq(Requests)]
        /\ phase \in [Requests -> Phase]
        /\ \A s \in Services : Orderly(squeue[s], "service", phase, To(s))
        /\ \A s \in Services : /\ sused[s] = Cardinality(InService(s))
                               /\ ServiceSlots[s] # 0 => sused[s] <= ServiceSlots[s]
        /\ \A s \in Services : squeue[s] # << >> => ~HasSlot(sused[s], ServiceSlots[s])
    BY DEF IInv, ServicesInv, ServiceAccount
  <1>3. \A s \in Services : To(s) \subseteq Requests
    BY DEF To
  <1>4. CASE HasSlot(sused[t], ServiceSlots[t])
    <2>1. /\ sused' = [sused EXCEPT ![t] = @ + 1] /\ squeue' = squeue
          /\ phase' = [now EXCEPT ![r] = "pool"]
      BY <1>4 DEF PushService
    <2>2. \A x \in Requests : phase'[x] = IF x = r THEN "pool" ELSE now[x]
      BY <2>1
    <2>3. /\ phase' \in [Requests -> Phase] /\ sused' \in [Services -> Nat]
          /\ squeue' \in [Services -> Seq(Requests)]
      <3>1. "pool" \in Phase /\ "service" \in Phase
        BY DEF Phase
      <3>2. phase' \in [Requests -> Phase]
        BY <3>1, <2>1
      <3>3. sused' \in [Services -> Nat]
        BY <2>1, <1>1, <1>2
      <3>4. squeue' \in [Services -> Seq(Requests)]
        BY <2>1, <1>1, <1>2
      <3>. QED BY <3>2, <3>3, <3>4
    <2>4. \A s \in Services : Orderly(squeue'[s], "service", phase', To(s))
      <3>. SUFFICES ASSUME NEW s \in Services
                    PROVE  Orderly(squeue'[s], "service", phase', To(s))
        OBVIOUS
      <3>1. \A x \in To(s) : phase[x] = "service" => phase'[x] = "service"
        BY <2>2, <1>3
      <3>. QED BY <3>1, <2>1, <1>2, OrderlySame
    <2>5. /\ InService(t)' = InService(t) \cup {r} /\ r \notin InService(t)
          /\ \A s \in Services \ {t} : InService(s)' = InService(s)
      BY <2>2 DEF InService
    <2>6. Cardinality(InService(t)') = Cardinality(InService(t)) + 1
      BY <2>5, Finite, Gain
    <2>7. ServiceAccount'
      <3>. SUFFICES ASSUME NEW s \in Services
                    PROVE  /\ sused'[s] = Cardinality(InService(s)')
                           /\ ServiceSlots[s] # 0 => sused'[s] <= ServiceSlots[s]
        BY DEF ServiceAccount
      <3>1. CASE s = t
        BY <3>1, <2>1, <2>6, <1>2, <1>4, SlotAssumption DEF HasSlot
      <3>2. CASE s # t
        BY <3>2, <2>1, <2>5, <1>2
      <3>. QED BY <3>1, <3>2
    <2>8. \A s \in Services : squeue'[s] # << >> => ~HasSlot(sused'[s], ServiceSlots[s])
      BY <2>1, <1>2, <1>4
    <2>. QED BY <2>2, <2>3, <2>4, <2>7, <2>8 DEF ServicesInv
  <1>5. CASE ~HasSlot(sused[t], ServiceSlots[t])
    <2>1. /\ squeue' = [squeue EXCEPT ![t] = Append(@, r)] /\ sused' = sused
          /\ phase' = [now EXCEPT ![r] = "service"]
      BY <1>5 DEF PushService
    <2>2. \A x \in Requests : phase'[x] = IF x = r THEN "service" ELSE now[x]
      BY <2>1
    <2>3. /\ phase' \in [Requests -> Phase] /\ sused' \in [Services -> Nat]
          /\ squeue' \in [Services -> Seq(Requests)]
      <3>1. "pool" \in Phase /\ "service" \in Phase
        BY DEF Phase
      <3>2. phase' \in [Requests -> Phase]
        BY <3>1, <2>1
      <3>3. sused' \in [Services -> Nat]
        BY <2>1, <1>1, <1>2
      <3>4. squeue' \in [Services -> Seq(Requests)]
        BY <2>1, <1>1, <1>2
      <3>. QED BY <3>2, <3>3, <3>4
    <2>4. \A s \in Services : Orderly(squeue'[s], "service", phase', To(s))
      <3>. SUFFICES ASSUME NEW s \in Services
                    PROVE  Orderly(squeue'[s], "service", phase', To(s))
        OBVIOUS
      <3>1. \A x \in To(s) : phase[x] = "service" => phase'[x] = "service"
        BY <2>2, <1>3
      <3>2. CASE s = t
        <4>1. Orderly(Append(squeue[t], r), "service", phase', To(t))
          BY <3>1, <3>2, <2>2, <1>1, <1>2, OrderlyAppend
        <4>. QED BY <4>1, <3>2, <2>1, <1>2
      <3>3. CASE s # t
        BY <3>1, <3>3, <2>1, <1>2, OrderlySame
      <3>. QED BY <3>2, <3>3
    <2>5. \A s \in Services : InService(s)' = InService(s)
      BY <2>2 DEF InService
    <2>6. ServiceAccount'
      BY <2>1, <2>5, <1>2 DEF ServiceAccount
    <2>7. \A s \in Services : squeue'[s] # << >> => ~HasSlot(sused'[s], ServiceSlots[s])
      BY <2>1, <1>2, <1>5
    <2>. QED BY <2>2, <2>3, <2>4, <2>6, <2>7 DEF ServicesInv
  <1>. QED BY <1>4, <1>5

-----------------------------------------------------------------------------
\* A step that moves no request into or out of the hands of the services.
LEMMA ServicesSame ==
    ASSUME IInv, UNCHANGED <<sused, squeue>>,
           \A x \in Requests :
              /\ phase'[x] \in {"pool", "dispatch", "answered"}
                    <=> phase[x] \in {"pool", "dispatch", "answered"}
              /\ phase[x] = "service" => phase'[x] = "service"
    PROVE  ServicesInv'
  <1>1. \A s \in Services : InService(s)' = InService(s)
    BY SameService
  <1>2. \A s \in Services : Orderly(squeue'[s], "service", phase', To(s))
    <2>. SUFFICES ASSUME NEW s \in Services PROVE Orderly(squeue'[s], "service", phase', To(s))
      OBVIOUS
    <2>1. \A x \in To(s) : phase[x] = "service" => phase'[x] = "service"
      BY DEF To
    <2>. QED BY <2>1, OrderlySame DEF IInv, ServicesInv
  <1>. QED BY <1>1, <1>2 DEF IInv, ServicesInv, ServiceAccount

\* The same for the channels; a channel may have been closed or removed.
LEMMA ChannelsSame ==
    ASSUME IInv, cused' = cused,
           connection' \in [Channels -> {"open", "closed", "removed"}],
           \A c \in Channels : connection[c] = "removed" => connection'[c] = "removed",
           \A c \in Channels : cqueue'[c] \in {cqueue[c], << >>},
           cqueue' \in [Channels -> Seq(Requests)],
           \A c \in Channels : \A x \in From(c) :
              cqueue'[c] # << >> /\ phase[x] = "channel" => phase'[x] = "channel",
           \A x \in Requests : phase'[x] \in HasChannelSlot <=> phase[x] \in HasChannelSlot
    PROVE  ChannelsInv'
  <1>1. \A c \in Channels : InChannel(c)' = InChannel(c)
    BY SameChannel
  <1>2. \A c \in Channels : Orderly(cqueue'[c], "channel", phase', From(c))
    <2>. SUFFICES ASSUME NEW c \in Channels PROVE Orderly(cqueue'[c], "channel", phase', From(c))
      OBVIOUS
    <2>1. CASE cqueue'[c] = << >>
      BY <2>1, OrderlyEmpty
    <2>2. CASE cqueue'[c] # << >>
      BY ZenonT(30), <2>2, OrderlySame DEF IInv, ChannelsInv
    <2>. QED BY <2>1, <2>2
  <1>. QED BY <1>1, <1>2 DEF IInv, ChannelsInv, ChannelBound

\* The phases a step gives are phases.
LEMMA PhaseType ==
    /\ {"new", "channel", "service", "pool", "done", "dropped"} \subseteq Phase
    /\ {"dispatch", "answered", "popped", "found", "held"} \subseteq Phase
  BY DEF Phase, Running

-----------------------------------------------------------------------------
LEMMA InitInv == Init => IInv
  <1>. SUFFICES ASSUME Init PROVE IInv
    OBVIOUS
  <1>1. phase \in [Requests -> Phase] /\ \A r \in Requests : phase[r] = "new"
    BY PhaseType DEF Init
  <1>2. \A s : InService(s) = {}
    BY <1>1 DEF InService
  <1>3. \A c : InChannel(c) = {}
    BY <1>1 DEF InChannel, HasChannelSlot
  <1>4. Cardinality({}) = 0
    BY FS_EmptySet
  <1>5. /\ \A s \in Services : sused[s] = 0 /\ squeue[s] = << >>
        /\ \A c \in Channels : cused[c] = 0 /\ cqueue[c] = << >>
    BY DEF Init
  <1>6. ServicesInv
    <2>1. sused \in [Services -> Nat] /\ squeue \in [Services -> Seq(Requests)]
      BY DEF Init
    <2>2. \A s \in Services : Orderly(squeue[s], "service", phase, To(s))
      BY <1>5, OrderlyEmpty
    <2>3. ServiceAccount
      BY <1>2, <1>4, <1>5, SlotAssumption DEF ServiceAccount
    <2>. QED BY <2>1, <2>2, <2>3, <1>5 DEF ServicesInv
  <1>7. ChannelsInv
    <2>1. /\ connection \in [Channels -> {"open", "closed", "removed"}]
          /\ cused \in [Channels -> Nat] /\ cqueue \in [Channels -> Seq(Requests)]
      BY DEF Init
    <2>2. \A c \in Channels : Orderly(cqueue[c], "channel", phase, From(c))
      BY <1>5, OrderlyEmpty
    <2>3. ChannelBound
      <3>. SUFFICES ASSUME NEW c \in Channels
                    PROVE  /\ Cardinality(InChannel(c)) <= cused[c]
                           /\ cused[c] = Cardinality(InChannel(c))
                           /\ ChannelSlots[c] # 0 => cused[c] <= ChannelSlots[c]
        BY DEF ChannelBound
      <3>1. Cardinality(InChannel(c)) = 0 /\ cused[c] = 0 /\ ChannelSlots[c] \in Nat
        BY <1>3, <1>4, <1>5, SlotAssumption
      <3>. QED BY <3>1
    <2>. QED BY <2>1, <2>2, <2>3, <1>5 DEF ChannelsInv
  <1>. QED BY <1>1, <1>6, <1>7 DEF IInv

\* A request that is received gets a slot of its channel, or is queued there.
LEMMA ReceivedKeeps ==
    ASSUME IInv, NEW r \in Requests, Received(r)
    PROVE  IInv'
  <1>. DEFINE c == Source[r]
  <1>1. /\ c \in Channels /\ r \in From(c) /\ phase[r] = "new"
        /\ connection' = connection /\ connection[c] = "open"
    BY RouteAssumption DEF From, Received
  <1>2. /\ connection \in [Channels -> {"open", "closed", "removed"}]
        /\ cused \in [Channels -> Nat] /\ cqueue \in [Channels -> Seq(Requests)]
        /\ phase \in [Requests -> Phase]
        /\ \A d \in Channels : Orderly(cqueue[d], "channel", phase, From(d))
        /\ \A d \in Channels : /\ Cardinality(InChannel(d)) <= cused[d]
                               /\ connection[d] # "removed" => cused[d] = Cardinality(InChannel(d))
                               /\ ChannelSlots[d] # 0 => cused[d] <= ChannelSlots[d]
        /\ \A d \in Channels : cqueue[d] # << >> => ~HasSlot(cused[d], ChannelSlots[d])
    BY DEF IInv, ChannelsInv, ChannelBound
  <1>3. CASE HasSlot(cused[c], ChannelSlots[c])
    <2>1. /\ cused' = [cused EXCEPT ![c] = @ + 1] /\ cqueue' = cqueue
          /\ PushService(r, phase)
      BY <1>3 DEF Received
    <2>2. /\ phase' \in [Requests -> Phase] /\ ServicesInv'
          /\ phase'[r] \in {"service", "pool"}
          /\ \A x \in Requests \ {r} : phase'[x] = phase[x]
      BY <2>1, <1>1, <1>2, PushServiceKeeps
    <2>3. /\ InChannel(c)' = InChannel(c) \cup {r} /\ r \notin InChannel(c)
          /\ \A d \in Channels \ {c} : InChannel(d)' = InChannel(d)
      BY <2>2, <1>1 DEF InChannel, HasChannelSlot
    <2>4. Cardinality(InChannel(c)') = Cardinality(InChannel(c)) + 1
      BY <2>3, Finite, Gain
    <2>5. ChannelBound'
      <3>. SUFFICES ASSUME NEW d \in Channels
                    PROVE  /\ Cardinality(InChannel(d)') <= cused'[d]
                           /\ connection'[d] # "removed" => cused'[d] = Cardinality(InChannel(d)')
                           /\ ChannelSlots[d] # 0 => cused'[d] <= ChannelSlots[d]
        BY DEF ChannelBound
      <3>1. CASE d = c
        <4>1. /\ cused[c] \in Nat /\ ChannelSlots[c] \in Nat
              /\ cused'[c] = cused[c] + 1 /\ cused[c] = Cardinality(InChannel(c))
          BY <2>1, <1>1, <1>2, SlotAssumption
        <4>2. ChannelSlots[c] # 0 => cused[c] < ChannelSlots[c]
          BY <1>3 DEF HasSlot
        <4>. QED BY <3>1, <4>1, <4>2, <2>4
      <3>2. CASE d # c
        BY <3>2, <2>1, <2>3, <1>1, <1>2
      <3>. QED BY <3>1, <3>2
    <2>6. \A d \in Channels : Orderly(cqueue'[d], "channel", phase', From(d))
      <3>. SUFFICES ASSUME NEW d \in Channels PROVE Orderly(cqueue'[d], "channel", phase', From(d))
        OBVIOUS
      <3>1. \A x \in From(d) : phase[x] = "channel" => phase'[x] = "channel"
        BY <2>2, <1>1 DEF From
      <3>. QED BY <3>1, <2>1, <1>2, OrderlySame
    <2>7. cused' \in [Channels -> Nat]
      BY <2>1, <1>1, <1>2
    <2>8. \A d \in Channels : cqueue'[d] # << >> => ~HasSlot(cused'[d], ChannelSlots[d])
      BY <2>1, <1>2, <1>3
    <2>. QED BY <2>1, <2>2, <2>5, <2>6, <2>7, <2>8, <1>1, <1>2 DEF IInv, ChannelsInv
  <1>4. CASE ~HasSlot(cused[c], ChannelSlots[c])
    <2>1. /\ cqueue' = [cqueue EXCEPT ![c] = Append(@, r)]
          /\ phase' = [phase EXCEPT ![r] = "channel"]
          /\ UNCHANGED <<cused, sused, squeue>>
      BY <1>4 DEF Received
    <2>2. \A x \in Requests : phase'[x] = IF x = r THEN "channel" ELSE phase[x]
      BY <2>1, <1>2
    <2>3. phase' \in [Requests -> Phase]
      BY <2>1, <1>2, PhaseType
    <2>4. ServicesInv'
      BY <2>1, <2>2, <1>1, ServicesSame
    <2>5. \A d \in Channels : InChannel(d)' = InChannel(d)
      BY <2>2, <1>1 DEF InChannel, HasChannelSlot
    <2>6. \A d \in Channels : Orderly(cqueue'[d], "channel", phase', From(d))
      <3>. SUFFICES ASSUME NEW d \in Channels PROVE Orderly(cqueue'[d], "channel", phase', From(d))
        OBVIOUS
      <3>1. \A x \in From(d) : phase[x] = "channel" => phase'[x] = "channel"
        BY <2>2, <1>1 DEF From
      <3>2. CASE d = c
        <4>1. Orderly(Append(cqueue[c], r), "channel", phase', From(c))
          BY <3>1, <3>2, <2>2, <1>1, <1>2, OrderlyAppend
        <4>. QED BY <4>1, <3>2, <2>1, <1>1, <1>2
      <3>3. CASE d # c
        BY <3>1, <3>3, <2>1, <1>2, OrderlySame
      <3>. QED BY <3>2, <3>3
    <2>7. cqueue' \in [Channels -> Seq(Requests)]
      BY <2>1, <1>1, <1>2
    <2>8. ChannelBound'
      BY <2>1, <2>5, <1>1, <1>2 DEF ChannelBound
    <2>9. \A d \in Channels : cqueue'[d] # << >> => ~HasSlot(cused'[d], ChannelSlots[d])
      BY <2>1, <1>2, <1>4
    <2>. QED BY <2>1, <2>3, <2>4, <2>6, <2>7, <2>8, <2>9, <1>1, <1>2 DEF IInv, ChannelsInv
  <1>. QED BY <1>3, <1>4

\* The steps of a minion that touch no throttle.
LEMMA MinionKeeps ==
    ASSUME IInv, NEW r \in Requests, Dispatch(r) \/ Answer(r)
    PROVE  IInv'
  <1>1. /\ UNCHANGED <<connection, cused, cqueue, sused, squeue>>
        /\ phase \in [Requests -> Phase]
    BY DEF Dispatch, Answer, IInv
  <1>2. /\ phase' \in [Requests -> Phase]
        /\ phase[r] \in {"pool", "dispatch"} /\ phase'[r] \in {"dispatch", "answered"}
        /\ \A x \in Requests \ {r} : phase'[x] = phase[x]
    BY <1>1, PhaseType DEF Dispatch, Answer
  <1>3. ServicesInv'
    BY <1>1, <1>2, ServicesSame
  <1>4. ChannelsInv'
    <2>1. /\ connection' \in [Channels -> {"open", "closed", "removed"}]
          /\ cqueue' \in [Channels -> Seq(Requests)]
      BY <1>1 DEF IInv, ChannelsInv
    <2>2. \A c \in Channels : \A x \in From(c) :
             phase[x] = "channel" => phase'[x] = "channel"
      BY <1>2 DEF From
    <2>3. \A x \in Requests : phase'[x] \in HasChannelSlot <=> phase[x] \in HasChannelSlot
      BY <1>2 DEF HasChannelSlot
    <2>. QED BY <1>1, <2>1, <2>2, <2>3, ChannelsSame
  <1>. QED BY <1>2, <1>3, <1>4 DEF IInv

\* The slot of a service is handed on to the first of its queue, or given back.
LEMMA ServicePopKeeps ==
    ASSUME IInv, NEW r \in Requests, ServicePop(r)
    PROVE  IInv'
  <1>. DEFINE t == Target[r]
  <1>1. /\ t \in Services /\ r \in InService(t) /\ phase[r] = "answered"
        /\ UNCHANGED <<connection, cused, cqueue>>
    BY RouteAssumption DEF ServicePop, InService
  <1>2. /\ sused \in [Services -> Nat] /\ squeue \in [Services -> Seq(Requests)]
        /\ phase \in [Requests -> Phase]
        /\ \A s \in Services : Orderly(squeue[s], "service", phase, To(s))
        /\ \A s \in Services : /\ sused[s] = Cardinality(InService(s))
                               /\ ServiceSlots[s] # 0 => sused[s] <= ServiceSlots[s]
        /\ \A s \in Services : squeue[s] # << >> => ~HasSlot(sused[s], ServiceSlots[s])
    BY DEF IInv, ServicesInv, ServiceAccount
  <1>3. /\ connection' \in [Channels -> {"open", "closed", "removed"}]
        /\ cqueue' \in [Channels -> Seq(Requests)]
    BY <1>1 DEF IInv, ChannelsInv
  <1>4. CASE squeue[t] # << >>
    <2>. DEFINE h == Head(squeue[t])
    <2>1. /\ phase' = [phase EXCEPT ![r] = "popped", ![h] = "pool"]
          /\ squeue' = [squeue EXCEPT ![t] = Tail(@)] /\ sused' = sused
      BY <1>4 DEF ServicePop
    <2>2. h \in To(t) /\ phase[h] = "service"
      BY <1>1, <1>2, <1>4, OrderlyHead
    <2>3. h \in Requests /\ h # r /\ Target[h] = t
      BY <2>2, <1>1 DEF To
    <2>4. \A x \in Requests : phase'[x] = IF x = h THEN "pool"
                                          ELSE IF x = r THEN "popped" ELSE phase[x]
      BY <2>1, <2>3, <1>2
    <2>5. phase' \in [Requests -> Phase]
      BY <2>1, <1>2, PhaseType
    <2>6. squeue' \in [Services -> Seq(Requests)]
      <3>1. Tail(squeue[t]) \in Seq(Requests)
        BY <1>1, <1>2, <1>4, HeadTailProperties, EmptySeq
      <3>. QED BY <3>1, <2>1, <1>2
    <2>7. \A s \in Services : Orderly(squeue'[s], "service", phase', To(s))
      <3>. SUFFICES ASSUME NEW s \in Services PROVE Orderly(squeue'[s], "service", phase', To(s))
        OBVIOUS
      <3>1. \A x \in To(s) : phase[x] = "service" /\ x # h => phase'[x] = "service"
        BY <2>4, <1>1 DEF To
      <3>2. CASE s = t
        <4>1. Orderly(Tail(squeue[t]), "service", phase', To(t))
          BY <3>1, <3>2, <1>1, <1>2, <1>4, OrderlyTail
        <4>. QED BY <4>1, <3>2, <2>1, <1>1, <1>2
      <3>3. CASE s # t
        <4>1. \A x \in To(s) : phase[x] = "service" => phase'[x] = "service"
          BY <3>1, <3>3, <2>3 DEF To
        <4>. QED BY <4>1, <3>3, <2>1, <1>2, OrderlySame
      <3>. QED BY <3>2, <3>3
    <2>8. /\ InService(t)' = (InService(t) \ {r}) \cup {h} /\ h \notin InService(t)
          /\ \A s \in Services \ {t} : InService(s)' = InService(s)
      BY <2>2, <2>3, <2>4, <1>1 DEF InService
    <2>9. Cardinality(InService(t)') = Cardinality(InService(t))
      BY <2>8, <1>1, Finite, Exchange
    <2>10. ServiceAccount'
      BY <2>1, <2>8, <2>9, <1>2 DEF ServiceAccount
    <2>11. \A s \in Services : squeue'[s] # << >> => ~HasSlot(sused'[s], ServiceSlots[s])
      BY <2>1, <1>1, <1>2, <1>4
    <2>12. ServicesInv'
      BY <2>1, <2>6, <2>7, <2>10, <2>11, <1>2 DEF ServicesInv
    <2>13. ChannelsInv'
      <3>1. \A c \in Channels : \A x \in From(c) :
               phase[x] = "channel" => phase'[x] = "channel"
        BY <2>2, <2>4, <1>1 DEF From
      <3>2. \A x \in Requests : phase'[x] \in HasChannelSlot <=> phase[x] \in HasChannelSlot
        BY <2>2, <2>4, <1>1 DEF HasChannelSlot
      <3>. QED BY <3>1, <3>2, <1>1, <1>3, ChannelsSame
    <2>. QED BY <2>5, <2>12, <2>13 DEF IInv
  <1>5. CASE squeue[t] = << >>
    <2>1. /\ phase' = [phase EXCEPT ![r] = "popped"]
          /\ sused' = [sused EXCEPT ![t] = @ - 1] /\ squeue' = squeue
      BY <1>5 DEF ServicePop
    <2>2. /\ phase' \in [Requests -> Phase]
          /\ \A x \in Requests : phase'[x] = IF x = r THEN "popped" ELSE phase[x]
      BY <2>1, <1>2, PhaseType
    <2>3. /\ InService(t)' = InService(t) \ {r}
          /\ \A s \in Services \ {t} : InService(s)' = InService(s)
      BY <2>2, <1>1 DEF InService
    <2>4. /\ Cardinality(InService(t)') = sused[t] - 1 /\ sused[t] > 0
      <3>1. sused[t] = Cardinality(InService(t)) /\ IsFiniteSet(InService(t))
        BY <1>1, <1>2, Finite
      <3>. QED BY <3>1, <2>3, <1>1, Loss
    <2>5. sused' \in [Services -> Nat]
      <3>1. sused[t] \in Nat /\ sused[t] - 1 \in Nat
        BY <2>4, <1>1, <1>2
      <3>. QED BY <3>1, <2>1, <1>2
    <2>6. ServiceAccount'
      <3>. SUFFICES ASSUME NEW s \in Services
                    PROVE  /\ sused'[s] = Cardinality(InService(s)')
                           /\ ServiceSlots[s] # 0 => sused'[s] <= ServiceSlots[s]
        BY DEF ServiceAccount
      <3>1. CASE s = t
        <4>1. sused[t] \in Nat /\ ServiceSlots[t] \in Nat /\ sused'[t] = sused[t] - 1
          BY <2>1, <1>1, <1>2, SlotAssumption
        <4>. QED BY <4>1, <3>1, <2>4, <1>2
      <3>2. CASE s # t
        BY <3>2, <2>1, <2>3, <1>2
      <3>. QED BY <3>1, <3>2
    <2>7. \A s \in Services : Orderly(squeue'[s], "service", phase', To(s))
      <3>. SUFFICES ASSUME NEW s \in Services PROVE Orderly(squeue'[s], "service", phase', To(s))
        OBVIOUS
      <3>1. \A x \in To(s) : phase[x] = "service" => phase'[x] = "service"
        BY <2>2, <1>1 DEF To
      <3>. QED BY <3>1, <2>1, <1>2, OrderlySame
    <2>8. \A s \in Services : squeue'[s] # << >> => ~HasSlot(sused'[s], ServiceSlots[s])
      BY <2>1, <1>2, <1>5
    <2>9. ServicesInv'
      BY <2>1, <2>5, <2>6, <2>7, <2>8, <1>2 DEF ServicesInv
    <2>10. ChannelsInv'
      <3>1. \A c \in Channels : \A x \in From(c) :
               phase[x] = "channel" => phase'[x] = "channel"
        BY <2>2, <1>1 DEF From
      <3>2. \A x \in Requests : phase'[x] \in HasChannelSlot <=> phase[x] \in HasChannelSlot
        BY <2>2, <1>1 DEF HasChannelSlot
      <3>. QED BY <3>1, <3>2, <1>1, <1>3, ChannelsSame
    <2>. QED BY <2>2, <2>9, <2>10 DEF IInv
  <1>. QED BY <1>4, <1>5

\* The channel is found, or it is gone: then its count is not brought down.
LEMMA FindChannelKeeps ==
    ASSUME IInv, NEW r \in Requests, FindChannel(r)
    PROVE  IInv'
  <1>. DEFINE c == Source[r]
  <1>1. /\ c \in Channels /\ phase[r] = "popped" /\ phase \in [Requests -> Phase]
        /\ UNCHANGED <<connection, cused, cqueue, sused, squeue>>
    BY RouteAssumption DEF FindChannel, IInv
  <1>2. /\ \/ connection[c] = "removed" /\ phase'[r] = "done"
           \/ connection[c] # "removed" /\ phase'[r] = "found"
        /\ phase' \in [Requests -> Phase]
        /\ \A x \in Requests \ {r} : phase'[x] = phase[x]
    <2>1. {"done", "found"} \subseteq Phase
      BY PhaseType
    <2>2. CASE connection[c] = "removed"
      BY <2>1, <2>2, <1>1 DEF FindChannel
    <2>3. CASE connection[c] # "removed"
      BY <2>1, <2>3, <1>1 DEF FindChannel
    <2>. QED BY <2>2, <2>3
  <1>3. ServicesInv'
    BY <1>1, <1>2, ServicesSame
  <1>4. /\ connection \in [Channels -> {"open", "closed", "removed"}]
        /\ cused \in [Channels -> Nat] /\ cqueue \in [Channels -> Seq(Requests)]
        /\ \A d \in Channels : Orderly(cqueue[d], "channel", phase, From(d))
        /\ \A d \in Channels : /\ Cardinality(InChannel(d)) <= cused[d]
                               /\ connection[d] # "removed" => cused[d] = Cardinality(InChannel(d))
                               /\ ChannelSlots[d] # 0 => cused[d] <= ChannelSlots[d]
        /\ \A d \in Channels : cqueue[d] # << >> => ~HasSlot(cused[d], ChannelSlots[d])
    BY DEF IInv, ChannelsInv, ChannelBound
  <1>5. \A d \in Channels : \A x \in From(d) : phase[x] = "channel" => phase'[x] = "channel"
    BY <1>1, <1>2 DEF From
  <1>6. CASE connection[c] # "removed"
    <2>1. \A x \in Requests : phase'[x] \in HasChannelSlot <=> phase[x] \in HasChannelSlot
      BY <1>1, <1>2, <1>6 DEF HasChannelSlot
    <2>. QED BY <2>1, <1>1, <1>2, <1>3, <1>4, <1>5, ChannelsSame DEF IInv
  <1>7. CASE connection[c] = "removed"
    <2>1. /\ r \in InChannel(c) /\ InChannel(c)' = InChannel(c) \ {r}
          /\ \A d \in Channels \ {c} : InChannel(d)' = InChannel(d)
      BY <1>1, <1>2, <1>7 DEF InChannel, HasChannelSlot
    <2>2. Cardinality(InChannel(c)') <= cused[c]
      <3>1. /\ Cardinality(InChannel(c)) \in Nat
            /\ Cardinality(InChannel(c)') = Cardinality(InChannel(c)) - 1
        BY <2>1, Finite, Loss
      <3>. QED BY <3>1, <1>1, <1>4
    <2>3. ChannelBound'
      <3>. SUFFICES ASSUME NEW d \in Channels
                    PROVE  /\ Cardinality(InChannel(d)') <= cused'[d]
                           /\ connection'[d] # "removed" => cused'[d] = Cardinality(InChannel(d)')
                           /\ ChannelSlots[d] # 0 => cused'[d] <= ChannelSlots[d]
        BY DEF ChannelBound
      <3>1. CASE d = c
        BY <3>1, <2>2, <1>1, <1>4, <1>7
      <3>2. CASE d # c
        BY <3>2, <2>1, <1>1, <1>4
      <3>. QED BY <3>1, <3>2
    <2>4. \A d \in Channels : Orderly(cqueue'[d], "channel", phase', From(d))
      BY <1>1, <1>4, <1>5, OrderlySame
    <2>. QED BY <2>3, <2>4, <1>1, <1>2, <1>3, <1>4 DEF IInv, ChannelsInv
  <1>. QED BY <1>6, <1>7

\* The slot of a channel is handed on to the first of its queue, which the
\* throttle of its service forwards or queues, or it is given back.
LEMMA ChannelPopKeeps ==
    ASSUME IInv, NEW r \in Requests, ChannelPop(r)
    PROVE  IInv'
  <1>. DEFINE c == Source[r]
              held == [phase EXCEPT ![r] = "held"]
  <1>1. /\ c \in Channels /\ r \in InChannel(c) /\ phase[r] = "found"
        /\ connection' = connection
    BY RouteAssumption DEF ChannelPop, InChannel, HasChannelSlot
  <1>2. /\ connection \in [Channels -> {"open", "closed", "removed"}]
        /\ cused \in [Channels -> Nat] /\ cqueue \in [Channels -> Seq(Requests)]
        /\ phase \in [Requests -> Phase]
        /\ \A d \in Channels : Orderly(cqueue[d], "channel", phase, From(d))
        /\ \A d \in Channels : /\ Cardinality(InChannel(d)) <= cused[d]
                               /\ connection[d] # "removed" => cused[d] = Cardinality(InChannel(d))
                               /\ ChannelSlots[d] # 0 => cused[d] <= ChannelSlots[d]
        /\ \A d \in Channels : cqueue[d] # << >> => ~HasSlot(cused[d], ChannelSlots[d])
    BY DEF IInv, ChannelsInv, ChannelBound
  <1>3. /\ held \in [Requests -> Phase] /\ held[r] = "held"
        /\ \A x \in Requests \ {r} : held[x] = phase[x]
    BY <1>2, PhaseType
  <1>4. CASE cqueue[c] # << >>
    <2>. DEFINE h == Head(cqueue[c])
    <2>1. /\ PushService(h, held)
          /\ cqueue' = [cqueue EXCEPT ![c] = Tail(@)] /\ cused' = cused
      BY <1>4 DEF ChannelPop
    <2>2. h \in From(c) /\ phase[h] = "channel"
      BY <1>1, <1>2, <1>4, OrderlyHead
    <2>3. h \in Requests /\ h # r /\ Source[h] = c
      BY <2>2, <1>1 DEF From
    <2>4. /\ phase' \in [Requests -> Phase] /\ ServicesInv'
          /\ phase'[h] \in {"service", "pool"}
          /\ \A x \in Requests \ {h} : phase'[x] = held[x]
      <3>1. \A x \in Requests \ {h} :
               held[x] = phase[x] \/ (phase[x] = "found" /\ held[x] = "held")
        BY <1>1, <1>3
      <3>. QED BY <3>1, <2>1, <2>2, <2>3, <1>3, PushServiceKeeps
    <2>5. phase'[r] = "held" /\ \A x \in Requests \ {r, h} : phase'[x] = phase[x]
      BY <2>3, <2>4, <1>3
    <2>6. cqueue' \in [Channels -> Seq(Requests)]
      <3>1. Tail(cqueue[c]) \in Seq(Requests)
        BY <1>1, <1>2, <1>4, HeadTailProperties, EmptySeq
      <3>. QED BY <3>1, <2>1, <1>2
    <2>7. \A d \in Channels : Orderly(cqueue'[d], "channel", phase', From(d))
      <3>. SUFFICES ASSUME NEW d \in Channels PROVE Orderly(cqueue'[d], "channel", phase', From(d))
        OBVIOUS
      <3>1. \A x \in From(d) : phase[x] = "channel" /\ x # h => phase'[x] = "channel"
        BY <2>5, <1>1 DEF From
      <3>2. CASE d = c
        <4>1. Orderly(cqueue[c], "channel", phase, From(c))
          BY <1>1, <1>2
        <4>2. \A x \in From(c) : phase[x] = "channel" /\ x # Head(cqueue[c])
                 => phase'[x] = "channel"
          BY <3>1, <3>2
        <4>3. Orderly(Tail(cqueue[c]), "channel", phase', From(c))
          BY <4>1, <4>2, <1>4, OrderlyTail
        <4>. QED BY <4>3, <3>2, <2>1, <1>1, <1>2
      <3>3. CASE d # c
        <4>1. \A x \in From(d) : phase[x] = "channel" => phase'[x] = "channel"
          BY <3>1, <3>3, <2>3 DEF From
        <4>. QED BY <4>1, <3>3, <2>1, <1>2, OrderlySame
      <3>. QED BY <3>2, <3>3
    <2>8. /\ InChannel(c)' = (InChannel(c) \ {r}) \cup {h} /\ h \notin InChannel(c)
          /\ \A d \in Channels \ {c} : InChannel(d)' = InChannel(d)
      BY <2>2, <2>3, <2>4, <2>5, <1>1 DEF InChannel, HasChannelSlot
    <2>9. Cardinality(InChannel(c)') = Cardinality(InChannel(c))
      BY <2>8, <1>1, Finite, Exchange
    <2>10. ChannelBound'
      BY <2>1, <2>8, <2>9, <1>1, <1>2 DEF ChannelBound
    <2>11. \A d \in Channels : cqueue'[d] # << >> => ~HasSlot(cused'[d], ChannelSlots[d])
      BY <2>1, <1>1, <1>2, <1>4
    <2>. QED BY <2>1, <2>4, <2>6, <2>7, <2>10, <2>11, <1>1, <1>2 DEF IInv, ChannelsInv
  <1>5. CASE cqueue[c] = << >>
    <2>1. /\ phase' = held /\ cused' = [cused EXCEPT ![c] = @ - 1]
          /\ UNCHANGED <<cqueue, sused, squeue>>
      BY <1>5 DEF ChannelPop
    <2>2. ServicesInv'
      BY <2>1, <1>1, <1>3, ServicesSame
    <2>3. /\ InChannel(c)' = InChannel(c) \ {r}
          /\ \A d \in Channels \ {c} : InChannel(d)' = InChannel(d)
      BY <2>1, <1>1, <1>3 DEF InChannel, HasChannelSlot
    <2>4. /\ Cardinality(InChannel(c)') = Cardinality(InChannel(c)) - 1
          /\ Cardinality(InChannel(c)) \in Nat /\ Cardinality(InChannel(c)) > 0
      BY <2>3, <1>1, Finite, Loss
    <2>5. cused' \in [Channels -> Nat] /\ cused'[c] = cused[c] - 1 /\ cused[c] \in Nat
      <3>1. cused[c] \in Nat /\ cused[c] - 1 \in Nat
        BY <2>4, <1>1, <1>2
      <3>. QED BY <3>1, <2>1, <1>1, <1>2
    <2>6. ChannelBound'
      <3>. SUFFICES ASSUME NEW d \in Channels
                    PROVE  /\ Cardinality(InChannel(d)') <= cused'[d]
                           /\ connection'[d] # "removed" => cused'[d] = Cardinality(InChannel(d)')
                           /\ ChannelSlots[d] # 0 => cused'[d] <= ChannelSlots[d]
        BY DEF ChannelBound
      <3>1. CASE d = c
        <4>1. ChannelSlots[c] \in Nat
          BY <1>1, SlotAssumption
        <4>. QED BY <4>1, <3>1, <2>4, <2>5, <1>1, <1>2
      <3>2. CASE d # c
        BY <3>2, <2>1, <2>3, <1>1, <1>2
      <3>. QED BY <3>1, <3>2
    <2>7. \A d \in Channels : Orderly(cqueue'[d], "channel", phase', From(d))
      <3>1. \A d \in Channels : \A x \in From(d) :
               phase[x] = "channel" => phase'[x] = "channel"
        BY <2>1, <1>1, <1>3 DEF From
      <3>. QED BY <3>1, <2>1, <1>2, OrderlySame
    <2>8. \A d \in Channels : cqueue'[d] # << >> => ~HasSlot(cused'[d], ChannelSlots[d])
      BY <2>1, <1>2, <1>5
    <2>. QED BY <2>1, <2>2, <2>5, <2>6, <2>7, <2>8, <1>1, <1>2, <1>3 DEF IInv, ChannelsInv
  <1>. QED BY <1>4, <1>5

-----------------------------------------------------------------------------
\* The end of a channel: what it still has queued is dropped, all at once.
LEMMA DestroyedKeeps ==
    ASSUME IInv, NEW c \in Channels, NEW now \in [Requests -> Phase],
           \A x \in Requests : now[x] = phase[x] \/ (phase[x] = "held" /\ now[x] = "done"),
           phase' = Destroyed(c, now), cqueue' = [cqueue EXCEPT ![c] = << >>],
           UNCHANGED <<cused, sused, squeue>>,
           connection' \in [Channels -> {"open", "closed", "removed"}],
           \A d \in Channels : connection[d] = "removed" => connection'[d] = "removed"
    PROVE  IInv'
  <1>1. \A x \in Requests :
           phase'[x] = IF Source[x] = c /\ phase[x] = "channel" THEN "dropped" ELSE now[x]
    BY DEF Destroyed, Queued
  <1>2. phase' \in [Requests -> Phase]
    <2>1. \A x \in Requests : phase'[x] \in Phase
      BY <1>1, PhaseType
    <2>. QED BY <2>1 DEF Destroyed
  <1>3. ServicesInv'
    BY <1>1, ServicesSame
  <1>4. cqueue \in [Channels -> Seq(Requests)]
    BY DEF IInv, ChannelsInv
  <1>5. /\ cqueue' \in [Channels -> Seq(Requests)]
        /\ \A d \in Channels : cqueue'[d] = IF d = c THEN << >> ELSE cqueue[d]
    BY <1>4, EmptySeq
  <1>6. \A d \in Channels : \A x \in From(d) :
           cqueue'[d] # << >> /\ phase[x] = "channel" => phase'[x] = "channel"
    BY <1>1, <1>5 DEF From
  <1>7. \A x \in Requests : phase'[x] \in HasChannelSlot <=> phase[x] \in HasChannelSlot
    BY <1>1 DEF HasChannelSlot
  <1>8. ChannelsInv'
    BY <1>5, <1>6, <1>7, ChannelsSame
  <1>. QED BY <1>2, <1>3, <1>8 DEF IInv

\* A step that ends the hold of a job on its channel, and destroys nothing.
LEMMA NothingQueuedChanges ==
    ASSUME IInv, phase' \in [Requests -> Phase],
           \A x \in Requests : phase'[x] = phase[x] \/ (phase[x] = "held" /\ phase'[x] = "done"),
           UNCHANGED <<cused, cqueue, sused, squeue>>,
           connection' \in [Channels -> {"open", "closed", "removed"}],
           \A d \in Channels : connection[d] = "removed" => connection'[d] = "removed"
    PROVE  IInv'
  <1>1. ServicesInv'
    BY ServicesSame
  <1>2. cqueue' \in [Channels -> Seq(Requests)]
    BY DEF IInv, ChannelsInv
  <1>3. \A d \in Channels : \A x \in From(d) : phase[x] = "channel" => phase'[x] = "channel"
    BY DEF From
  <1>4. \A x \in Requests : phase'[x] \in HasChannelSlot <=> phase[x] \in HasChannelSlot
    BY DEF HasChannelSlot
  <1>5. ChannelsInv'
    BY <1>2, <1>3, <1>4, ChannelsSame
  <1>. QED BY <1>1, <1>5 DEF IInv

LEMMA ReleaseChannelKeeps ==
    ASSUME IInv, NEW r \in Requests, ReleaseChannel(r)
    PROVE  IInv'
  <1>. DEFINE c == Source[r]
              now == [phase EXCEPT ![r] = "done"]
  <1>1. /\ c \in Channels /\ phase[r] = "held" /\ phase \in [Requests -> Phase]
        /\ connection \in [Channels -> {"open", "closed", "removed"}]
        /\ UNCHANGED <<connection, cused, sused, squeue>>
    BY RouteAssumption DEF ReleaseChannel, IInv, ChannelsInv
  <1>2. /\ now \in [Requests -> Phase]
        /\ \A x \in Requests : now[x] = phase[x] \/ (phase[x] = "held" /\ now[x] = "done")
    BY <1>1, PhaseType
  <1>3. \/ phase' = Destroyed(c, now) /\ cqueue' = [cqueue EXCEPT ![c] = << >>]
        \/ phase' = now /\ cqueue' = cqueue
    BY DEF ReleaseChannel
  <1>4. CASE phase' = Destroyed(c, now) /\ cqueue' = [cqueue EXCEPT ![c] = << >>]
    BY <1>1, <1>2, <1>4, DestroyedKeeps
  <1>5. CASE phase' = now /\ cqueue' = cqueue
    BY <1>1, <1>2, <1>5, NothingQueuedChanges
  <1>. QED BY <1>3, <1>4, <1>5

LEMMA CloseKeeps ==
    ASSUME IInv, NEW c \in Channels, Close(c)
    PROVE  IInv'
  <1>1. /\ phase \in [Requests -> Phase]
        /\ connection \in [Channels -> {"open", "closed", "removed"}]
        /\ UNCHANGED <<phase, cused, cqueue, sused, squeue>>
    BY DEF Close, IInv, ChannelsInv
  <1>2. /\ connection' \in [Channels -> {"open", "closed", "removed"}]
        /\ \A d \in Channels : connection[d] = "removed" => connection'[d] = "removed"
    BY <1>1 DEF Close
  <1>. QED BY <1>1, <1>2, NothingQueuedChanges

LEMMA CleanupKeeps ==
    ASSUME IInv, NEW c \in Channels, Cleanup(c)
    PROVE  IInv'
  <1>1. /\ phase \in [Requests -> Phase]
        /\ connection \in [Channels -> {"open", "closed", "removed"}]
        /\ UNCHANGED <<cused, sused, squeue>>
    BY DEF Cleanup, IInv, ChannelsInv
  <1>2. /\ connection' \in [Channels -> {"open", "closed", "removed"}]
        /\ \A d \in Channels : connection[d] = "removed" => connection'[d] = "removed"
    BY <1>1 DEF Cleanup
  <1>3. \/ phase' = Destroyed(c, phase) /\ cqueue' = [cqueue EXCEPT ![c] = << >>]
        \/ UNCHANGED <<phase, cqueue>>
    BY DEF Cleanup
  <1>4. CASE phase' = Destroyed(c, phase) /\ cqueue' = [cqueue EXCEPT ![c] = << >>]
    BY <1>1, <1>2, <1>4, DestroyedKeeps
  <1>5. CASE UNCHANGED <<phase, cqueue>>
    BY <1>1, <1>2, <1>5, NothingQueuedChanges
  <1>. QED BY <1>3, <1>4, <1>5

-----------------------------------------------------------------------------
LEMMA Step == IInv /\ [Next]_vars => IInv'
  <1>. SUFFICES ASSUME IInv, [Next]_vars PROVE IInv'
    OBVIOUS
  <1>1. ASSUME NEW r \in Requests, Received(r) \/ Dispatch(r) \/ Proceed(r)
        PROVE  IInv'
    BY <1>1, ReceivedKeeps, MinionKeeps, ServicePopKeeps, FindChannelKeeps,
       ChannelPopKeeps, ReleaseChannelKeeps DEF Proceed
  <1>2. ASSUME NEW c \in Channels, Close(c) \/ Cleanup(c)
        PROVE  IInv'
    BY <1>2, CloseKeeps, CleanupKeeps
  <1>3. CASE UNCHANGED vars
    BY ZenonT(30), <1>3 DEF vars, IInv, ServicesInv, ChannelsInv, ChannelBound, ServiceAccount,
                InService, InChannel
  <1>. QED BY <1>1, <1>2, <1>3 DEF Next

LEMMA Inductive == Spec => []IInv
  BY InitInv, Step, PTL DEF Spec

\* The type of the state of the throttles, and of the jobs, of any number of
\* channels and plugins (PluginServer.h, ThrottleQueueType).
THEOREM TypeCorrect == Spec => []TypeOK
  <1>1. IInv => TypeOK
    BY DEF IInv, ServicesInv, ChannelsInv, TypeOK
  <1>. QED BY <1>1, Inductive, PTL

\* The _used of the throttle of a service is the number of its requests that are
\* in the hands of the pool, and never above its limit, whatever Push and Pop of
\* two throttles do in between and whichever channels end meanwhile; the same of
\* the throttle of a channel, as long as it is in the ChannelMap.
THEOREM SlotAccountHolds == Spec => []SlotAccount
  <1>1. IInv => SlotAccount
    BY DEF IInv, ServicesInv, ChannelsInv, ChannelBound, ChannelAccount, SlotAccount
  <1>. QED BY <1>1, Inductive, PTL

\* Push forwards before it queues, and Pop hands on before it gives back: nobody
\* waits in a throttle that has a slot, where nobody would wake it.
THEOREM NoIdleSlotHolds == Spec => []NoIdleSlot
  <1>1. IInv => NoIdleSlot
    BY DEF IInv, ServicesInv, ChannelsInv, NoIdleSlot
  <1>. QED BY <1>1, Inductive, PTL

-----------------------------------------------------------------------------
(* The lines of RequestAdmission: who stands in a queue, and before whom.   *)

Member(queue, r) == \E i \in 1..Len(queue) : queue[i] = r

LEMMA EmptyLine == \A q, r : ~Member(<< >>, r) /\ ~Earlier(<< >>, q, r)
  BY DEF Member, Earlier

LEMMA OrderlyMember ==
    ASSUME NEW queue, NEW p, NEW now, NEW R, Orderly(queue, p, now, R), NEW r, Member(queue, r)
    PROVE  r \in R /\ now[r] = p
  BY DEF Orderly, Member

LEMMA EarlierMember ==
    ASSUME NEW queue, NEW q, NEW r, Earlier(queue, q, r)
    PROVE  Member(queue, q) /\ Member(queue, r)
  BY DEF Earlier, Member

\* Who is appended stands behind everybody.
LEMMA AppendLine ==
    ASSUME NEW R, NEW queue \in Seq(R), NEW x \in R
    PROVE  /\ \A r : Member(Append(queue, x), r) <=> Member(queue, r) \/ r = x
           /\ \A q, r : Earlier(Append(queue, x), q, r)
                           <=> Earlier(queue, q, r) \/ (r = x /\ Member(queue, q))
  <1>. DEFINE n == Len(queue)
              longer == Append(queue, x)
  <1>1. /\ n \in Nat /\ Len(longer) = n + 1 /\ longer[n + 1] = x
        /\ \A i \in 1..n : longer[i] = queue[i]
    OBVIOUS
  <1>. HIDE DEF longer, n
  <1>2. \A i \in 1..(n + 1) : i \in 1..n \/ i = n + 1
    BY <1>1
  <1>3. \A i \in 1..n : i \in 1..(n + 1) /\ i < n + 1
    BY <1>1
  <1>4. n + 1 \in 1..(n + 1)
    BY <1>1
  <1>5. ASSUME NEW r PROVE Member(longer, r) <=> Member(queue, r) \/ r = x
    BY <1>1, <1>2, <1>3, <1>4 DEF Member, n
  <1>6. ASSUME NEW q, NEW r
        PROVE  Earlier(longer, q, r) <=> Earlier(queue, q, r) \/ (r = x /\ Member(queue, q))
    <2>1. ASSUME Earlier(longer, q, r)
          PROVE  Earlier(queue, q, r) \/ (r = x /\ Member(queue, q))
      <3>1. PICK i, j \in 1..(n + 1) : i < j /\ longer[i] = q /\ longer[j] = r
        BY <1>1, <2>1 DEF Earlier
      <3>2. i \in 1..n
        BY <1>1, <3>1
      <3>3. CASE j \in 1..n
        BY <1>1, <3>1, <3>2, <3>3 DEF Earlier, n
      <3>4. CASE j = n + 1
        BY <1>1, <3>1, <3>2, <3>4 DEF Member, n
      <3>. QED BY <1>2, <3>3, <3>4
    <2>2. ASSUME Earlier(queue, q, r) PROVE Earlier(longer, q, r)
      <3>1. PICK i, j \in 1..n : i < j /\ queue[i] = q /\ queue[j] = r
        BY <2>2 DEF Earlier, n
      <3>. QED BY <1>1, <1>3, <3>1 DEF Earlier
    <2>3. ASSUME r = x, Member(queue, q) PROVE Earlier(longer, q, r)
      <3>1. PICK i \in 1..n : queue[i] = q
        BY <2>3 DEF Member, n
      <3>. QED BY <1>1, <1>3, <1>4, <2>3, <3>1 DEF Earlier
    <2>. QED BY <2>1, <2>2, <2>3
  <1>. QED BY <1>5, <1>6 DEF longer

\* The first of a queue stands in front of all others; when it goes, nothing
\* changes for them.
LEMMA TailLine ==
    ASSUME NEW queue, NEW p, NEW now, NEW R, Orderly(queue, p, now, R), queue # << >>
    PROVE  LET h == Head(queue)
           IN  /\ Member(queue, h)
               /\ \A q : ~Earlier(queue, q, h)
               /\ \A r : Member(queue, r) /\ r # h => Earlier(queue, h, r)
               /\ \A r : Member(Tail(queue), r) <=> Member(queue, r) /\ r # h
               /\ \A q, r : Earlier(Tail(queue), q, r) <=> Earlier(queue, q, r) /\ q # h
  <1>. DEFINE n == Len(queue)
              rest == Tail(queue)
              h == Head(queue)
  <1>1. /\ queue \in Seq(R) /\ n \in Nat \ {0} /\ h = queue[1]
        /\ Len(rest) = n - 1
        /\ \A i \in 1..(n - 1) : rest[i] = queue[i + 1]
        /\ \A i, j \in 1..n : queue[i] = queue[j] => i = j
    BY HeadTailProperties, EmptySeq, LenProperties DEF Orderly
  <1>. HIDE DEF rest, n, h
  <1>2. \A i \in 1..(n - 1) : i + 1 \in 1..n /\ i + 1 # 1
    BY <1>1
  <1>3. \A i \in 1..n : i = 1 \/ (i - 1 \in 1..(n - 1) /\ (i - 1) + 1 = i)
    BY <1>1
  <1>4. 1 \in 1..n /\ \A i \in 1..n : queue[i] = h => i = 1
    BY <1>1
  <1>5. Member(queue, h)
    BY <1>1, <1>4 DEF Member, n
  <1>6. ASSUME NEW q, Earlier(queue, q, h) PROVE FALSE
    <2>1. PICK i, j \in 1..n : i < j /\ queue[i] = q /\ queue[j] = h
      BY <1>6 DEF Earlier, n
    <2>. QED BY <1>1, <1>4, <2>1
  <1>7. ASSUME NEW r, Member(queue, r), r # h PROVE Earlier(queue, h, r)
    <2>1. PICK j \in 1..n : queue[j] = r
      BY <1>7 DEF Member, n
    <2>2. 1 < j
      BY <1>1, <1>7, <2>1
    <2>. QED BY <1>1, <1>4, <2>1, <2>2 DEF Earlier, n
  <1>8. ASSUME NEW r PROVE Member(rest, r) <=> Member(queue, r) /\ r # h
    <2>1. ASSUME Member(rest, r) PROVE Member(queue, r) /\ r # h
      <3>1. PICK i \in 1..(n - 1) : rest[i] = r
        BY <1>1, <2>1 DEF Member
      <3>. QED BY <1>1, <1>2, <1>4, <3>1 DEF Member, n
    <2>2. ASSUME Member(queue, r), r # h PROVE Member(rest, r)
      <3>1. PICK i \in 1..n : queue[i] = r
        BY <2>2 DEF Member, n
      <3>2. i - 1 \in 1..(n - 1) /\ (i - 1) + 1 = i
        BY <1>1, <1>3, <2>2, <3>1
      <3>3. rest[i - 1] = r
        BY <1>1, <3>1, <3>2
      <3>. QED BY <1>1, <3>2, <3>3 DEF Member
    <2>. QED BY <2>1, <2>2
  <1>9. ASSUME NEW q, NEW r
        PROVE  Earlier(rest, q, r) <=> Earlier(queue, q, r) /\ q # h
    <2>1. ASSUME Earlier(rest, q, r) PROVE Earlier(queue, q, r) /\ q # h
      <3>1. PICK i, j \in 1..(n - 1) : i < j /\ rest[i] = q /\ rest[j] = r
        BY <1>1, <2>1 DEF Earlier
      <3>2. /\ i + 1 \in 1..n /\ j + 1 \in 1..n /\ i + 1 < j + 1 /\ i + 1 # 1
            /\ queue[i + 1] = q /\ queue[j + 1] = r
        BY <1>1, <1>2, <3>1
      <3>. QED BY <1>4, <3>2 DEF Earlier, n
    <2>2. ASSUME Earlier(queue, q, r), q # h PROVE Earlier(rest, q, r)
      <3>1. PICK i, j \in 1..n : i < j /\ queue[i] = q /\ queue[j] = r
        BY <2>2 DEF Earlier, n
      <3>2. /\ i - 1 \in 1..(n - 1) /\ j - 1 \in 1..(n - 1) /\ i - 1 < j - 1
            /\ (i - 1) + 1 = i /\ (j - 1) + 1 = j
        BY <1>1, <2>2, <3>1
      <3>3. rest[i - 1] = q /\ rest[j - 1] = r
        BY <1>1, <3>1, <3>2
      <3>. QED BY <1>1, <3>2, <3>3 DEF Earlier
    <2>. QED BY <2>1, <2>2
  <1>. QED BY <1>5, <1>6, <1>7, <1>8, <1>9 DEF rest, h

-----------------------------------------------------------------------------
\* Nobody gets lost: who waits stands in the queue that its phase names.
LinesInv ==
    /\ \A r \in Requests : phase[r] = "service" => Member(squeue[Target[r]], r)
    /\ \A r \in Requests : phase[r] = "channel" => Member(cqueue[Source[r]], r)

\* Who stands in a queue is there with that phase, and the other way round.
LEMMA Standing ==
    ASSUME IInv, LinesInv
    PROVE  /\ \A s \in Services : \A r : Member(squeue[s], r)
                 <=> r \in Requests /\ Target[r] = s /\ phase[r] = "service"
           /\ \A c \in Channels : \A r : Member(cqueue[c], r)
                 <=> r \in Requests /\ Source[r] = c /\ phase[r] = "channel"
  <1>1. ASSUME NEW s \in Services, NEW r, Member(squeue[s], r)
        PROVE  r \in Requests /\ Target[r] = s /\ phase[r] = "service"
    <2>1. Orderly(squeue[s], "service", phase, To(s))
      BY DEF IInv, ServicesInv
    <2>2. r \in To(s) /\ phase[r] = "service"
      BY <1>1, <2>1, OrderlyMember
    <2>. QED BY <2>2 DEF To
  <1>2. ASSUME NEW c \in Channels, NEW r, Member(cqueue[c], r)
        PROVE  r \in Requests /\ Source[r] = c /\ phase[r] = "channel"
    <2>1. Orderly(cqueue[c], "channel", phase, From(c))
      BY DEF IInv, ChannelsInv
    <2>2. r \in From(c) /\ phase[r] = "channel"
      BY <1>2, <2>1, OrderlyMember
    <2>. QED BY <2>2 DEF From
  <1>. QED BY <1>1, <1>2 DEF LinesInv

\* A set of pairs is what is in it.
LEMMA SamePairs ==
    ASSUME NEW A, NEW X, X \subseteq A \X A, NEW Y, Y \subseteq A \X A,
           \A q, r \in A : <<q, r>> \in X <=> <<q, r>> \in Y
    PROVE  X = Y
  OBVIOUS

LEMMA BeforeIs ==
    /\ Before \subseteq Requests \X Requests
    /\ \A q, r \in Requests :
          <<q, r>> \in Before <=> q \in Waiting /\ r \in Waiting /\ Ahead(q, r)
  BY DEF Before, Waiting

LEMMA BeforeNext ==
    /\ Before' \subseteq Requests \X Requests
    /\ \A q, r \in Requests :
          <<q, r>> \in Before' <=> q \in Waiting' /\ r \in Waiting' /\ Ahead(q, r)'
  BY DEF Before, Waiting

\* Nobody joins or leaves a line.
LEMMA QuietLines ==
    ASSUME LinesInv, UNCHANGED <<squeue, cqueue>>,
           \A x \in Requests :
              phase[x] \in {"channel", "service"} \/ phase'[x] \in {"channel", "service"}
                 => phase'[x] = phase[x]
    PROVE  LinesInv' /\ Waiting' = Waiting /\ Before' = Before
  <1>1. LinesInv' /\ Waiting' = Waiting
    BY DEF LinesInv, Waiting
  <1>2. ASSUME NEW q \in Waiting, NEW r \in Waiting PROVE Ahead(q, r)' <=> Ahead(q, r)
    <2>1. phase'[q] = phase[q] /\ phase'[r] = phase[r]
      BY DEF Waiting
    <2>. QED BY <2>1 DEF Ahead
  <1>3. \A q, r \in Requests : <<q, r>> \in Before' <=> <<q, r>> \in Before
    BY <1>1, <1>2, BeforeIs, BeforeNext
  <1>. QED BY <1>1, <1>3, BeforeIs, BeforeNext, SamePairs

\* Those that are admitted are among those that have a slot.
LEMMA AdmittedSlots ==
    ASSUME IInv, NEW s \in Services, NEW c \in Channels
    PROVE  /\ {q \in Admitted : Target[q] = s} \subseteq InService(s)
           /\ {q \in Admitted : Source[q] = c} \subseteq InChannel(c)
           /\ IsFiniteSet(InService(s)) /\ IsFiniteSet(InChannel(c))
           /\ Cardinality(InService(s)) = sused[s] /\ sused[s] \in Nat
           /\ Cardinality(InChannel(c)) <= cused[c] /\ cused[c] \in Nat
           /\ ServiceSlots[s] \in Nat /\ ChannelSlots[c] \in Nat
           /\ ServiceSlots[s] # 0 => sused[s] <= ServiceSlots[s]
           /\ ChannelSlots[c] # 0 => cused[c] <= ChannelSlots[c]
  BY Finite, SlotAssumption
  DEF IInv, ServicesInv, ChannelsInv, ServiceAccount, ChannelBound, Admitted, InService, InChannel,
      HasChannelSlot

\* There is room where the one that has a slot goes, or where a slot is free.
LEMMA Fewer ==
    ASSUME NEW S, IsFiniteSet(S), NEW T, T \subseteq S, NEW n \in Nat,
           Cardinality(S) < n \/ (Cardinality(S) <= n /\ \E x \in S : x \notin T)
    PROVE  Cardinality(T) < n
  <1>1. IsFiniteSet(T) /\ Cardinality(T) \in Nat /\ Cardinality(S) \in Nat
        /\ Cardinality(T) <= Cardinality(S)
    BY FS_Subset, FS_CardinalityType
  <1>2. ASSUME NEW x \in S, x \notin T, Cardinality(S) <= n PROVE Cardinality(T) < n
    <2>1. IsFiniteSet(S \ {x}) /\ Cardinality(S \ {x}) = Cardinality(S) - 1
      BY Loss, FS_RemoveElement
    <2>2. T \subseteq S \ {x}
      BY <1>2
    <2>3. Cardinality(T) <= Cardinality(S \ {x})
      BY <2>1, <2>2, FS_Subset
    <2>. QED BY <1>1, <1>2, <2>1, <2>3
  <1>. QED BY <1>1, <1>2

LEMMA RoomFor ==
    ASSUME IInv, NEW r \in Requests,
           \/ HasSlot(sused[Target[r]], ServiceSlots[Target[r]])
           \/ \E x \in InService(Target[r]) : x \notin Admitted,
           \/ HasSlot(cused[Source[r]], ChannelSlots[Source[r]])
           \/ \E x \in InChannel(Source[r]) : x \notin Admitted
    PROVE  Admission!Room(r)
  <1>. DEFINE s == Target[r]
              c == Source[r]
              ofPlugin == {q \in Admitted : Target[q] = s}
              ofChannel == {q \in Admitted : Source[q] = c}
  <1>1. s \in Services /\ c \in Channels
    BY RouteAssumption
  <1>2. /\ ofPlugin \subseteq InService(s) /\ ofChannel \subseteq InChannel(c)
        /\ IsFiniteSet(InService(s)) /\ IsFiniteSet(InChannel(c))
        /\ Cardinality(InService(s)) = sused[s] /\ sused[s] \in Nat
        /\ Cardinality(InChannel(c)) <= cused[c] /\ cused[c] \in Nat
        /\ ServiceSlots[s] \in Nat /\ ChannelSlots[c] \in Nat
        /\ ServiceSlots[s] # 0 => sused[s] <= ServiceSlots[s]
        /\ ChannelSlots[c] # 0 => cused[c] <= ChannelSlots[c]
    BY <1>1, AdmittedSlots
  <1>3. Cardinality(InService(s)) \in Nat /\ Cardinality(InChannel(c)) \in Nat
    BY <1>2, FS_CardinalityType
  <1>4. ServiceSlots[s] # 0 => Cardinality(ofPlugin) < ServiceSlots[s]
    <2>1. CASE HasSlot(sused[s], ServiceSlots[s])
      BY <1>2, <1>3, <2>1, Fewer DEF HasSlot
    <2>2. CASE \E x \in InService(s) : x \notin Admitted
      <3>1. \E x \in InService(s) : x \notin ofPlugin
        BY <2>2
      <3>. QED BY <1>2, <1>3, <3>1, Fewer
    <2>. QED BY <2>1, <2>2
  <1>5. ChannelSlots[c] # 0 => Cardinality(ofChannel) < ChannelSlots[c]
    <2>1. CASE HasSlot(cused[c], ChannelSlots[c])
      <3>1. ChannelSlots[c] # 0 => Cardinality(InChannel(c)) < ChannelSlots[c]
        BY <1>2, <1>3, <2>1 DEF HasSlot
      <3>. QED BY <1>2, <3>1, Fewer
    <2>2. CASE \E x \in InChannel(c) : x \notin Admitted
      <3>1. \E x \in InChannel(c) : x \notin ofChannel
        BY <2>2
      <3>2. ChannelSlots[c] # 0 => Cardinality(InChannel(c)) <= ChannelSlots[c]
        BY <1>2, <1>3
      <3>. QED BY <1>2, <3>1, <3>2, Fewer
    <2>. QED BY <2>1, <2>2
  <1>6. /\ Admission!Cardinality(ofPlugin) = Cardinality(ofPlugin)
        /\ Admission!Cardinality(ofChannel) = Cardinality(ofChannel)
    <2>. HIDE DEF ofPlugin, ofChannel
    <2>. QED BY Zenon DEF Admission!Cardinality, Cardinality
  <1>. QED BY <1>4, <1>5, <1>6 DEF Admission!Room

-----------------------------------------------------------------------------
(* Each step is one of RequestAdmission, or changes nothing there.          *)

LEMMA QuietStep ==
    ASSUME LinesInv, UNCHANGED <<squeue, cqueue>>,
           \A x \in Requests :
              phase[x] \in {"channel", "service"} \/ phase'[x] \in {"channel", "service"}
                 => phase'[x] = phase[x],
           \A x \in Requests :
              /\ phase'[x] \in {"pool", "dispatch"} <=> phase[x] \in {"pool", "dispatch"}
              /\ phase'[x] = "new" <=> phase[x] = "new"
    PROVE  LinesInv' /\ UNCHANGED Admission!vars
  <1>1. LinesInv' /\ Waiting' = Waiting /\ Before' = Before
    BY QuietLines
  <1>2. Admitted' = Admitted /\ Arrived' = Arrived
    BY DEF Admitted, Arrived
  <1>. QED BY <1>1, <1>2 DEF Admission!vars

\* A request joins its line at the end.
LEMMA Joins ==
    ASSUME NEW r \in Requests, phase[r] = "new", phase'[r] \in {"channel", "service"},
           \A x \in Requests \ {r} : phase'[x] = phase[x],
           \A q, x \in Waiting : Ahead(q, x)' <=> Ahead(q, x),
           \A q \in Waiting : Ahead(q, r)' <=> q \in Admission!Line(r),
           \A x \in Waiting \cup {r} : ~Ahead(r, x)'
    PROVE  Admission!Arrive(r)
  <1>1. /\ r \notin Waiting /\ Waiting' = Waiting \cup {r} /\ Waiting \subseteq Requests
        /\ r \notin Arrived /\ Arrived' = Arrived \cup {r} /\ Admitted' = Admitted
    BY DEF Waiting, Arrived, Admitted
  <1>2. Admission!Line(r) \subseteq Waiting
    BY DEF Admission!Line
  <1>3. ASSUME NEW q \in Requests, NEW x \in Requests
        PROVE  <<q, x>> \in Before' <=> <<q, x>> \in Before \cup (Admission!Line(r) \X {r})
    <2>1. <<q, x>> \in Before' <=> q \in Waiting' /\ x \in Waiting' /\ Ahead(q, x)'
      BY BeforeNext
    <2>2. <<q, x>> \in Before <=> q \in Waiting /\ x \in Waiting /\ Ahead(q, x)
      BY BeforeIs
    <2>3. CASE q = r
      BY <1>1, <1>2, <2>1, <2>2, <2>3
    <2>4. CASE q # r /\ x = r
      BY <1>1, <1>2, <2>1, <2>2, <2>4
    <2>5. CASE q # r /\ x # r
      BY <1>1, <1>2, <2>1, <2>2, <2>5
    <2>. QED BY <2>3, <2>4, <2>5
  <1>4. Before' = Before \cup (Admission!Line(r) \X {r})
    <2>1. Before \cup (Admission!Line(r) \X {r}) \subseteq Requests \X Requests
      BY <1>1, <1>2, BeforeIs
    <2>. QED BY <1>3, <2>1, BeforeNext, SamePairs
  <1>. QED BY <1>1, <1>4 DEF Admission!Arrive

\* Requests leave their lines, and the others stay as they stand.
LEMMA Leaves ==
    ASSUME NEW gone \in SUBSET Waiting,
           \A x \in gone : phase'[x] \notin {"channel", "service"},
           \A x \in Requests \ gone :
              phase[x] \in {"channel", "service"} \/ phase'[x] \in {"channel", "service"}
                 => phase'[x] = phase[x],
           \A q, x \in Waiting \ gone : Ahead(q, x)' <=> Ahead(q, x)
    PROVE  Admission!Leave(gone)
  <1>1. Waiting' = Waiting \ gone /\ Waiting \subseteq Requests
    BY DEF Waiting
  <1>2. ASSUME NEW q \in Requests, NEW x \in Requests
        PROVE  <<q, x>> \in Before' <=> <<q, x>> \in Before \cap (Waiting' \X Waiting')
    <2>1. <<q, x>> \in Before' <=> q \in Waiting' /\ x \in Waiting' /\ Ahead(q, x)'
      BY BeforeNext
    <2>2. <<q, x>> \in Before <=> q \in Waiting /\ x \in Waiting /\ Ahead(q, x)
      BY BeforeIs
    <2>. QED BY <1>1, <2>1, <2>2
  <1>3. Before' = Before \cap (Waiting' \X Waiting')
    <2>1. Before \cap (Waiting' \X Waiting') \subseteq Requests \X Requests
      BY BeforeIs
    <2>. QED BY <1>2, <2>1, BeforeNext, SamePairs
  <1>. QED BY <1>1, <1>3 DEF Admission!Leave

\* The first of its line is admitted.
LEMMA FrontAdmits ==
    ASSUME NEW h \in Waiting, Admission!Room(h), phase'[h] = "pool",
           \A q \in Waiting : ~Ahead(q, h),
           \A x \in Requests \ {h} :
              /\ phase[x] \in {"channel", "service"} \/ phase'[x] \in {"channel", "service"}
                    => phase'[x] = phase[x]
              /\ phase'[x] \in {"pool", "dispatch"} <=> phase[x] \in {"pool", "dispatch"}
              /\ phase'[x] = "new" <=> phase[x] = "new",
           \A q, x \in Waiting \ {h} : Ahead(q, x)' <=> Ahead(q, x)
    PROVE  Admission!Admit(h)
  <1>1. Admission!Leave({h})
    BY Leaves
  <1>2. h \in Requests /\ phase[h] \in {"channel", "service"}
    BY DEF Waiting
  <1>3. Admitted' = Admitted \cup {h} /\ Arrived' = Arrived
    BY <1>2 DEF Admitted, Arrived
  <1>4. \A q \in Waiting : <<q, h>> \notin Before
    BY <1>2, BeforeIs DEF Waiting
  <1>. QED BY <1>1, <1>3, <1>4 DEF Admission!Admit

\* Received: at once, or at the end of the queue of the plugin or of the channel.
LEMMA ReceivedArrives ==
    ASSUME IInv, LinesInv, NEW r \in Requests, Received(r)
    PROVE  LinesInv' /\ Admission!Arrive(r)
  <1>. DEFINE c == Source[r]
              t == Target[r]
  <1>1. /\ c \in Channels /\ t \in Services /\ phase[r] = "new"
        /\ phase \in [Requests -> Phase]
        /\ squeue \in [Services -> Seq(Requests)] /\ cqueue \in [Channels -> Seq(Requests)]
    BY RouteAssumption DEF Received, IInv, ServicesInv, ChannelsInv
  <1>2. /\ \A s \in Services : \A x : Member(squeue[s], x)
              <=> x \in Requests /\ Target[x] = s /\ phase[x] = "service"
        /\ \A d \in Channels : \A x : Member(cqueue[d], x)
              <=> x \in Requests /\ Source[x] = d /\ phase[x] = "channel"
    BY Standing
  <1>3. \A x \in Requests : Source[x] \in Channels /\ Target[x] \in Services
    BY RouteAssumption
  <1>4. HasSlot(cused[c], ChannelSlots[c]) => cqueue[c] = << >>
    BY <1>1 DEF IInv, ChannelsInv
  <1>5. \A x \in Requests : x \in Waiting <=> phase[x] = "channel" \/ phase[x] = "service"
    BY DEF Waiting
  <1>6. \A q : q \in Admission!Line(r) <=> q \in Waiting /\ Source[q] = c /\ Target[q] = t
    BY DEF Admission!Line
  <1>7. CASE HasSlot(cused[c], ChannelSlots[c]) /\ HasSlot(sused[t], ServiceSlots[t])
    <2>1. /\ phase' = [phase EXCEPT ![r] = "pool"] /\ UNCHANGED <<squeue, cqueue>>
      BY <1>7 DEF Received, PushService
    <2>2. phase'[r] = "pool" /\ \A x \in Requests \ {r} : phase'[x] = phase[x]
      BY <1>1, <2>1
    <2>3. LinesInv' /\ Waiting' = Waiting /\ Before' = Before
      BY <1>1, <2>1, <2>2, QuietLines
    <2>4. squeue[t] = << >> /\ cqueue[c] = << >>
      BY <1>1, <1>7 DEF IInv, ServicesInv, ChannelsInv
    <2>5. Admission!Line(r) = {}
      <3>1. ASSUME NEW q \in Admission!Line(r) PROVE FALSE
        <4>1. q \in Requests /\ Source[q] = c /\ Target[q] = t
              /\ phase[q] \in {"channel", "service"}
          BY <1>6, <3>1 DEF Waiting
        <4>2. Member(squeue[t], q) \/ Member(cqueue[c], q)
          BY <1>1, <1>2, <4>1
        <4>. QED BY <2>4, <4>2, EmptyLine
      <3>. QED BY <3>1
    <2>6. Admission!Room(r)
      BY <1>7, RoomFor
    <2>7. /\ Admitted' = Admitted \cup {r}
          /\ r \notin Arrived /\ Arrived' = Arrived \cup {r}
      BY <1>1, <2>2 DEF Admitted, Arrived
    <2>. QED BY <2>3, <2>5, <2>6, <2>7 DEF Admission!Arrive
  <1>8. CASE HasSlot(cused[c], ChannelSlots[c]) /\ ~HasSlot(sused[t], ServiceSlots[t])
    <2>1. /\ phase' = [phase EXCEPT ![r] = "service"] /\ cqueue' = cqueue
          /\ squeue' = [squeue EXCEPT ![t] = Append(@, r)]
      BY <1>8 DEF Received, PushService
    <2>2. phase'[r] = "service" /\ \A x \in Requests \ {r} : phase'[x] = phase[x]
      BY <1>1, <2>1
    <2>3. /\ \A x : Member(squeue'[t], x) <=> Member(squeue[t], x) \/ x = r
          /\ \A q, x : Earlier(squeue'[t], q, x)
                          <=> Earlier(squeue[t], q, x) \/ (x = r /\ Member(squeue[t], q))
          /\ \A s \in Services \ {t} : squeue'[s] = squeue[s]
      <3>1. squeue[t] \in Seq(Requests) /\ squeue'[t] = Append(squeue[t], r)
        BY <1>1, <2>1
      <3>. QED BY <1>1, <2>1, <3>1, AppendLine
    <2>4. cqueue[c] = << >>
      BY <1>4, <1>8
    <2>5. LinesInv'
      BY <1>3, <2>1, <2>2, <2>3 DEF LinesInv
    <2>6. ASSUME NEW q \in Waiting, NEW x \in Waiting PROVE Ahead(q, x)' <=> Ahead(q, x)
      <3>1. /\ q \in Requests /\ x \in Requests /\ q # r /\ x # r
            /\ phase'[q] = phase[q] /\ phase'[x] = phase[x]
        BY <1>1, <2>2 DEF Waiting
      <3>2. Earlier(squeue'[Target[x]], q, x) <=> Earlier(squeue[Target[x]], q, x)
        BY <1>3, <2>3, <3>1
      <3>. QED BY <2>1, <3>1, <3>2 DEF Ahead
    <2>7. \A q : ~Earlier(squeue[t], q, r) /\ ~Earlier(squeue[t], r, q) /\ ~Earlier(cqueue[c], q, r)
              /\ ~Earlier(cqueue[c], r, q) /\ ~Member(cqueue[c], q)
      <3>1. \A q : ~Earlier(cqueue[c], q, r) /\ ~Earlier(cqueue[c], r, q) /\ ~Member(cqueue[c], q)
        BY <2>4, EmptyLine
      <3>2. \A q : ~Earlier(squeue[t], q, r) /\ ~Earlier(squeue[t], r, q)
        BY <1>1, <1>2, EarlierMember
      <3>. QED BY <3>1, <3>2
    <2>8. ASSUME NEW q \in Waiting PROVE Ahead(q, r)' <=> q \in Admission!Line(r)
      <3>1. q \in Requests /\ q # r /\ phase[q] \in {"channel", "service"}
        BY <1>1 DEF Waiting
      <3>2. Source[q] = c => phase[q] = "service"
        BY <1>1, <1>2, <2>7, <3>1
      <3>3. Ahead(q, r)' <=> Source[q] = c /\ Target[q] = t /\ Member(squeue[t], q)
        BY <2>1, <2>2, <2>3, <2>7 DEF Ahead
      <3>. QED BY <1>1, <1>2, <1>6, <3>1, <3>2, <3>3
    <2>9. ASSUME NEW x \in Waiting \cup {r}, Ahead(r, x)' PROVE FALSE
      <3>1. /\ x \in Requests /\ Source[x] = c /\ Target[x] = t /\ ~Earlier(cqueue[c], r, x)
            /\ phase'[x] = "channel" => x # r /\ phase[x] = "channel"
        BY <2>2, <2>7, <2>9 DEF Ahead, Waiting
      <3>2. phase'[x] # "channel"
        BY <1>1, <1>2, <2>7, <3>1
      <3>3. Earlier(squeue'[t], r, x)
        BY <2>1, <2>9, <3>1, <3>2 DEF Ahead
      <3>4. ~Member(squeue[t], r)
        BY <1>1, <1>2
      <3>. QED BY <2>3, <2>7, <3>3, <3>4
    <2>. QED BY <1>1, <2>2, <2>5, <2>6, <2>8, <2>9, Joins
  <1>9. CASE ~HasSlot(cused[c], ChannelSlots[c])
    <2>1. /\ phase' = [phase EXCEPT ![r] = "channel"] /\ squeue' = squeue
          /\ cqueue' = [cqueue EXCEPT ![c] = Append(@, r)]
      BY <1>9 DEF Received
    <2>2. phase'[r] = "channel" /\ \A x \in Requests \ {r} : phase'[x] = phase[x]
      BY <1>1, <2>1
    <2>3. /\ \A x : Member(cqueue'[c], x) <=> Member(cqueue[c], x) \/ x = r
          /\ \A q, x : Earlier(cqueue'[c], q, x)
                          <=> Earlier(cqueue[c], q, x) \/ (x = r /\ Member(cqueue[c], q))
          /\ \A d \in Channels \ {c} : cqueue'[d] = cqueue[d]
      <3>1. cqueue[c] \in Seq(Requests) /\ cqueue'[c] = Append(cqueue[c], r)
        BY <1>1, <2>1
      <3>. QED BY <1>1, <2>1, <3>1, AppendLine
    <2>5. LinesInv'
      BY <1>3, <2>1, <2>2, <2>3 DEF LinesInv
    <2>6. ASSUME NEW q \in Waiting, NEW x \in Waiting PROVE Ahead(q, x)' <=> Ahead(q, x)
      <3>1. /\ q \in Requests /\ x \in Requests /\ q # r /\ x # r
            /\ phase'[q] = phase[q] /\ phase'[x] = phase[x]
        BY <1>1, <2>2 DEF Waiting
      <3>2. Earlier(cqueue'[Source[x]], q, x) <=> Earlier(cqueue[Source[x]], q, x)
        BY <1>3, <2>3, <3>1
      <3>. QED BY <2>1, <3>1, <3>2 DEF Ahead
    <2>7. /\ ~Member(cqueue[c], r)
          /\ \A q : ~Earlier(squeue[t], q, r) /\ ~Earlier(squeue[t], r, q)
                    /\ ~Earlier(cqueue[c], q, r) /\ ~Earlier(cqueue[c], r, q)
      BY <1>1, <1>2, EarlierMember
    <2>8. ASSUME NEW q \in Waiting PROVE Ahead(q, r)' <=> q \in Admission!Line(r)
      <3>1. q \in Requests /\ q # r /\ phase[q] \in {"channel", "service"}
            /\ phase'[q] = phase[q]
        BY <1>1, <2>2 DEF Waiting
      <3>2. Ahead(q, r)' <=> /\ Source[q] = c /\ Target[q] = t
                             /\ phase[q] = "service" \/ Member(cqueue[c], q)
        BY <2>1, <2>2, <2>3, <2>7, <3>1 DEF Ahead
      <3>. QED BY <1>1, <1>2, <1>6, <3>1, <3>2
    <2>9. ASSUME NEW x \in Waiting \cup {r}, Ahead(r, x)' PROVE FALSE
      <3>1. Source[x] = c /\ Target[x] = t
        BY <2>9 DEF Ahead
      <3>2. Earlier(cqueue'[c], r, x)
        BY <2>1, <2>2, <2>7, <2>9, <3>1 DEF Ahead
      <3>. QED BY <2>3, <2>7, <3>2
    <2>. QED BY <1>1, <2>2, <2>5, <2>6, <2>8, <2>9, Joins
  <1>. QED BY <1>7, <1>8, <1>9

\* Pop of the throttle of a plugin: its first request goes to the pool.
LEMMA ServicePopAdmits ==
    ASSUME IInv, LinesInv, NEW r \in Requests, ServicePop(r)
    PROVE  /\ LinesInv'
           /\ UNCHANGED Admission!vars \/ \E h \in Requests : Admission!Admit(h)
  <1>. DEFINE t == Target[r]
              h == Head(squeue[t])
  <1>1. /\ t \in Services /\ phase[r] = "answered" /\ phase \in [Requests -> Phase]
        /\ squeue \in [Services -> Seq(Requests)] /\ cqueue' = cqueue
    BY RouteAssumption DEF ServicePop, IInv, ServicesInv
  <1>2. CASE squeue[t] = << >>
    <2>1. /\ phase' = [phase EXCEPT ![r] = "popped"] /\ squeue' = squeue
      BY <1>2 DEF ServicePop
    <2>2. phase'[r] = "popped" /\ \A x \in Requests \ {r} : phase'[x] = phase[x]
      BY <1>1, <2>1
    <2>. QED BY <1>1, <2>1, <2>2, QuietStep
  <1>3. CASE squeue[t] # << >>
    <2>1. /\ phase' = [phase EXCEPT ![r] = "popped", ![h] = "pool"]
          /\ squeue' = [squeue EXCEPT ![t] = Tail(@)]
      BY <1>3 DEF ServicePop
    <2>2. Orderly(squeue[t], "service", phase, To(t))
      BY <1>1 DEF IInv, ServicesInv
    <2>3. /\ Member(squeue[t], h)
          /\ \A q : ~Earlier(squeue[t], q, h)
          /\ \A x : Member(Tail(squeue[t]), x) <=> Member(squeue[t], x) /\ x # h
          /\ \A q, x : Earlier(Tail(squeue[t]), q, x) <=> Earlier(squeue[t], q, x) /\ q # h
      BY <1>3, <2>2, TailLine
    <2>4. h \in Requests /\ Target[h] = t /\ phase[h] = "service" /\ h # r /\ h \in Waiting
      BY <1>1, <2>3, Standing DEF Waiting
    <2>5. /\ phase'[h] = "pool" /\ phase'[r] = "popped"
          /\ \A x \in Requests \ {h, r} : phase'[x] = phase[x]
          /\ squeue'[t] = Tail(squeue[t]) /\ \A s \in Services \ {t} : squeue'[s] = squeue[s]
      BY <1>1, <2>1, <2>4
    <2>6. \A x \in Requests : Source[x] \in Channels /\ Target[x] \in Services
      BY RouteAssumption
    <2>7. LinesInv'
      <3>1. ASSUME NEW x \in Requests, phase'[x] = "service" PROVE Member(squeue'[Target[x]], x)
        <4>1. x # h /\ x # r /\ phase[x] = "service"
          BY <2>5, <3>1
        <4>. QED BY <2>3, <2>5, <2>6, <4>1 DEF LinesInv
      <3>2. ASSUME NEW x \in Requests, phase'[x] = "channel" PROVE Member(cqueue'[Source[x]], x)
        BY <1>1, <2>5, <3>2 DEF LinesInv
      <3>. QED BY <3>1, <3>2 DEF LinesInv
    <2>8. ASSUME NEW q \in Waiting PROVE ~Ahead(q, h)
      <3>1. ~Member(cqueue[Source[h]], h)
        BY <2>4, <2>6, Standing
      <3>. QED BY <2>3, <2>4, <3>1, EarlierMember DEF Ahead
    <2>9. ASSUME NEW q \in Waiting \ {h}, NEW x \in Waiting \ {h}
          PROVE  Ahead(q, x)' <=> Ahead(q, x)
      <3>1. /\ q \in Requests /\ x \in Requests /\ q # h /\ x # h
            /\ phase'[q] = phase[q] /\ phase'[x] = phase[x]
        BY <1>1, <2>5 DEF Waiting
      <3>2. Earlier(squeue'[Target[x]], q, x) <=> Earlier(squeue[Target[x]], q, x)
        BY <2>3, <2>5, <2>6, <3>1
      <3>. QED BY <1>1, <3>1, <3>2 DEF Ahead
    <2>10. Admission!Room(h)
      <3>1. r \in InService(Target[h]) /\ r \notin Admitted
        BY <1>1, <2>4 DEF InService, Admitted
      <3>2. h \in InChannel(Source[h]) /\ h \notin Admitted
        BY <2>4 DEF InChannel, HasChannelSlot, Admitted
      <3>. QED BY <2>4, <3>1, <3>2, RoomFor
    <2>11. \A x \in Requests \ {h} :
              /\ phase[x] \in {"channel", "service"} \/ phase'[x] \in {"channel", "service"}
                    => phase'[x] = phase[x]
              /\ phase'[x] \in {"pool", "dispatch"} <=> phase[x] \in {"pool", "dispatch"}
              /\ phase'[x] = "new" <=> phase[x] = "new"
      BY <1>1, <2>5
    <2>12. Admission!Admit(h)
      <3>. HIDE DEF h
      <3>. QED BY <2>4, <2>5, <2>8, <2>9, <2>10, <2>11, FrontAdmits
    <2>. QED BY <2>4, <2>7, <2>12
  <1>. QED BY <1>2, <1>3

\* Pop of the throttle of a channel: its first request goes to the pool, or to
\* the end of the queue of its plugin, where it stands as it did before.
LEMMA ChannelPopAdmits ==
    ASSUME IInv, LinesInv, NEW r \in Requests, ChannelPop(r)
    PROVE  /\ LinesInv'
           /\ UNCHANGED Admission!vars \/ \E h \in Requests : Admission!Admit(h)
  <1>. DEFINE c == Source[r]
              now == [phase EXCEPT ![r] = "held"]
  <1>1. /\ c \in Channels /\ phase[r] = "found" /\ phase \in [Requests -> Phase]
        /\ squeue \in [Services -> Seq(Requests)] /\ cqueue \in [Channels -> Seq(Requests)]
    BY RouteAssumption DEF ChannelPop, IInv, ServicesInv, ChannelsInv
  <1>. PICK h : h = Head(cqueue[c])
    OBVIOUS
  <1>. DEFINE t == Target[h]
  <1>2. CASE cqueue[c] = << >>
    <2>1. phase' = now /\ UNCHANGED <<squeue, cqueue>>
      BY <1>2 DEF ChannelPop
    <2>2. phase'[r] = "held" /\ \A x \in Requests \ {r} : phase'[x] = phase[x]
      BY <1>1, <2>1
    <2>. QED BY <1>1, <2>1, <2>2, QuietStep
  <1>3. CASE cqueue[c] # << >>
    <2>1. PushService(h, now) /\ cqueue' = [cqueue EXCEPT ![c] = Tail(@)]
      BY <1>3 DEF ChannelPop
    <2>2. Orderly(cqueue[c], "channel", phase, From(c))
      BY <1>1 DEF IInv, ChannelsInv
    <2>3. /\ Member(cqueue[c], h)
          /\ \A q : ~Earlier(cqueue[c], q, h)
          /\ \A x : Member(cqueue[c], x) /\ x # h => Earlier(cqueue[c], h, x)
          /\ \A x : Member(Tail(cqueue[c]), x) <=> Member(cqueue[c], x) /\ x # h
          /\ \A q, x : Earlier(Tail(cqueue[c]), q, x) <=> Earlier(cqueue[c], q, x) /\ q # h
      BY <1>3, <2>2, TailLine
    <2>4. /\ h \in Requests /\ Source[h] = c /\ phase[h] = "channel" /\ h # r /\ h \in Waiting
          /\ t \in Services
      BY <1>1, <2>3, Standing, RouteAssumption DEF Waiting
    <2>5. /\ cqueue'[c] = Tail(cqueue[c]) /\ \A d \in Channels \ {c} : cqueue'[d] = cqueue[d]
      BY <1>1, <2>1
    <2>6. /\ \A x \in Requests : Source[x] \in Channels /\ Target[x] \in Services
          /\ \A s \in Services : \A x : Member(squeue[s], x)
                <=> x \in Requests /\ Target[x] = s /\ phase[x] = "service"
          /\ \A d \in Channels : \A x : Member(cqueue[d], x)
                <=> x \in Requests /\ Source[x] = d /\ phase[x] = "channel"
      BY RouteAssumption, Standing
    <2>7. ASSUME NEW x \in Requests, x # h, phase[x] = "channel"
          PROVE  Member(cqueue'[Source[x]], x)
      BY <2>3, <2>5, <2>6, <2>7
    <2>8. ASSUME NEW q \in Requests, NEW x \in Requests, q # h
          PROVE  Earlier(cqueue'[Source[x]], q, x) <=> Earlier(cqueue[Source[x]], q, x)
      BY <2>3, <2>5, <2>6, <2>8
    <2>9. now[r] = "held" /\ \A x \in Requests \ {r} : now[x] = phase[x]
      BY <1>1
    <2>10. CASE HasSlot(sused[t], ServiceSlots[t])
      <3>1. phase' = [now EXCEPT ![h] = "pool"] /\ squeue' = squeue
        BY <2>1, <2>10 DEF PushService
      <3>2. /\ phase'[h] = "pool" /\ phase'[r] = "held"
            /\ \A x \in Requests \ {h, r} : phase'[x] = phase[x]
        BY <1>1, <2>4, <3>1
      <3>3. LinesInv'
        <4>1. ASSUME NEW x \in Requests, phase'[x] = "service" PROVE Member(squeue'[Target[x]], x)
          BY <3>1, <3>2, <4>1 DEF LinesInv
        <4>2. ASSUME NEW x \in Requests, phase'[x] = "channel" PROVE Member(cqueue'[Source[x]], x)
          BY <2>7, <3>2, <4>2
        <4>. QED BY <4>1, <4>2 DEF LinesInv
      <3>4. squeue[t] = << >>
        BY <2>4, <2>10 DEF IInv, ServicesInv
      <3>5. ASSUME NEW q \in Waiting PROVE ~Ahead(q, h)
        <4>1. q \in Requests /\ ~Member(squeue[t], q) /\ ~Earlier(squeue[t], q, h)
          BY <3>4, EmptyLine DEF Waiting
        <4>2. ~(Target[q] = t /\ phase[q] = "service")
          BY <2>4, <2>6, <4>1
        <4>. QED BY <2>3, <2>4, <4>1, <4>2 DEF Ahead
      <3>6. ASSUME NEW q \in Waiting \ {h}, NEW x \in Waiting \ {h}
            PROVE  Ahead(q, x)' <=> Ahead(q, x)
        <4>1. /\ q \in Requests /\ x \in Requests /\ q # h /\ x # h
              /\ phase'[q] = phase[q] /\ phase'[x] = phase[x]
          BY <1>1, <3>2 DEF Waiting
        <4>. QED BY <2>8, <3>1, <4>1 DEF Ahead
      <3>7. Admission!Room(h)
        <4>1. r \in InChannel(Source[h]) /\ r \notin Admitted
          BY <1>1, <2>4 DEF InChannel, HasChannelSlot, Admitted
        <4>. QED BY <2>4, <2>10, <4>1, RoomFor
      <3>8. \A x \in Requests \ {h} :
               /\ phase[x] \in {"channel", "service"} \/ phase'[x] \in {"channel", "service"}
                     => phase'[x] = phase[x]
               /\ phase'[x] \in {"pool", "dispatch"} <=> phase[x] \in {"pool", "dispatch"}
               /\ phase'[x] = "new" <=> phase[x] = "new"
        BY <1>1, <3>2
      <3>9. Admission!Admit(h)
        BY <2>4, <3>2, <3>5, <3>6, <3>7, <3>8, FrontAdmits
      <3>. QED BY <2>4, <3>3, <3>9
    <2>11. CASE ~HasSlot(sused[t], ServiceSlots[t])
      <3>1. /\ phase' = [now EXCEPT ![h] = "service"]
            /\ squeue' = [squeue EXCEPT ![t] = Append(@, h)]
        BY <2>1, <2>11 DEF PushService
      <3>2. /\ phase'[h] = "service" /\ phase'[r] = "held"
            /\ \A x \in Requests \ {h, r} : phase'[x] = phase[x]
            /\ \A s \in Services \ {t} : squeue'[s] = squeue[s]
        BY <1>1, <2>4, <3>1
      <3>3. /\ \A x : Member(squeue'[t], x) <=> Member(squeue[t], x) \/ x = h
            /\ \A q, x : Earlier(squeue'[t], q, x)
                            <=> Earlier(squeue[t], q, x) \/ (x = h /\ Member(squeue[t], q))
        <4>1. squeue[t] \in Seq(Requests) /\ squeue'[t] = Append(squeue[t], h)
          BY <1>1, <2>4, <3>1
        <4>2. /\ \A x : Member(Append(squeue[t], h), x) <=> Member(squeue[t], x) \/ x = h
              /\ \A q, x : Earlier(Append(squeue[t], h), q, x)
                              <=> Earlier(squeue[t], q, x) \/ (x = h /\ Member(squeue[t], q))
          <5>1. h \in Requests
            BY <2>4
          <5>2. PICK queue : queue = squeue[t]
            OBVIOUS
          <5>3. queue \in Seq(Requests)
            BY <4>1, <5>2
          <5>4. /\ \A x : Member(Append(queue, h), x) <=> Member(queue, x) \/ x = h
                /\ \A q, x : Earlier(Append(queue, h), q, x)
                                <=> Earlier(queue, q, x) \/ (x = h /\ Member(queue, q))
            BY <5>1, <5>3, AppendLine
          <5>. QED BY <5>2, <5>4
        <4>. QED BY <4>1, <4>2
      <3>4. LinesInv'
        <4>1. ASSUME NEW x \in Requests, phase'[x] = "service" PROVE Member(squeue'[Target[x]], x)
          BY <2>4, <2>6, <3>2, <3>3, <4>1 DEF LinesInv
        <4>2. ASSUME NEW x \in Requests, phase'[x] = "channel" PROVE Member(cqueue'[Source[x]], x)
          BY <2>7, <3>2, <4>2
        <4>. QED BY <4>1, <4>2 DEF LinesInv
      <3>5. Waiting' = Waiting /\ Admitted' = Admitted /\ Arrived' = Arrived
        BY <1>1, <2>4, <3>2 DEF Waiting, Admitted, Arrived
      <3>6. ASSUME NEW q \in Waiting, NEW x \in Waiting PROVE Ahead(q, x)' <=> Ahead(q, x)
        <4>1. /\ q \in Requests /\ x \in Requests /\ q # r /\ x # r
              /\ phase[q] \in {"channel", "service"} /\ phase[x] \in {"channel", "service"}
          BY <1>1 DEF Waiting
        <4>2. ~Member(squeue[t], h)
          BY <2>4, <2>6
        <4>3. ~Member(cqueue'[c], h)
          BY <2>3, <2>5
        <4>4. CASE q # h /\ x # h
          <5>1. phase'[q] = phase[q] /\ phase'[x] = phase[x]
            BY <3>2, <4>1, <4>4
          <5>2. Earlier(squeue'[Target[x]], q, x) <=> Earlier(squeue[Target[x]], q, x)
            BY <2>6, <3>2, <3>3, <4>1, <4>4
          <5>. QED BY <2>8, <4>1, <4>4, <5>1, <5>2 DEF Ahead
        <4>5. CASE q # h /\ x = h
          <5>1. phase'[q] = phase[q]
            BY <3>2, <4>1, <4>5
          <5>2. Ahead(q, h) <=> Source[q] = c /\ Target[q] = t /\ phase[q] = "service"
            BY <2>3, <2>4, <4>2, EarlierMember DEF Ahead
          <5>3. Earlier(squeue'[t], q, h) <=> Member(squeue[t], q)
            BY <3>3, <4>2, EarlierMember
          <5>4. ~Earlier(cqueue'[c], q, h)
            BY <4>3, EarlierMember
          <5>5. Ahead(q, h)' <=> Source[q] = c /\ Target[q] = t /\ Member(squeue[t], q)
            BY <2>4, <3>2, <5>3, <5>4 DEF Ahead
          <5>. QED BY <2>4, <2>6, <4>1, <4>5, <5>2, <5>5
        <4>6. CASE q = h /\ x # h
          <5>1. phase'[x] = phase[x]
            BY <3>2, <4>1, <4>6
          <5>2. /\ ~Earlier(squeue[t], h, x) /\ ~Earlier(squeue'[t], h, x)
                /\ ~Earlier(cqueue'[c], h, x)
            BY <3>3, <4>2, <4>3, <4>6, EarlierMember
          <5>3. Ahead(h, x)' <=> Source[x] = c /\ Target[x] = t /\ phase[x] = "channel"
            BY <2>4, <3>2, <5>1, <5>2 DEF Ahead
          <5>4. Ahead(h, x) <=> Source[x] = c /\ Target[x] = t /\ Earlier(cqueue[c], h, x)
            BY <2>4, <5>2 DEF Ahead
          <5>5. Earlier(cqueue[c], h, x) <=> Member(cqueue[c], x)
            BY <2>3, <4>6, EarlierMember
          <5>. QED BY <1>1, <2>6, <4>1, <4>6, <5>3, <5>4, <5>5
        <4>7. CASE q = h /\ x = h
          <5>1. ~Ahead(h, h)
            BY <2>3, <2>4, <4>2, EarlierMember DEF Ahead
          <5>2. ~Earlier(squeue'[t], h, h) /\ ~Earlier(cqueue'[c], h, h)
            BY <3>3, <4>2, <4>3, EarlierMember
          <5>3. ~Ahead(h, h)'
            BY <2>4, <3>2, <5>2 DEF Ahead
          <5>. QED BY <4>7, <5>1, <5>3
        <4>. QED BY <4>4, <4>5, <4>6, <4>7
      <3>7. Before' = Before
        <4>1. \A q, x \in Requests : <<q, x>> \in Before' <=> <<q, x>> \in Before
          BY <3>5, <3>6, BeforeIs, BeforeNext
        <4>. QED BY <4>1, BeforeIs, BeforeNext, SamePairs
      <3>. QED BY <3>4, <3>5, <3>7 DEF Admission!vars
    <2>. QED BY <2>10, <2>11
  <1>. QED BY <1>2, <1>3

\* The end of a channel: what it has not passed on is lost, and all of that
\* stands behind what the queues of the plugins hold.
LEMMA DestroyedHangsUp ==
    ASSUME IInv, LinesInv, NEW c \in Channels, NEW now \in [Requests -> Phase],
           \A x \in Requests : now[x] = phase[x] \/ (phase[x] = "held" /\ now[x] = "done"),
           phase' = Destroyed(c, now), cqueue' = [cqueue EXCEPT ![c] = << >>], squeue' = squeue
    PROVE  LinesInv' /\ Admission!HangUp(c)
  <1>. PICK gone : gone = Queued(c)
    OBVIOUS
  <1>1. /\ gone \in SUBSET Requests
        /\ \A x \in Requests : x \in gone <=> Source[x] = c /\ phase[x] = "channel"
    BY DEF Queued
  <1>2. \A x \in Requests : phase'[x] = IF x \in gone THEN "dropped" ELSE now[x]
    BY DEF Destroyed
  <1>3. /\ \A x \in gone : phase'[x] = "dropped"
        /\ \A x \in Requests \ gone :
              phase'[x] = phase[x] \/ (phase[x] = "held" /\ phase'[x] = "done")
    BY <1>1, <1>2
  <1>4. cqueue'[c] = << >> /\ \A d \in Channels \ {c} : cqueue'[d] = cqueue[d]
    <2>1. cqueue \in [Channels -> Seq(Requests)]
      BY DEF IInv, ChannelsInv
    <2>. QED BY <2>1
  <1>5. /\ \A x \in Requests : Source[x] \in Channels /\ Target[x] \in Services
        /\ \A s \in Services : \A x : Member(squeue[s], x)
              <=> x \in Requests /\ Target[x] = s /\ phase[x] = "service"
        /\ \A d \in Channels : \A x : Member(cqueue[d], x)
              <=> x \in Requests /\ Source[x] = d /\ phase[x] = "channel"
    BY RouteAssumption, Standing
  <1>6. LinesInv'
    <2>1. ASSUME NEW x \in Requests, phase'[x] = "service" PROVE Member(squeue'[Target[x]], x)
      BY <1>3, <1>5, <2>1
    <2>2. ASSUME NEW x \in Requests, phase'[x] = "channel" PROVE Member(cqueue'[Source[x]], x)
      <3>1. x \notin gone /\ phase[x] = "channel"
        BY <1>3, <2>2
      <3>2. Source[x] \in Channels \ {c}
        BY <1>1, <1>5, <3>1
      <3>. QED BY <1>4, <1>5, <3>1, <3>2
    <2>. QED BY <2>1, <2>2 DEF LinesInv
  <1>7. gone \in SUBSET {x \in Waiting : Source[x] = c}
    BY <1>1 DEF Waiting
  <1>8. ASSUME NEW q \in gone, NEW x \in Waiting, <<q, x>> \in Before PROVE x \in gone
    <2>1. q \in Requests /\ x \in Requests /\ Source[q] = c /\ phase[q] = "channel" /\ Ahead(q, x)
      BY <1>1, <1>8, BeforeIs DEF Waiting
    <2>2. Source[x] = c /\ ~Earlier(squeue[Target[x]], q, x)
      BY <1>5, <2>1, EarlierMember DEF Ahead
    <2>3. phase[x] = "channel" \/ Earlier(cqueue[c], q, x)
      BY <2>1, <2>2 DEF Ahead
    <2>. QED BY <1>1, <1>5, <2>1, <2>2, <2>3, EarlierMember
  <1>9. ASSUME NEW q \in Waiting \ gone, NEW x \in Waiting \ gone
        PROVE  Ahead(q, x)' <=> Ahead(q, x)
    <2>1. /\ q \in Requests /\ x \in Requests /\ phase'[q] = phase[q] /\ phase'[x] = phase[x]
          /\ Source[x] = c => phase[x] = "service"
      BY <1>1, <1>3 DEF Waiting
    <2>2. Earlier(cqueue'[Source[x]], q, x) <=> Earlier(cqueue[Source[x]], q, x)
      <3>1. CASE Source[x] = c
        <4>1. ~Member(cqueue[c], x)
          BY <1>5, <2>1, <3>1
        <4>. QED BY <1>4, <3>1, <4>1, EarlierMember, EmptyLine
      <3>. QED BY <1>4, <1>5, <2>1, <3>1
    <2>. QED BY <2>1, <2>2 DEF Ahead
  <1>10. Admission!Leave(gone)
    <2>1. gone \in SUBSET Waiting
      BY <1>7
    <2>2. \A x \in gone : phase'[x] \notin {"channel", "service"}
      BY <1>3
    <2>3. \A x \in Requests \ gone :
             phase[x] \in {"channel", "service"} \/ phase'[x] \in {"channel", "service"}
                => phase'[x] = phase[x]
      BY <1>3
    <2>. QED BY <1>9, <2>1, <2>2, <2>3, Leaves
  <1>11. Admitted' = Admitted /\ Arrived' = Arrived
    BY <1>1, <1>3 DEF Admitted, Arrived
  <1>. QED BY <1>6, <1>7, <1>8, <1>10, <1>11 DEF Admission!HangUp

\* The rest of what a job does: nothing in any line, but one is answered.
LEMMA MinionLines ==
    ASSUME IInv, LinesInv, NEW r \in Requests, Dispatch(r) \/ FindChannel(r)
    PROVE  LinesInv' /\ UNCHANGED Admission!vars
  <1>1. /\ phase \in [Requests -> Phase] /\ UNCHANGED <<squeue, cqueue>>
        /\ \/ phase[r] = "pool" /\ phase' = [phase EXCEPT ![r] = "dispatch"]
           \/ /\ phase[r] = "popped"
              /\ \E p \in {"done", "found"} : phase' = [phase EXCEPT ![r] = p]
    BY DEF IInv, Dispatch, FindChannel
  <1>2. /\ \A x \in Requests \ {r} : phase'[x] = phase[x]
        /\ \/ phase[r] = "pool" /\ phase'[r] = "dispatch"
           \/ phase[r] = "popped" /\ phase'[r] \in {"done", "found"}
    BY <1>1
  <1>. QED BY <1>1, <1>2, QuietStep

LEMMA AnswerFinishes ==
    ASSUME IInv, LinesInv, NEW r \in Requests, Answer(r)
    PROVE  LinesInv' /\ Admission!Finish(r)
  <1>1. /\ phase \in [Requests -> Phase] /\ UNCHANGED <<squeue, cqueue>>
        /\ phase[r] = "dispatch" /\ phase' = [phase EXCEPT ![r] = "answered"]
    BY DEF IInv, Answer
  <1>2. phase'[r] = "answered" /\ \A x \in Requests \ {r} : phase'[x] = phase[x]
    BY <1>1
  <1>3. LinesInv' /\ Waiting' = Waiting /\ Before' = Before
    BY <1>1, <1>2, QuietLines
  <1>4. r \in Admitted /\ Admitted' = Admitted \ {r} /\ Arrived' = Arrived
    BY <1>1, <1>2 DEF Admitted, Arrived
  <1>. QED BY <1>3, <1>4 DEF Admission!Finish

LEMMA ReleaseHangsUp ==
    ASSUME IInv, LinesInv, NEW r \in Requests, ReleaseChannel(r)
    PROVE  /\ LinesInv'
           /\ UNCHANGED Admission!vars \/ \E c \in Channels : Admission!HangUp(c)
  <1>. DEFINE c == Source[r]
              now == [phase EXCEPT ![r] = "done"]
  <1>1. /\ c \in Channels /\ phase[r] = "held" /\ phase \in [Requests -> Phase]
        /\ squeue' = squeue
    BY RouteAssumption DEF ReleaseChannel, IInv
  <1>2. /\ now \in [Requests -> Phase]
        /\ \A x \in Requests : now[x] = phase[x] \/ (phase[x] = "held" /\ now[x] = "done")
    BY <1>1, PhaseType
  <1>3. \/ phase' = Destroyed(c, now) /\ cqueue' = [cqueue EXCEPT ![c] = << >>]
        \/ phase' = now /\ cqueue' = cqueue
    BY DEF ReleaseChannel
  <1>4. CASE phase' = Destroyed(c, now) /\ cqueue' = [cqueue EXCEPT ![c] = << >>]
    <2>1. LinesInv' /\ Admission!HangUp(c)
      <3>. HIDE DEF now
      <3>. QED BY <1>1, <1>2, <1>4, DestroyedHangsUp
    <2>. QED BY <1>1, <2>1
  <1>5. CASE phase' = now /\ cqueue' = cqueue
    <2>1. phase'[r] = "done" /\ \A x \in Requests \ {r} : phase'[x] = phase[x]
      BY <1>1, <1>5
    <2>. QED BY <1>1, <1>5, <2>1, QuietStep
  <1>. QED BY <1>3, <1>4, <1>5

LEMMA CleanupHangsUp ==
    ASSUME IInv, LinesInv, NEW c \in Channels, Close(c) \/ Cleanup(c)
    PROVE  LinesInv' /\ (UNCHANGED Admission!vars \/ Admission!HangUp(c))
  <1>1. phase \in [Requests -> Phase] /\ squeue' = squeue
    BY DEF Close, Cleanup, IInv
  <1>2. \/ phase' = Destroyed(c, phase) /\ cqueue' = [cqueue EXCEPT ![c] = << >>]
        \/ UNCHANGED <<phase, cqueue>>
    BY DEF Close, Cleanup
  <1>3. CASE phase' = Destroyed(c, phase) /\ cqueue' = [cqueue EXCEPT ![c] = << >>]
    BY <1>1, <1>3, DestroyedHangsUp
  <1>4. CASE UNCHANGED <<phase, cqueue>>
    BY <1>1, <1>4, QuietStep
  <1>. QED BY <1>2, <1>3, <1>4

LEMMA InitLines == Init => LinesInv /\ Admission!Init
  <1>. SUFFICES ASSUME Init PROVE LinesInv /\ Admission!Init
    OBVIOUS
  <1>1. \A r \in Requests : phase[r] = "new"
    BY DEF Init
  <1>2. Waiting = {} /\ Admitted = {} /\ Arrived = {}
    BY <1>1 DEF Waiting, Admitted, Arrived
  <1>3. Before = {}
    BY <1>2 DEF Before
  <1>. QED BY <1>1, <1>2, <1>3 DEF LinesInv, Admission!Init

LEMMA StepLines ==
    IInv /\ LinesInv /\ [Next]_vars => LinesInv' /\ [Admission!Next]_(Admission!vars)
  <1>. SUFFICES ASSUME IInv, LinesInv, [Next]_vars
                PROVE  LinesInv' /\ [Admission!Next]_(Admission!vars)
    OBVIOUS
  <1>1. ASSUME NEW r \in Requests, Received(r)
        PROVE  LinesInv' /\ [Admission!Next]_(Admission!vars)
    BY <1>1, ReceivedArrives DEF Admission!Next
  <1>2. ASSUME NEW r \in Requests, Dispatch(r) \/ FindChannel(r)
        PROVE  LinesInv' /\ [Admission!Next]_(Admission!vars)
    BY <1>2, MinionLines
  <1>3. ASSUME NEW r \in Requests, Answer(r)
        PROVE  LinesInv' /\ [Admission!Next]_(Admission!vars)
    BY <1>3, AnswerFinishes DEF Admission!Next
  <1>4. ASSUME NEW r \in Requests, ServicePop(r)
        PROVE  LinesInv' /\ [Admission!Next]_(Admission!vars)
    BY <1>4, ServicePopAdmits DEF Admission!Next
  <1>5. ASSUME NEW r \in Requests, ChannelPop(r)
        PROVE  LinesInv' /\ [Admission!Next]_(Admission!vars)
    BY <1>5, ChannelPopAdmits DEF Admission!Next
  <1>6. ASSUME NEW r \in Requests, ReleaseChannel(r)
        PROVE  LinesInv' /\ [Admission!Next]_(Admission!vars)
    BY <1>6, ReleaseHangsUp DEF Admission!Next
  <1>7. ASSUME NEW c \in Channels, Close(c) \/ Cleanup(c)
        PROVE  LinesInv' /\ [Admission!Next]_(Admission!vars)
    BY <1>7, CleanupHangsUp DEF Admission!Next
  <1>8. CASE UNCHANGED vars
    <2>1. phase' = phase /\ UNCHANGED <<squeue, cqueue>>
      BY <1>8 DEF vars
    <2>. QED BY <2>1, QuietStep
  <1>. QED BY <1>1, <1>2, <1>3, <1>4, <1>5, <1>6, <1>7, <1>8 DEF Next, Proceed

\* The two ThrottleQueueTypes in a row, Push and Pop of the channel's and of the
\* plugin's, admit the requests a channel sends to a plugin in the order in which
\* they came, and no more of either at a time than its slots, for any number of
\* channels, plugins and requests, and whatever Received, Pop, Close and Cleanup
\* do in between; a channel that goes takes the ends of its lines with it.
THEOREM Refinement == Spec => ImplementsAdmission
  <1>1. Init => LinesInv /\ Admission!Init
    BY InitLines
  <1>2. IInv /\ LinesInv /\ [Next]_vars => LinesInv' /\ [Admission!Next]_(Admission!vars)
    BY StepLines
  <1>. QED BY <1>1, <1>2, Inductive, PTL DEF Spec, ImplementsAdmission, Admission!Spec

-----------------------------------------------------------------------------
(* What RequestAdmission says of the lines: each is an order, so that there *)
(* is one first, and nobody is admitted in front of an earlier one.         *)

SameLine(q, r) == Source[q] = Source[r] /\ Target[q] = Target[r]

Ordered(W, B, A) ==
    /\ W \subseteq A /\ B \subseteq W \X W
    /\ \A q, r \in W : <<q, r>> \in B => SameLine(q, r) /\ <<r, q>> \notin B
    /\ \A q, r \in W : SameLine(q, r) /\ q # r => <<q, r>> \in B \/ <<r, q>> \in B
    /\ \A q, r, x \in W : <<q, r>> \in B /\ <<r, x>> \in B => <<q, x>> \in B

LEMMA LeaveOrdered ==
    ASSUME NEW W, NEW B, NEW A, Ordered(W, B, A), NEW gone
    PROVE  Ordered(W \ gone, B \cap ((W \ gone) \X (W \ gone)), A)
  <1>. PICK V : V = W \ gone
    OBVIOUS
  <1>1. \A q, r \in V : <<q, r>> \in B \cap (V \X V) <=> <<q, r>> \in B
    OBVIOUS
  <1>2. V \subseteq W /\ B \cap (V \X V) \subseteq V \X V
    OBVIOUS
  <1>. QED BY <1>1, <1>2 DEF Ordered

LEMMA ArriveOrdered ==
    ASSUME NEW W, NEW B, NEW A, Ordered(W, B, A), NEW r, r \notin A
    PROVE  /\ Ordered(W \cup {r}, B \cup ({q \in W : SameLine(q, r)} \X {r}), A \cup {r})
           /\ Ordered(W, B, A \cup {r})
  <1>. PICK C : C = B \cup ({q \in W : SameLine(q, r)} \X {r})
    OBVIOUS
  <1>1. r \notin W /\ B \subseteq W \X W
    BY DEF Ordered
  <1>2. \A q, x \in W : <<q, x>> \in C <=> <<q, x>> \in B
    BY <1>1
  <1>3. \A q \in W : <<q, r>> \in C <=> SameLine(q, r)
    BY <1>1
  <1>4. \A q \in W \cup {r} : <<r, q>> \notin C
    BY <1>1
  <1>5. C \subseteq (W \cup {r}) \X (W \cup {r})
    BY <1>1
  <1>6. /\ \A q, x \in W : SameLine(q, x) => SameLine(x, q)
        /\ \A q, x, y \in W \cup {r} : SameLine(q, x) /\ SameLine(x, y) => SameLine(q, y)
    BY DEF SameLine
  <1>7. Ordered(W \cup {r}, C, A \cup {r})
    <2>1. W \cup {r} \subseteq A \cup {r}
      BY DEF Ordered
    <2>2. ASSUME NEW q \in W \cup {r}, NEW x \in W \cup {r}, <<q, x>> \in C
          PROVE  SameLine(q, x) /\ <<x, q>> \notin C
      BY <1>1, <1>2, <1>3, <1>4, <2>2 DEF Ordered
    <2>3. ASSUME NEW q \in W \cup {r}, NEW x \in W \cup {r}, SameLine(q, x), q # x
          PROVE  <<q, x>> \in C \/ <<x, q>> \in C
      <3>1. SameLine(x, q)
        BY <2>3 DEF SameLine
      <3>. QED BY <1>2, <1>3, <2>3, <3>1 DEF Ordered
    <2>4. ASSUME NEW q \in W \cup {r}, NEW x \in W \cup {r}, NEW y \in W \cup {r},
                 <<q, x>> \in C, <<x, y>> \in C
          PROVE  <<q, y>> \in C
      <3>1. q \in W /\ x \in W
        BY <1>4, <2>4
      <3>2. SameLine(q, x) /\ SameLine(x, y)
        BY <2>2, <2>4
      <3>3. CASE y \in W
        BY <1>2, <2>4, <3>1, <3>3 DEF Ordered
      <3>4. CASE y = r
        BY <1>3, <1>6, <3>1, <3>2, <3>4
      <3>. QED BY <3>3, <3>4
    <2>. QED BY <1>5, <2>1, <2>2, <2>3, <2>4 DEF Ordered
  <1>. QED BY <1>7 DEF Ordered

LEMMA OrderedStep ==
    Ordered(Waiting, Before, Arrived) /\ [Admission!Next]_(Admission!vars)
        => Ordered(Waiting, Before, Arrived)'
  <1>. SUFFICES ASSUME Ordered(Waiting, Before, Arrived), [Admission!Next]_(Admission!vars)
                PROVE  Ordered(Waiting', Before', Arrived')
    BY DEF Ordered
  <1>. PICK W, B, A : W = Waiting /\ B = Before /\ A = Arrived
    OBVIOUS
  <1>1. Ordered(W, B, A)
    OBVIOUS
  <1>2. ASSUME NEW r \in Requests, Admission!Arrive(r)
        PROVE  Ordered(Waiting', Before', Arrived')
    <2>1. Admission!Line(r) = {q \in W : SameLine(q, r)}
      BY DEF Admission!Line, SameLine
    <2>2. /\ r \notin A /\ Arrived' = A \cup {r}
          /\ \/ Waiting' = W \cup {r} /\ Before' = B \cup ({q \in W : SameLine(q, r)} \X {r})
             \/ Waiting' = W /\ Before' = B
      BY <1>2, <2>1 DEF Admission!Arrive
    <2>3. /\ Ordered(W \cup {r}, B \cup ({q \in W : SameLine(q, r)} \X {r}), A \cup {r})
          /\ Ordered(W, B, A \cup {r})
      BY <1>1, <2>2, ArriveOrdered
    <2>. QED BY ONLY <2>2, <2>3
  <1>3. ASSUME NEW gone, Admission!Leave(gone), Arrived' = A
        PROVE  Ordered(Waiting', Before', Arrived')
    <2>1. Waiting' = W \ gone /\ Before' = B \cap ((W \ gone) \X (W \ gone))
      BY <1>3 DEF Admission!Leave
    <2>. QED BY <1>1, <1>3, <2>1, LeaveOrdered
  <1>4. ASSUME NEW r \in Requests, Admission!Admit(r)
        PROVE  Ordered(Waiting', Before', Arrived')
    BY <1>3, <1>4 DEF Admission!Admit
  <1>5. ASSUME NEW c \in Channels, Admission!HangUp(c)
        PROVE  Ordered(Waiting', Before', Arrived')
    BY <1>3, <1>5 DEF Admission!HangUp
  <1>6. ASSUME UNCHANGED <<Waiting, Before, Arrived>>
        PROVE  Ordered(Waiting', Before', Arrived')
    BY <1>6
  <1>7. ASSUME NEW r \in Requests, Admission!Finish(r)
        PROVE  Ordered(Waiting', Before', Arrived')
    BY <1>6, <1>7 DEF Admission!Finish
  <1>8. CASE UNCHANGED Admission!vars
    BY <1>6, <1>8 DEF Admission!vars
  <1>. QED BY <1>2, <1>4, <1>5, <1>7, <1>8 DEF Admission!Next

\* The requests of a channel to a plugin that wait, in the queue of the plugin or
\* in that of the channel (_queue of two ThrottleQueueTypes), stand in one order.
LinesOrdered ==
    /\ \A q, r \in Waiting : Ahead(q, r) => SameLine(q, r) /\ ~Ahead(r, q)
    /\ \A q, r \in Waiting : SameLine(q, r) /\ q # r => Ahead(q, r) \/ Ahead(r, q)
    /\ \A q, r, x \in Waiting : Ahead(q, r) /\ Ahead(r, x) => Ahead(q, x)

THEOREM LinesOrderedHolds == Spec => []LinesOrdered
  <1>1. Admission!Init => Ordered(Waiting, Before, Arrived)
    BY DEF Admission!Init, Ordered
  <1>2. Ordered(Waiting, Before, Arrived) => LinesOrdered
    <2>1. Waiting \subseteq Requests
      BY DEF Waiting
    <2>2. \A q, r \in Waiting : <<q, r>> \in Before <=> Ahead(q, r)
      BY <2>1, BeforeIs
    <2>. QED BY <2>2 DEF Ordered, LinesOrdered
  <1>. QED BY <1>1, <1>2, OrderedStep, Refinement, PTL DEF ImplementsAdmission, Admission!Spec

\* No step of Received, Pop or the end of a channel hands a request to the worker
\* pool while one waits that came earlier from its channel for its plugin.
THEOREM NoOvertaking ==
    Spec => [][\A q, r \in Waiting : Ahead(q, r) => r \notin Admitted']_vars
  <1>1. IInv /\ LinesInv /\ [Next]_vars =>
           [\A q, r \in Waiting : Ahead(q, r) => r \notin Admitted']_vars
    <2>. SUFFICES ASSUME IInv, LinesInv, [Next]_vars, NEW q \in Waiting, NEW r \in Waiting,
                         Ahead(q, r), r \in Admitted'
                  PROVE  FALSE
      OBVIOUS
    <2>1. [Admission!Next]_(Admission!vars)
      BY StepLines
    <2>2. /\ q \in Requests /\ r \in Requests /\ <<q, r>> \in Before
          /\ r \notin Admitted /\ r \in Arrived
      BY BeforeIs DEF Waiting, Admitted, Arrived
    <2>3. ASSUME NEW x \in Requests, Admission!Arrive(x) \/ Admission!Finish(x) PROVE FALSE
      BY <2>2, <2>3 DEF Admission!Arrive, Admission!Finish
    <2>4. ASSUME NEW x \in Requests, Admission!Admit(x) PROVE FALSE
      <3>1. x = r
        BY <2>2, <2>4 DEF Admission!Admit
      <3>. QED BY <2>2, <2>4, <3>1 DEF Admission!Admit
    <2>5. ASSUME NEW c \in Channels, Admission!HangUp(c) PROVE FALSE
      BY <2>2, <2>5 DEF Admission!HangUp
    <2>6. CASE UNCHANGED Admission!vars
      BY <2>2, <2>6 DEF Admission!vars
    <2>. QED BY <2>1, <2>3, <2>4, <2>5, <2>6 DEF Admission!Next
  <1>2. Init => LinesInv
    BY InitLines
  <1>3. IInv /\ LinesInv /\ [Next]_vars => LinesInv'
    BY StepLines
  <1>. QED BY <1>1, <1>2, <1>3, Inductive, PTL DEF Spec
=============================================================================
