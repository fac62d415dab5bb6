--------------------------- MODULE ServicesProofs ---------------------------
(* Proofs about the components of Services, side by side: the event        *)
(* broker, the policy engine, a phase's watcher and the servers'           *)
(* processes.  Each is on its own here, with constants of its own, and     *)
(* what is proved holds whatever they are.                                 *)
EXTENDS Services, SequenceTheorems, TLAPS

-----------------------------------------------------------------------------
(* The event broker.                                                       *)

LEMMA BrokerTypeStep == TypeOK /\ [Next]_vars => TypeOK'
<1> SUFFICES ASSUME TypeOK, [Next]_vars PROVE TypeOK'
  OBVIOUS
<1> USE DEF TypeOK, broker, client, Goto
<1>1. CASE UNCHANGED vars
  BY <1>1 DEF vars
<1>2. ASSUME NEW w \in Writers,
             \/ WriteRule(w) \/ ReadVersion(w) \/ VersionFails(w)
             \/ BroadcastLock(w) \/ BroadcastUnlock(w)
      PROVE  TypeOK'
  <2>1. CASE WriteRule(w)
    BY <2>1 DEF WriteRule
  <2>2. CASE ReadVersion(w)
    BY <2>2 DEF ReadVersion
  <2>3. CASE VersionFails(w)
    BY <2>3 DEF VersionFails
  <2>4. CASE BroadcastLock(w)
    BY <2>4 DEF BroadcastLock
  <2>5. CASE BroadcastUnlock(w)
    BY <2>5 DEF BroadcastUnlock
  <2> QED BY <1>2, <2>1, <2>2, <2>3, <2>4, <2>5
<1>3. ASSUME NEW w \in Writers, NEW c \in Clients, Send(w, c) PROVE TypeOK'
  <2>1. chan' \in [Clients -> Seq(Nat)] /\ \A d \in Clients : Len(chan'[d]) <= Buffer
    <3>1. CASE Len(chan[c]) < Buffer
      <4>1. chan' = [chan EXCEPT ![c] = Append(chan[c], news[w])]
        BY <1>3, <3>1 DEF Send
      <4>2. /\ Append(chan[c], news[w]) \in Seq(Nat)
            /\ Len(Append(chan[c], news[w])) = Len(chan[c]) + 1
            /\ Len(chan[c]) \in Nat
        OBVIOUS
      <4> QED BY <4>1, <4>2, <3>1, BufferAssumption
    <3>2. CASE ~(Len(chan[c]) < Buffer)
      BY <1>3, <3>2 DEF Send
    <3> QED BY <3>1, <3>2
  <2> QED BY <1>3, <2>1 DEF Send
<1>4. ASSUME NEW c \in Clients, Subscribe(c) \/ Leave(c) \/ Unsubscribe(c) PROVE TypeOK'
  <2>1. CASE Subscribe(c)
    BY <2>1 DEF Subscribe
  <2>2. CASE Leave(c)
    BY <2>2 DEF Leave
  <2>3. CASE Unsubscribe(c)
    BY <2>3 DEF Unsubscribe
  <2> QED BY <1>4, <2>1, <2>2, <2>3
<1>5. ASSUME NEW c \in Clients, Deliver(c) PROVE TypeOK'
  <2>1. Tail(chan[c]) \in Seq(Nat) /\ Len(Tail(chan[c])) <= Buffer
    <3>1. chan[c] \in Seq(Nat) /\ chan[c] # <<>>
      BY <1>5 DEF Deliver
    <3>2. Tail(chan[c]) \in Seq(Nat) /\ Len(Tail(chan[c])) = Len(chan[c]) - 1
      BY <3>1, HeadTailProperties
    <3>3. Len(chan[c]) \in Nat
      BY <3>1
    <3> QED BY <3>2, <3>3, BufferAssumption
  <2>2. chan' = [chan EXCEPT ![c] = Tail(chan[c])]
    BY <1>5 DEF Deliver
  <2>3. chan' \in [Clients -> Seq(Nat)] /\ \A d \in Clients : Len(chan'[d]) <= Buffer
    BY <2>1, <2>2
  <2> QED BY <1>5, <2>3 DEF Deliver
<1> QED BY <1>1, <1>2, <1>3, <1>4, <1>5 DEF Next, Broadcasting

(* The types, and that no channel ever holds more than its capacity.       *)
THEOREM BrokerTypeCorrect == Spec => []TypeOK
<1>1. Init => TypeOK
  BY BufferAssumption, EmptySeq DEF Init, TypeOK
<1> QED BY <1>1, BrokerTypeStep, PTL DEF Spec

-----------------------------------------------------------------------------
(* Nothing is subscribed after its channel was closed.                     *)
ClosedInv ==
  /\ TypeOK /\ NoSendOnClosed
  /\ subs \cap closed = {}
  /\ \A c \in Clients : conn[c] = "new" => c \notin closed

(* No goroutine ever sends on a closed channel.                            *)
THEOREM NoSendOnClosedHolds == Spec => []NoSendOnClosed
<1>1. Init => ClosedInv
  BY BufferAssumption, EmptySeq DEF Init, ClosedInv, TypeOK, NoSendOnClosed
<1>2. ClosedInv /\ [Next]_vars => ClosedInv'
  <2> SUFFICES ASSUME ClosedInv, [Next]_vars PROVE ClosedInv'
    OBVIOUS
  <2>0. TypeOK /\ TypeOK'
    BY BrokerTypeStep DEF ClosedInv
  <2> USE <2>0 DEF ClosedInv, NoSendOnClosed, broker, client, Goto
  <2>1. CASE UNCHANGED vars
    BY <2>1 DEF vars
  <2>2. ASSUME NEW w \in Writers,
               \/ WriteRule(w) \/ ReadVersion(w) \/ VersionFails(w)
               \/ BroadcastLock(w) \/ BroadcastUnlock(w)
        PROVE  ClosedInv'
    BY <2>2
    DEF WriteRule, ReadVersion, VersionFails, BroadcastLock, BroadcastUnlock, TypeOK
  <2>3. ASSUME NEW w \in Writers, NEW c \in Clients, Send(w, c) PROVE ClosedInv'
    BY <2>3 DEF Send, TypeOK
  <2>4. ASSUME NEW c \in Clients, Subscribe(c) \/ Leave(c) \/ Deliver(c) PROVE ClosedInv'
    BY <2>4 DEF Subscribe, Leave, Deliver, TypeOK
  <2>5. ASSUME NEW c \in Clients, Unsubscribe(c) PROVE ClosedInv'
    BY <2>5 DEF Unsubscribe, Readers, TypeOK
  <2> QED BY <2>1, <2>2, <2>3, <2>4, <2>5 DEF Next, Broadcasting
<1>3. ClosedInv => NoSendOnClosed
  BY DEF ClosedInv
<1> QED BY <1>1, <1>2, <1>3, PTL DEF Spec

-----------------------------------------------------------------------------
(* A subscriber that has not polled since the last write has an event      *)
(* waiting, or a writer that has yet to get to it; or one fell silent.     *)
Coming(c) ==
  \/ fetched[c] = version
  \/ chan[c] # <<>>
  \/ \E w \in Writers : pc[w] \in {"read", "lock", "silent"} \/ (pc[w] = "send" /\ c \in todo[w])

NewsInv == TypeOK /\ \A c \in subs : since[c] < version => Coming(c)

(* An event that was dropped was not needed, unless a handler that wrote a *)
(* rule could not read the version and sent no event at all.               *)
THEOREM DropsAreHarmlessHolds == Spec => []DropsAreHarmless
<1>1. Init => NewsInv
  BY BufferAssumption, EmptySeq DEF Init, NewsInv, TypeOK
<1>2. NewsInv /\ [Next]_vars => NewsInv'
  <2> SUFFICES ASSUME NewsInv, [Next]_vars PROVE NewsInv'
    OBVIOUS
  <2>0. TypeOK /\ TypeOK'
    BY BrokerTypeStep DEF NewsInv
  <2> USE <2>0 DEF NewsInv, Coming, broker, client, Goto
  <2>1. CASE UNCHANGED vars
    BY <2>1 DEF vars
  <2>2. ASSUME NEW w \in Writers, WriteRule(w) PROVE NewsInv'
    <3>1. pc'[w] = "read"
      BY <2>2 DEF WriteRule, TypeOK
    <3> QED BY <3>1
  <2>3. ASSUME NEW w \in Writers, ReadVersion(w) PROVE NewsInv'
    <3>1. pc'[w] = "lock"
      BY <2>3 DEF ReadVersion, TypeOK
    <3> QED BY <3>1
  <2>10. ASSUME NEW w \in Writers, VersionFails(w) PROVE NewsInv'
    <3>1. pc'[w] = "silent"
      BY <2>10 DEF VersionFails, TypeOK
    <3> QED BY <3>1
  <2>4. ASSUME NEW w \in Writers, BroadcastLock(w) PROVE NewsInv'
    <3>1. pc'[w] = "send" /\ todo'[w] = subs /\ subs' = subs
      BY <2>4 DEF BroadcastLock, TypeOK
    <3> QED BY <3>1
  <2>5. ASSUME NEW w \in Writers, BroadcastUnlock(w) PROVE NewsInv'
    BY <2>5 DEF BroadcastUnlock, TypeOK
  <2>6. ASSUME NEW w \in Writers, NEW c \in Clients, Send(w, c) PROVE NewsInv'
    <3>1. chan'[c] # <<>>
      <4>1. CASE Len(chan[c]) < Buffer
        <5>1. chan'[c] = Append(chan[c], news[w]) /\ chan[c] \in Seq(Nat) /\ news[w] \in Nat
          BY <2>6, <4>1 DEF Send, TypeOK
        <5>2. Len(chan'[c]) = Len(chan[c]) + 1 /\ Len(chan[c]) \in Nat
          BY <5>1
        <5> QED BY <5>2, EmptySeq
      <4>2. CASE ~(Len(chan[c]) < Buffer)
        <5>1. chan'[c] = chan[c] /\ chan[c] \in Seq(Nat)
          BY <2>6, <4>2 DEF Send, TypeOK
        <5>2. Len(chan[c]) # 0
          BY <4>2, BufferAssumption
        <5> QED BY <5>1, <5>2, EmptySeq
      <4> QED BY <4>1, <4>2
    <3>2. \A d \in Clients \ {c} : chan'[d] = chan[d]
      BY <2>6 DEF Send, TypeOK
    <3>3. /\ UNCHANGED <<version, pc, subs, since, fetched>>
          /\ \A v \in Writers : todo[v] \ {c} \subseteq todo'[v]
      BY <2>6 DEF Send, TypeOK
    <3> QED BY <3>1, <3>2, <3>3 DEF TypeOK
  <2>7. ASSUME NEW c \in Clients, Subscribe(c) PROVE NewsInv'
    BY <2>7 DEF Subscribe, TypeOK
  <2>8. ASSUME NEW c \in Clients, Leave(c) \/ Unsubscribe(c) PROVE NewsInv'
    BY <2>8 DEF Leave, Unsubscribe, TypeOK
  <2>9. ASSUME NEW c \in Clients, Deliver(c) PROVE NewsInv'
    BY <2>9 DEF Deliver, TypeOK
  <2> QED BY <2>1, <2>2, <2>3, <2>4, <2>5, <2>6, <2>7, <2>8, <2>9, <2>10
  DEF Next, Broadcasting
<1>3. NewsInv => DropsAreHarmless
  BY DEF NewsInv, Coming, DropsAreHarmless
<1> QED BY <1>1, <1>2, <1>3, PTL DEF Spec

-----------------------------------------------------------------------------
(* The policy engine.                                                      *)

LEMMA LeastFacts ==
  ASSUME NEW k \in Nat, NEW n \in Nat
  PROVE  Policy!Least(k, n) \in Nat /\ Policy!Least(k, n) <= k /\ Policy!Least(k, n) <= n
         /\ (Policy!Least(k, n) = k \/ Policy!Least(k, n) = n)
BY DEF Policy!Least

(* What a process knows of the time it has been running.                   *)
Uptime ==
  /\ grace => up >= pTimer
  /\ grace /\ pPending => up >= TickInterval + pTimer \/ up >= Policy!Grace
  /\ ~grace => up >= TickInterval + pTimer
  /\ ~grace /\ (pPending \/ pPc # "select") => up >= Policy!Grace
  /\ grace => pPc = "select"

(* A stamp in memory is as old as the policy's last, or lost in a restart  *)
(* since when no more time has passed than since that last stamp.          *)
Stamped ==
  \A p \in Policies : \/ pAge[p] <= pSince[p]
                      \/ Policy!Least(Cooldown[p], up) <= pSince[p]

PolicyInv == Policy!TypeOK /\ Uptime /\ Stamped

LEMMA PolicyInit == ASSUME Policy!ConstantsOK PROVE Policy!Init => PolicyInv
<1> SUFFICES ASSUME Policy!Init PROVE PolicyInv
  OBVIOUS
<1>1. Policy!TypeOK
  <2>1. /\ stored \subseteq Policies /\ enabled \subseteq stored /\ met \subseteq Policies
        /\ pTodo \subseteq Policies /\ cur \in SUBSET Policies
    BY DEF Policy!Init
  <2>2. pPending \in BOOLEAN /\ grace \in BOOLEAN
    BY Zenon DEF Policy!Init
  <2>3. /\ pTimer \in 0 .. TickInterval - 1 /\ boots \in 0 .. MaxBoots
        /\ pPc \in {"select", "list", "evaluate", "check", "execute", "push"}
    BY DEF Policy!ConstantsOK, Policy!Init
  <2>4. pAge \in [Policies -> Nat] /\ pSince \in [Policies -> Nat] /\ up \in Nat
    BY DEF Policy!ConstantsOK, Policy!Init
  <2> QED BY <2>1, <2>2, <2>3, <2>4 DEF Policy!TypeOK
<1>2. Uptime
  BY DEF Policy!Init, Uptime
<1>3. Stamped
  <2>1. \A p \in Policies : pAge[p] = pSince[p] /\ pAge[p] \in Nat
    BY DEF Policy!ConstantsOK, Policy!Init
  <2> QED BY <2>1 DEF Stamped
<1> QED BY <1>1, <1>2, <1>3 DEF PolicyInv

LEMMA OlderFacts ==
  ASSUME Policy!ConstantsOK, NEW t \in [Policies -> Nat]
  PROVE  /\ Policy!Older(t) \in [Policies -> Nat]
         /\ \A p \in Policies : Policy!Older(t)[p] = Policy!Least(t[p] + 1, Cooldown[p])
BY DEF Policy!ConstantsOK, Policy!Older, Policy!Least

LEMMA ElapseStep == ASSUME Policy!ConstantsOK PROVE PolicyInv /\ Policy!Elapse => PolicyInv'
<1> SUFFICES ASSUME PolicyInv, Policy!Elapse PROVE PolicyInv'
  OBVIOUS
<1> USE DEF Policy!ConstantsOK, PolicyInv
<1>1. Policy!TypeOK'
  <2>0. pTimer' \in 0 .. TickInterval - 1
    BY DEF Policy!Elapse, Policy!TypeOK
  <2>1. pPending' \in BOOLEAN
    <3>1. pPending \in BOOLEAN /\ (pPending' = pPending \/ pPending' = TRUE)
      BY Zenon DEF Policy!Elapse, Policy!TypeOK
    <3> QED BY Zenon, <3>1
  <2>2. pAge' \in [Policies -> Nat] /\ pSince' \in [Policies -> Nat]
    BY OlderFacts DEF Policy!Elapse, Policy!TypeOK
  <2>3. up' \in Nat
    BY DEF Policy!Elapse, Policy!TypeOK, Policy!Least, Policy!Grace
  <2> QED BY <2>0, <2>1, <2>2, <2>3
  DEF Policy!Elapse, Policy!TypeOK, Policy!table, Policy!loop
<1>2. Uptime'
  <2>1. UNCHANGED <<grace, pPc>> /\ up' = Policy!Least(up + 1, Policy!Grace) /\ up \in Nat
    BY DEF Policy!Elapse, Policy!TypeOK, Policy!loop
  <2>2. pTimer \in 0 .. TickInterval - 1 /\ TickInterval \in Nat \ {0}
    BY DEF Policy!TypeOK
  <2>3. CASE pTimer + 1 < TickInterval
    <3>1. pTimer' = pTimer + 1 /\ UNCHANGED pPending
      BY <2>3 DEF Policy!Elapse
    <3> QED BY <2>1, <2>2, <3>1 DEF Uptime, Policy!Grace, Policy!Least
  <2>4. CASE ~(pTimer + 1 < TickInterval)
    <3>1. pTimer' = 0 /\ pTimer = TickInterval - 1
      BY <2>2, <2>4 DEF Policy!Elapse
    <3> QED BY <2>1, <2>2, <3>1 DEF Uptime, Policy!Grace, Policy!Least
  <2> QED BY <2>3, <2>4
<1>3. Stamped'
  <2> SUFFICES ASSUME NEW p \in Policies
               PROVE  pAge'[p] <= pSince'[p] \/ Policy!Least(Cooldown[p], up') <= pSince'[p]
    BY DEF Stamped, Policy!Elapse
  <2>1. /\ pAge'[p] = Policy!Least(pAge[p] + 1, Cooldown[p])
        /\ pSince'[p] = Policy!Least(pSince[p] + 1, Cooldown[p])
        /\ up' = Policy!Least(up + 1, Policy!Grace)
    BY OlderFacts DEF Policy!Elapse, Policy!TypeOK
  <2>2. pAge[p] \in Nat /\ pSince[p] \in Nat /\ up \in Nat /\ Cooldown[p] \in Nat
    BY DEF Policy!TypeOK
  <2>3. pAge[p] <= pSince[p] \/ Policy!Least(Cooldown[p], up) <= pSince[p]
    BY DEF Stamped
  <2> QED BY <2>1, <2>2, <2>3 DEF Policy!Least, Policy!Grace
<1> QED BY <1>1, <1>2, <1>3

LEMMA FireStep ==
  ASSUME Policy!ConstantsOK, PolicyInv, NEW p \in Policies, Policy!Fire(p)
  PROVE  PolicyInv' /\ pSince[p] >= Policy!Least(Cooldown[p], Policy!Grace)
<1> USE DEF Policy!ConstantsOK, PolicyInv
<1>1. pPc = "check" /\ ~grace /\ up >= Policy!Grace
  BY DEF Policy!Fire, Uptime, Policy!TypeOK
<1>2. pSince[p] >= Policy!Least(Cooldown[p], Policy!Grace)
  <2>1. pAge[p] \in Nat /\ pSince[p] \in Nat /\ up \in Nat /\ Cooldown[p] \in Nat
    BY DEF Policy!TypeOK
  <2>2. pAge[p] >= Cooldown[p]
    BY DEF Policy!Fire
  <2>3. pAge[p] <= pSince[p] \/ Policy!Least(Cooldown[p], up) <= pSince[p]
    BY DEF Stamped
  <2> QED BY <1>1, <2>1, <2>2, <2>3 DEF Policy!Least, Policy!Grace
<1>3. pPc' \in {"evaluate", "execute", "push"} /\ cur' \in SUBSET Policies
  BY DEF Policy!Fire, Policy!Turn
<1>4. Policy!TypeOK'
  BY <1>3 DEF Policy!Fire, Policy!TypeOK, Policy!table
<1>5. Uptime'
  BY <1>1 DEF Policy!Fire, Uptime, Policy!TypeOK
<1>6. Stamped'
  <2>1. /\ pAge'[p] = 0 /\ pSince'[p] = 0 /\ up' = up
        /\ \A q \in Policies \ {p} : pAge'[q] = pAge[q] /\ pSince'[q] = pSince[q]
    BY DEF Policy!Fire, Policy!TypeOK
  <2> QED BY <2>1 DEF Stamped
<1> QED BY <1>2, <1>4, <1>5, <1>6

LEMMA PolicyStep ==
  ASSUME Policy!ConstantsOK PROVE PolicyInv /\ [Policy!Next]_(Policy!vars) => PolicyInv'
<1> SUFFICES ASSUME PolicyInv, [Policy!Next]_(Policy!vars) PROVE PolicyInv'
  OBVIOUS
<1> USE DEF Policy!ConstantsOK, PolicyInv
<1>1. CASE UNCHANGED Policy!vars
  BY <1>1 DEF Policy!vars, Policy!TypeOK, Uptime, Stamped
<1>2. CASE Policy!Elapse
  BY <1>2, ElapseStep
<1>3. ASSUME NEW p \in Policies, Policy!Fire(p) PROVE PolicyInv'
  BY <1>3, FireStep
<1>4. CASE Policy!Restart
  <2>1. Policy!TypeOK'
    <3>1. pPending' \in BOOLEAN /\ grace' \in BOOLEAN
      BY Zenon, <1>4 DEF Policy!Restart
    <3>2. /\ pTimer' \in 0 .. TickInterval - 1 /\ boots' \in 0 .. MaxBoots
          /\ pPc' \in {"select", "list", "evaluate", "check", "execute", "push"}
      BY <1>4 DEF Policy!Restart, Policy!TypeOK
    <3>3. /\ pAge' \in [Policies -> Nat] /\ pSince' \in [Policies -> Nat] /\ up' \in Nat
          /\ pTodo' \subseteq Policies /\ cur' \in SUBSET Policies
      BY <1>4 DEF Policy!Restart, Policy!TypeOK
    <3>4. stored' \subseteq Policies /\ enabled' \subseteq stored' /\ met' \subseteq Policies
      BY <1>4 DEF Policy!Restart, Policy!TypeOK, Policy!table
    <3> QED BY <3>1, <3>2, <3>3, <3>4 DEF Policy!TypeOK
  <2>2. Uptime'
    BY <1>4 DEF Policy!Restart, Uptime, Policy!Grace, Policy!Least
  <2>3. \A p \in Policies : pSince[p] \in Nat /\ Cooldown[p] \in Nat
    BY DEF Policy!TypeOK
  <2>4. Stamped'
    BY <1>4, <2>3 DEF Policy!Restart, Stamped, Policy!Least
  <2> QED BY <2>1, <2>2, <2>4
<1>5. ASSUME UNCHANGED <<pAge, pSince, up>>, Policy!TypeOK', Uptime' PROVE PolicyInv'
  BY <1>5 DEF Stamped
<1>6. ASSUME NEW p \in Policies, Policy!Operator(p) PROVE PolicyInv'
  <2>1. UNCHANGED <<pAge, pSince, up, pTimer, pPending, grace, pPc>>
    BY <1>6
    DEF Policy!Operator, Policy!MetricMoves, Policy!Create, Policy!SetEnabled,
        Policy!Delete, Policy!clock, Policy!loop
  <2>2. Policy!TypeOK'
    BY <1>6
    DEF Policy!Operator, Policy!MetricMoves, Policy!Create, Policy!SetEnabled,
        Policy!Delete, Policy!clock, Policy!loop, Policy!table, Policy!TypeOK
  <2> QED BY <1>5, <2>1, <2>2 DEF Uptime
<1>7. CASE Policy!TakeTick
  <2>1. Policy!TypeOK'
    BY <1>7 DEF Policy!TakeTick, Policy!TypeOK, Policy!table
  <2>2. Uptime'
    BY <1>7 DEF Policy!TakeTick, Uptime, Policy!TypeOK, Policy!Grace, Policy!Least
  <2>3. UNCHANGED <<pAge, pSince, up>>
    BY <1>7 DEF Policy!TakeTick
  <2> QED BY <1>5, <2>1, <2>2, <2>3
<1>8. ASSUME \/ Policy!ListEnabled \/ Policy!TickDone
             \/ \E p \in Policies : \/ Policy!Evaluate(p) \/ Policy!CoolingDown(p)
                                    \/ Policy!LoadRules(p) \/ Policy!PushRules(p)
      PROVE  PolicyInv'
  <2>1. UNCHANGED <<pAge, pSince, up, pTimer, pPending, grace>> /\ pPc # "select"
    BY <1>8
    DEF Policy!ListEnabled, Policy!TickDone, Policy!Evaluate, Policy!CoolingDown,
        Policy!LoadRules, Policy!PushRules, Policy!clock
  <2>2. Policy!TypeOK'
    BY <1>8
    DEF Policy!ListEnabled, Policy!TickDone, Policy!Evaluate, Policy!CoolingDown,
        Policy!LoadRules, Policy!PushRules, Policy!Turn, Policy!clock, Policy!table,
        Policy!TypeOK
  <2> QED BY <1>5, <2>1, <2>2 DEF Uptime
<1> QED BY <1>1, <1>2, <1>3, <1>4, <1>6, <1>7, <1>8 DEF Policy!Next, Policy!Handle

(* The types of the engine's state and of the table it reads.              *)
THEOREM PolicyTypeCorrect == ASSUME Policy!ConstantsOK PROVE Policy!Spec => []Policy!TypeOK
<1>1. PolicyInv => Policy!TypeOK
  BY DEF PolicyInv
<1> QED BY PolicyInit, PolicyStep, <1>1, PTL DEF Policy!Spec

(* No policy fires again before its cooldown, or the two intervals of the  *)
(* grace if the cooldown is longer, have passed: for any number of         *)
(* policies and restarts, and whatever fails.                              *)
THEOREM CooldownHeldHolds == ASSUME Policy!ConstantsOK PROVE Policy!Spec => CooldownHeld
<1>1. PolicyInv /\ [Policy!Next]_(Policy!vars)
        => [\A p \in Policies :
              Policy!Fire(p) => pSince[p] >= Policy!Least(Cooldown[p], Policy!Grace)]_(Policy!vars)
  BY FireStep
<1> QED BY PolicyInit, PolicyStep, <1>1, PTL
DEF Policy!Spec, CooldownHeld, Policy!CooldownHeld

-----------------------------------------------------------------------------
(* The watcher of a phase.                                                 *)

(* While the condition counts as held it was met at a reading, and none    *)
(* since then was unmet or failed: the window is never longer than the     *)
(* time since the last such reading.                                       *)
HeldUnbroken == wHeld => read >= 1 /\ wSince <= broken

WatchInv == Watch!TypeOK /\ HeldUnbroken /\ Watch!AdvanceIsEarned

LEMMA WatchTypeStep ==
  ASSUME Watch!ConstantsOK, Watch!TypeOK, [Watch!Next]_(Watch!vars) PROVE Watch!TypeOK'
<1> USE DEF Watch!ConstantsOK, Watch!AtMost
<1>1. CASE Watch!Elapse
  <2>1. wTimer' \in 0 .. WatchInterval - 1
    BY <1>1 DEF Watch!Elapse, Watch!TypeOK
  <2>2. wPending' \in BOOLEAN
    <3>1. wPending \in BOOLEAN /\ (wPending' = wPending \/ wPending' = TRUE)
      BY Zenon, <1>1 DEF Watch!Elapse, Watch!TypeOK
    <3> QED BY Zenon, <3>1
  <2>3. wSince' \in 0 .. Window /\ broken' \in 0 .. Window
    BY <1>1 DEF Watch!Elapse, Watch!TypeOK
  <2> QED BY <1>1, <2>1, <2>2, <2>3 DEF Watch!Elapse, Watch!TypeOK
<1>2. CASE Watch!MetricMoves \/ Watch!Cancel \/ UNCHANGED Watch!vars
  BY <1>2
  DEF Watch!MetricMoves, Watch!Cancel, Watch!ticker, Watch!memory, Watch!vars,
      Watch!TypeOK
<1>3. CASE Watch!TakeDone \/ Watch!TakeTick \/ Watch!QueryInstant
  BY <1>3
  DEF Watch!TakeDone, Watch!TakeTick, Watch!QueryInstant, Watch!ticker, Watch!memory,
      Watch!TypeOK
<1>4. ASSUME Watch!QueryFails \/ Watch!Unmet \/ Watch!FirstMet \/ Watch!StillMet
      PROVE  Watch!TypeOK'
  <2>1. UNCHANGED <<metric, wPending, wTimer, cancelled>> /\ wHeld' \in {wHeld, TRUE, FALSE}
    BY Zenon, <1>4 DEF Watch!QueryFails, Watch!Unmet, Watch!FirstMet, Watch!StillMet,
                       Watch!Forget, Watch!ticker
  <2>2. /\ metric' \in BOOLEAN /\ wPending' \in BOOLEAN /\ wHeld' \in BOOLEAN
        /\ cancelled' \in BOOLEAN
    BY Zenon, <2>1 DEF Watch!TypeOK
  <2>3. /\ wPc' \in {"select", "query", "met", "unmet", "advance", "exit"}
        /\ wSince' \in 0 .. Window /\ broken' \in 0 .. Window /\ read' \in 0 .. 2
    BY <1>4 DEF Watch!QueryFails, Watch!Unmet, Watch!FirstMet, Watch!StillMet,
                Watch!Forget, Watch!TypeOK
  <2> QED BY <2>1, <2>2, <2>3 DEF Watch!TypeOK
<1> QED BY <1>1, <1>2, <1>3, <1>4 DEF Watch!Next, Watch!Loop

LEMMA WatchStep ==
  ASSUME Watch!ConstantsOK, WatchInv, [Watch!Next]_(Watch!vars) PROVE WatchInv'
<1> USE DEF WatchInv
<1>1. Watch!TypeOK'
  BY WatchTypeStep
<1>2. HeldUnbroken' /\ Watch!AdvanceIsEarned'
  <2> USE DEF HeldUnbroken, Watch!AdvanceIsEarned, Watch!AtMost, Watch!TypeOK, Watch!ConstantsOK
  <2>1. CASE Watch!Elapse
    BY <2>1 DEF Watch!Elapse
  <2>2. CASE Watch!MetricMoves \/ Watch!Cancel \/ UNCHANGED Watch!vars
    BY <2>2 DEF Watch!MetricMoves, Watch!Cancel, Watch!ticker, Watch!memory, Watch!vars
  <2>3. CASE Watch!TakeDone \/ Watch!TakeTick \/ Watch!QueryInstant
    BY <2>3
    DEF Watch!TakeDone, Watch!TakeTick, Watch!QueryInstant, Watch!ticker, Watch!memory
  <2>4. CASE Watch!QueryFails \/ Watch!Unmet
    BY <2>4 DEF Watch!QueryFails, Watch!Unmet, Watch!Forget
  <2>5. CASE Watch!FirstMet
    BY <2>5 DEF Watch!FirstMet
  <2>6. CASE Watch!StillMet
    BY <2>6 DEF Watch!StillMet
  <2> QED BY <2>1, <2>2, <2>3, <2>4, <2>5, <2>6 DEF Watch!Next, Watch!Loop
<1> QED BY <1>1, <1>2

(* A watcher advances its phase only after the condition was met at two    *)
(* readings or more over a whole window in which no reading was unmet and  *)
(* none failed, however late ticks come: for any window and interval.      *)
THEOREM AdvanceIsEarnedHolds ==
  ASSUME Watch!ConstantsOK PROVE Watch!Spec => []AdvanceIsEarned
<1>1. ASSUME Watch!Init PROVE WatchInv
  <2>1. /\ metric \in BOOLEAN /\ wPending \in BOOLEAN /\ wHeld \in BOOLEAN
        /\ cancelled \in BOOLEAN
    BY Zenon, <1>1 DEF Watch!Init
  <2>2. ~wHeld /\ wPc = "select" /\ wTimer = 0 /\ wSince = 0 /\ broken = 0 /\ read = 0
    BY <1>1 DEF Watch!Init
  <2> QED BY <2>1, <2>2
  DEF Watch!ConstantsOK, WatchInv, Watch!TypeOK, HeldUnbroken, Watch!AdvanceIsEarned
<1>2. WatchInv /\ [Watch!Next]_(Watch!vars) => WatchInv'
  BY WatchStep
<1>3. WatchInv => AdvanceIsEarned
  BY DEF WatchInv, AdvanceIsEarned
<1> QED BY <1>1, <1>2, <1>3, PTL DEF Watch!Spec

-----------------------------------------------------------------------------
(* The servers' processes.                                                 *)

LEMMA ExitFacts ==
  ASSUME Process!ConstantsOK, Process!TypeOK, NEW s \in Servers, NEW l \in {"off", "stopped"},
         Process!Exit(s, l), failures' \in 0 .. MaxFailures
  PROVE  /\ Process!TypeOK' /\ UNCHANGED <<applied, committed, m>>
         /\ wrote' = wrote \ {s} /\ sPc' = [sPc EXCEPT ![s] = l]
<1>1. /\ UNCHANGED <<applied, committed, m, by>> /\ wrote' = wrote \ {s}
      /\ sPc' = [sPc EXCEPT ![s] = l]
  BY DEF Process!Exit, Process!Goto, Process!schema
<1>2. sConn' \in [Requests -> {"new", "open", "answered", "cut"}]
  BY DEF Process!Exit, Process!TypeOK
<1> QED BY <1>1, <1>2 DEF Process!TypeOK

(* The steps by which a process ends, with what it had not committed.      *)
Ends(s) ==
  \/ Process!ApplyFails(s) \/ Process!RecordFails(s) \/ Process!MigrationFails(s)
  \/ Process!Leave(s) \/ Process!DrainTimesOut(s) \/ Process!Crash(s)
  \/ Process!Signal(s) /\ sPc[s] # "serve"

LEMMA EndsFacts ==
  ASSUME Process!ConstantsOK, Process!TypeOK, NEW s \in Servers, Ends(s)
  PROVE  \E l \in {"off", "stopped"} : Process!Exit(s, l) /\ failures' \in 0 .. MaxFailures
<1> USE DEF Process!TypeOK, Process!ConstantsOK, Process!Failure
<1>1. CASE Process!ApplyFails(s)
  BY <1>1 DEF Process!ApplyFails
<1>2. CASE Process!RecordFails(s)
  BY <1>2 DEF Process!RecordFails
<1>3. CASE Process!MigrationFails(s)
  BY <1>3 DEF Process!MigrationFails
<1>4. CASE Process!Leave(s) \/ Process!DrainTimesOut(s)
  BY <1>4 DEF Process!Leave, Process!DrainTimesOut
<1>5. CASE Process!Crash(s)
  BY <1>5 DEF Process!Crash
<1>6. CASE Process!Signal(s) /\ sPc[s] # "serve"
  BY <1>6 DEF Process!Signal
<1> QED BY <1>1, <1>2, <1>3, <1>4, <1>5, <1>6 DEF Ends

(* What is applied is the first k migrations, each committed once; no      *)
(* server is further than the next one, and the transaction that has       *)
(* recorded it is the only one.                                            *)
ServerAt(k, s) ==
  /\ m[s] <= k + 1
  /\ sPc[s] \in {"exec", "record", "commit"} => m[s] <= Last
  /\ sPc[s] \in {"recover", "serve", "drain"} => m[s] = Last + 1
  /\ s \in wrote <=> sPc[s] = "commit"
  /\ s \in wrote => m[s] = k + 1 /\ wrote = {s}

MigratedTo(k) ==
  /\ applied = 1 .. k
  /\ \A v \in 1 .. Last : committed[v] = IF v <= k THEN 1 ELSE 0
  /\ \A s \in Servers : ServerAt(k, s)

ProcessInv == Process!TypeOK /\ \E k \in 0 .. Last : MigratedTo(k)

LEMMA CommitFacts ==
  ASSUME Process!ConstantsOK, Process!TypeOK, NEW k \in 0 .. Last, MigratedTo(k),
         NEW s \in Servers, sPc[s] = "commit", Process!Commit(s),
         Process!CommitMigration(s) \/ Process!CommitUnknown(s)
  PROVE  Process!TypeOK' /\ k + 1 \in 0 .. Last /\ MigratedTo(k + 1)'
<1> USE DEF Process!TypeOK, Process!ConstantsOK
<1>1. m[s] = k + 1 /\ wrote = {s} /\ k + 1 \in 1 .. Last
  BY DEF MigratedTo, ServerAt
<1>2. /\ applied' = applied \cup {k + 1} /\ wrote' = {}
      /\ committed' = [committed EXCEPT ![k + 1] = @ + 1]
  BY <1>1 DEF Process!Commit
<1>3. applied' = 1 .. k + 1
  BY <1>1, <1>2 DEF MigratedTo
<1>4. \A v \in 1 .. Last : committed'[v] = IF v <= k + 1 THEN 1 ELSE 0
  BY <1>1, <1>2 DEF MigratedTo
<1>5. /\ sPc' \in {[sPc EXCEPT ![s] = "check"], [sPc EXCEPT ![s] = "off"]}
      /\ m' \in {m, [m EXCEPT ![s] = @ + 1]}
      /\ UNCHANGED <<sConn, by>> /\ failures' \in 0 .. MaxFailures
  BY DEF Process!CommitMigration, Process!CommitUnknown, Process!Goto, Process!request,
         Process!Failure
<1>6. m' \in [Servers -> 1 .. Last + 1] /\ \A t \in Servers : m'[t] <= k + 2
  BY <1>1, <1>5 DEF MigratedTo, ServerAt
<1>7. /\ sPc'[s] \in {"check", "off"} /\ \A t \in Servers \ {s} : sPc'[t] = sPc[t] /\ m'[t] = m[t]
      /\ \A t \in Servers \ {s} : sPc[t] # "commit"
  BY <1>1, <1>5 DEF MigratedTo, ServerAt
<1>8. Process!TypeOK'
  <2>1. applied' \subseteq 1 .. Last /\ committed' \in [1 .. Last -> Nat] /\ wrote' \subseteq Servers
    BY <1>1, <1>2, <1>3
  <2> QED BY <1>5, <1>6, <2>1
<1>9. MigratedTo(k + 1)'
  <2>1. ASSUME NEW t \in Servers PROVE ServerAt(k + 1, t)'
    <3>1. sPc'[t] # "commit" /\ m'[t] <= k + 2 /\ wrote' = {}
      BY <1>2, <1>6, <1>7
    <3>2. /\ sPc'[t] \in {"exec", "record", "commit"} => m'[t] <= Last
          /\ sPc'[t] \in {"recover", "serve", "drain"} => m'[t] = Last + 1
      BY <1>7 DEF MigratedTo, ServerAt
    <3> QED BY <3>1, <3>2 DEF ServerAt
  <2> QED BY <1>3, <1>4, <2>1 DEF MigratedTo
<1>10. k + 1 \in 0 .. Last
  BY <1>1
<1> HIDE DEF Process!TypeOK
<1> QED BY <1>8, <1>9, <1>10

(* A step of one server that writes nothing.                               *)
LEMMA LocalStep ==
  ASSUME NEW k, NEW s \in Servers, MigratedTo(k), UNCHANGED <<applied, committed, wrote>>,
         \A t \in Servers \ {s} : sPc'[t] = sPc[t] /\ m'[t] = m[t],
         ServerAt(k, s)'
  PROVE  MigratedTo(k)'
<1>1. ASSUME NEW t \in Servers \ {s} PROVE ServerAt(k, t)'
  BY DEF MigratedTo, ServerAt
<1> QED BY <1>1 DEF MigratedTo

LEMMA ProcessStep ==
  ASSUME Process!ConstantsOK, ProcessInv, [Process!Next]_(Process!vars) PROVE ProcessInv'
<1>0. PICK k \in 0 .. Last : MigratedTo(k)
  BY DEF ProcessInv
<1> SUFFICES Process!TypeOK' /\ \E j \in 0 .. Last : MigratedTo(j)'
  BY DEF ProcessInv
<1> USE DEF Process!ConstantsOK
<1>t. Process!TypeOK
  BY DEF ProcessInv
<1>1. ASSUME UNCHANGED <<applied, committed, sPc, m, wrote>> PROVE MigratedTo(k)'
  BY <1>0, <1>1 DEF MigratedTo, ServerAt
<1>2. ASSUME NEW s \in Servers, Ends(s) PROVE Process!TypeOK' /\ MigratedTo(k)'
  <2>1. PICK l \in {"off", "stopped"} : Process!Exit(s, l) /\ failures' \in 0 .. MaxFailures
    BY <1>2, <1>t, EndsFacts
  <2>2. /\ Process!TypeOK' /\ UNCHANGED <<applied, committed, m>>
        /\ wrote' = wrote \ {s} /\ sPc' = [sPc EXCEPT ![s] = l]
    BY <1>t, <2>1, ExitFacts
  <2>3. ASSUME NEW t \in Servers PROVE ServerAt(k, t)'
    BY <1>0, <1>t, <2>2 DEF MigratedTo, ServerAt, Process!TypeOK
  <2> QED BY <1>0, <2>2, <2>3 DEF MigratedTo
<1>3. ASSUME NEW s \in Servers, Process!CommitMigration(s) \/ Process!CommitUnknown(s)
      PROVE  Process!TypeOK' /\ \E j \in 0 .. Last : MigratedTo(j)'
  <2>1. sPc[s] = "commit" /\ Process!Commit(s)
    BY <1>3 DEF Process!CommitMigration, Process!CommitUnknown
  <2> QED BY <1>0, <1>3, <1>t, <2>1, CommitFacts
<1>4. ASSUME NEW s \in Servers,
             \/ Process!StartProcess(s) \/ Process!CheckMigration(s) \/ Process!Apply(s)
             \/ Process!Migrated(s) \/ Process!Listen(s)
      PROVE  Process!TypeOK' /\ MigratedTo(k)'
  <2>1. /\ UNCHANGED <<applied, committed, wrote, sConn, by, failures>>
        /\ \/ sPc[s] = "off" /\ sPc' = [sPc EXCEPT ![s] = "check"] /\ m' = [m EXCEPT ![s] = 1]
           \/ /\ sPc[s] = "check" /\ m[s] <= Last /\ m[s] \in applied
              /\ UNCHANGED sPc /\ m' = [m EXCEPT ![s] = @ + 1]
           \/ /\ sPc[s] = "check" /\ m[s] <= Last
              /\ sPc' = [sPc EXCEPT ![s] = "exec"] /\ UNCHANGED m
           \/ sPc[s] = "exec" /\ sPc' = [sPc EXCEPT ![s] = "record"] /\ UNCHANGED m
           \/ /\ sPc[s] = "check" /\ m[s] = Last + 1
              /\ sPc' = [sPc EXCEPT ![s] = "recover"] /\ UNCHANGED m
           \/ sPc[s] = "recover" /\ sPc' = [sPc EXCEPT ![s] = "serve"] /\ UNCHANGED m
    BY <1>4
    DEF Process!StartProcess, Process!CheckMigration, Process!Apply, Process!Migrated,
        Process!Listen, Process!Goto, Process!schema, Process!request
  <2>2. Process!TypeOK'
    <3>1. m' \in [Servers -> 1 .. Last + 1]
      BY <1>t, <2>1 DEF Process!TypeOK
    <3>2. sPc' \in [Servers -> {"off", "check", "exec", "record", "commit", "recover",
                               "serve", "drain", "stopped"}]
      BY <1>t, <2>1 DEF Process!TypeOK
    <3> QED BY <1>t, <2>1, <3>1, <3>2 DEF Process!TypeOK
  <2>3. \A t \in Servers \ {s} : sPc'[t] = sPc[t] /\ m'[t] = m[t]
    BY <1>t, <2>1 DEF Process!TypeOK
  <2>4. ServerAt(k, s)'
    <3>1. applied = 1 .. k /\ ServerAt(k, s) /\ m[s] \in 1 .. Last + 1
      BY <1>0, <1>t DEF MigratedTo, Process!TypeOK
    <3> QED BY <1>t, <2>1, <3>1 DEF ServerAt, Process!TypeOK
  <2> QED BY <1>0, <2>1, <2>2, <2>3, <2>4, LocalStep
<1>5. ASSUME NEW s \in Servers, Process!Record(s) PROVE Process!TypeOK' /\ MigratedTo(k)'
  <2>1. /\ sPc[s] = "record" /\ sPc' = [sPc EXCEPT ![s] = "commit"] /\ wrote' = wrote \cup {s}
        /\ UNCHANGED <<applied, committed, m, sConn, by, failures>>
        /\ m[s] \notin applied /\ ~\E t \in wrote : m[t] = m[s]
    BY <1>5 DEF Process!Record, Process!Goto, Process!schema, Process!request
  <2>2. m[s] = k + 1
    BY <1>0, <1>t, <2>1 DEF MigratedTo, ServerAt, Process!TypeOK
  <2>3. wrote = {}
    BY <1>0, <1>t, <2>1, <2>2 DEF MigratedTo, ServerAt, Process!TypeOK
  <2>4. ASSUME NEW t \in Servers PROVE ServerAt(k, t)'
    BY <1>0, <1>t, <2>1, <2>2, <2>3 DEF MigratedTo, ServerAt, Process!TypeOK
  <2>5. Process!TypeOK'
    BY <1>t, <2>1 DEF Process!TypeOK
  <2> QED BY <1>0, <2>1, <2>4, <2>5 DEF MigratedTo
<1>6. ASSUME NEW s \in Servers, NEW r \in Requests, Process!Accept(s, r)
      PROVE  Process!TypeOK' /\ MigratedTo(k)'
  BY <1>1, <1>6, <1>t DEF Process!Accept, Process!schema, Process!server, Process!TypeOK
<1>7. ASSUME NEW r \in Requests, Process!Answer(r) PROVE Process!TypeOK' /\ MigratedTo(k)'
  BY <1>1, <1>7, <1>t DEF Process!Answer, Process!schema, Process!server, Process!TypeOK
<1>8. ASSUME NEW s \in Servers, Process!Signal(s), sPc[s] = "serve"
       PROVE  Process!TypeOK' /\ MigratedTo(k)'
  <2>1. /\ sPc' = [sPc EXCEPT ![s] = "drain"] /\ failures' \in 0 .. MaxFailures
        /\ UNCHANGED <<applied, committed, m, wrote, sConn, by>>
    BY <1>8, <1>t
    DEF Process!Signal, Process!Goto, Process!schema, Process!request, Process!Failure, Process!TypeOK
  <2>2. ServerAt(k, s)'
    BY <1>0, <1>8, <1>t, <2>1 DEF MigratedTo, ServerAt, Process!TypeOK
  <2>3. Process!TypeOK' /\ \A t \in Servers \ {s} : sPc'[t] = sPc[t] /\ m'[t] = m[t]
    BY <1>t, <2>1 DEF Process!TypeOK
  <2> QED BY <1>0, <2>1, <2>2, <2>3, LocalStep
<1>9. CASE UNCHANGED Process!vars
  BY <1>1, <1>9, <1>t DEF Process!vars, Process!TypeOK
<1> QED
  BY <1>2, <1>3, <1>4, <1>5, <1>6, <1>7, <1>8, <1>9
  DEF Process!Next, Process!Advance, Ends

LEMMA ProcessInit == ASSUME Process!ConstantsOK, Process!Init PROVE ProcessInv
<1>1. PICK k \in 0 .. Last : /\ applied = 1 .. k
                             /\ committed = [v \in 1 .. Last |-> IF v <= k THEN 1 ELSE 0]
  BY DEF Process!Init
<1>2. Process!TypeOK
  BY <1>1 DEF Process!Init, Process!TypeOK, Process!ConstantsOK
<1>3. MigratedTo(k)
  BY <1>1 DEF Process!Init, MigratedTo, ServerAt, Process!ConstantsOK
<1> QED BY <1>2, <1>3 DEF ProcessInv

(* The types of the schema, the processes and their connections.           *)
THEOREM ProcessTypeCorrect == ASSUME Process!ConstantsOK PROVE Process!Spec => []Process!TypeOK
<1>1. ProcessInv => Process!TypeOK
  BY DEF ProcessInv
<1> QED BY ProcessInit, ProcessStep, <1>1, PTL DEF Process!Spec

(* The schema is always a first part of the migrations, each applied once, *)
(* and a server that serves has the whole of it: for any number of servers *)
(* that migrate at once, crash, or lose the answer to a commit.            *)
THEOREM SchemaIsWholeHolds ==
  ASSUME Process!ConstantsOK PROVE Process!Spec => []SchemaIsWhole
<1>1. ASSUME ProcessInv PROVE SchemaIsWhole
  <2>1. PICK k \in 0 .. Last : MigratedTo(k)
    BY <1>1 DEF ProcessInv
  <2>3. Process!AppliedOnceInOrder
    <3>1. \A v \in 1 .. Last : committed[v] = IF v \in applied THEN 1 ELSE 0
      BY <2>1 DEF MigratedTo
    <3> QED BY <2>1, <3>1 DEF MigratedTo, Process!AppliedOnceInOrder
  <2>4. \A s \in Servers : sPc[s] \in {"serve", "drain"} => applied = 1 .. Last
    BY <1>1, <2>1
    DEF MigratedTo, ServerAt, ProcessInv, Process!TypeOK, Process!ConstantsOK
  <2> QED BY <2>3, <2>4 DEF SchemaIsWhole, Process!SchemaIsWhole
<1> QED BY ProcessInit, ProcessStep, <1>1, PTL DEF Process!Spec

=============================================================================
