------------------------ MODULE FaultDeliveryProofs ------------------------
(* Proofs about FaultDelivery, for every number of configs, instances and  *)
(* requests.                                                               *)
EXTENDS FaultDelivery, TLAPS

LEMMA TypeInit == Init => TypeOK
BY DEF Init, TypeOK, NoPoll, Reply, Polls, ConfigStatus

(* What assigning a reply leaves in poll.                                  *)
Becomes(s, l, v, F, n) ==
  /\ poll' \in [SDKs -> Polls] /\ \A t \in SDKs \ {s} : poll'[t] = poll[t]
  /\ poll'[s].at = l /\ poll'[s].version = v
  /\ poll'[s].faults = F /\ poll'[s].rules = n

LEMMA PollingFacts ==
  ASSUME TypeOK, NEW s \in SDKs,
         NEW l \in {"idle", "faults", "rules", "reply", "registering", "registered"},
         NEW v \in Nat, NEW F \in SUBSET Configs, NEW n \in Nat, Polling(s, Reply(l, v, F, n))
  PROVE  Becomes(s, l, v, F, n)
<1> DEFINE p == Reply(l, v, F, n)
<1>1. p \in Polls /\ p.at = l /\ p.version = v /\ p.faults = F /\ p.rules = n
  BY DEF Reply, Polls
<1> HIDE DEF p
<1>2. poll' = [poll EXCEPT ![s] = p] /\ poll \in [SDKs -> Polls]
  BY DEF Polling, TypeOK, p
<1>3. poll' \in [SDKs -> Polls] /\ poll'[s] = p /\ \A t \in SDKs \ {s} : poll'[t] = poll[t]
  BY <1>1, <1>2
<1> QED BY <1>1, <1>3 DEF Becomes

LEMMA PollFields ==
  ASSUME TypeOK, NEW s \in SDKs
  PROVE  /\ poll[s].version \in Nat /\ poll[s].faults \in SUBSET Configs /\ poll[s].rules \in Nat
         /\ Desired(s) \in SUBSET Configs /\ {} \in SUBSET Configs /\ version \in Nat /\ rules \in Nat
BY DEF TypeOK, Polls, Desired, ActiveOf, Of

(* The steps of instance s, by what they leave in its poll.                *)
LEMMA PollSteps ==
  ASSUME TypeOK, NEW s \in SDKs
  PROVE  /\ ReadVersion(s) => Becomes(s, "faults", version, {}, 0)
         /\ ReadRules(s) => Becomes(s, "reply", poll[s].version, poll[s].faults, rules)
         /\ Receive(s) \/ Lose(s) => Becomes(s, "idle", 0, {}, 0)
         /\ Register(s) => Becomes(s, "registering", 0, {}, 0)
         /\ ActiveFaultsForService(s) =>
              \E F \in SUBSET Configs :
                /\ blind' = IF F = Desired(s) THEN blind \ {s} ELSE blind \cup {s}
                /\ \/ poll[s].at = "faults" /\ Becomes(s, "rules", poll[s].version, F, 0)
                   \/ poll[s].at = "registering" /\ Becomes(s, "registered", 0, F, 0)
<1> USE PollFields, PollingFacts
<1>1. ReadVersion(s) => Becomes(s, "faults", version, {}, 0)
  BY DEF ReadVersion
<1>2. ReadRules(s) => Becomes(s, "reply", poll[s].version, poll[s].faults, rules)
  BY DEF ReadRules
<1>3. Receive(s) \/ Lose(s) => Becomes(s, "idle", 0, {}, 0)
  BY DEF Receive, Lose, NoPoll
<1>4. Register(s) => Becomes(s, "registering", 0, {}, 0)
  BY DEF Register
<1>5. ASSUME ActiveFaultsForService(s)
      PROVE  \E F \in SUBSET Configs :
                /\ blind' = IF F = Desired(s) THEN blind \ {s} ELSE blind \cup {s}
                /\ \/ poll[s].at = "faults" /\ Becomes(s, "rules", poll[s].version, F, 0)
                   \/ poll[s].at = "registering" /\ Becomes(s, "registered", 0, F, 0)
  <2>1. PICK F \in {Desired(s)} \cup (IF "list" \in Faults THEN {{}} ELSE {}) :
           /\ \/ poll[s].at = "faults" /\ Polling(s, Reply("rules", poll[s].version, F, 0))
              \/ poll[s].at = "registering" /\ Polling(s, Reply("registered", 0, F, 0))
           /\ blind' = IF F = Desired(s) THEN blind \ {s} ELSE blind \cup {s}
    BY <1>5 DEF ActiveFaultsForService
  <2>2. F \in SUBSET Configs
    OBVIOUS
  <2>3. \/ poll[s].at = "faults" /\ Becomes(s, "rules", poll[s].version, F, 0)
        \/ poll[s].at = "registering" /\ Becomes(s, "registered", 0, F, 0)
    BY <2>1, <2>2
  <2> QED BY <2>1, <2>2, <2>3
<1> QED BY <1>1, <1>2, <1>3, <1>4, <1>5

LEMMA TypeStep == TypeOK /\ [Next]_vars => TypeOK'
<1> SUFFICES ASSUME TypeOK, [Next]_vars PROVE TypeOK'
  OBVIOUS
<1> USE DEF TypeOK, rows, handlers, reaper, sdk, Goto, BumpVersion
<1>1. CASE UNCHANGED vars
  BY <1>1 DEF vars
<1>2. ASSUME NEW c \in Calls, FireGet(c) \/ CancelGet(c) \/ Disconnect(c) PROVE TypeOK'
  BY <1>2 DEF FireGet, CancelGet, Disconnect
<1>3. ASSUME NEW c \in Calls, MarkFired(c) \/ MarkCancelled(c) PROVE TypeOK'
  BY <1>3 DEF MarkFired, MarkCancelled, ConfigStatus
<1>4. ASSUME NEW c \in Calls, HandlerBump(c) \/ WriteRule(c) \/ UpdateSpec(c) PROVE TypeOK'
  BY <1>4 DEF HandlerBump, WriteRule, UpdateSpec
<1>5. ASSUME NEW c \in Calls, CreateConfig(c) \/ DeleteConfig(c) PROVE TypeOK'
  BY <1>5 DEF CreateConfig, DeleteConfig, ConfigStatus
<1>6. ASSUME NEW f \in Configs, Expire(f) PROVE TypeOK'
  BY <1>6 DEF Expire
<1>7. CASE ListExpired
  BY <1>7 DEF ListExpired
<1>8. ASSUME NEW f \in Configs, MarkCompleted(f) PROVE TypeOK'
  BY <1>8 DEF MarkCompleted, ConfigStatus
<1>9. CASE ReaperBump
  BY <1>9 DEF ReaperBump
<1>10. ASSUME NEW s \in SDKs, ReadVersion(s) \/ ReadRules(s) \/ Lose(s) PROVE TypeOK'
  <2>1. poll' \in [SDKs -> Polls]
    BY <1>10, PollSteps DEF Becomes
  <2> QED BY <1>10, <2>1 DEF ReadVersion, ReadRules, Lose
<1>11. ASSUME NEW s \in SDKs, ActiveFaultsForService(s) PROVE TypeOK'
  <2>1. poll' \in [SDKs -> Polls] /\ blind' \subseteq SDKs
    BY <1>11, PollSteps DEF Becomes
  <2> QED BY <1>11, <2>1 DEF ActiveFaultsForService
<1>12. ASSUME NEW s \in SDKs, Receive(s) \/ Register(s) PROVE TypeOK'
  <2>1. poll' \in [SDKs -> Polls]
    BY <1>12, PollSteps DEF Becomes
  <2>2. poll[s].version \in Nat /\ poll[s].faults \in SUBSET Configs /\ poll[s].rules \in Nat
    BY PollFields
  <2> QED BY <1>12, <2>1, <2>2 DEF Receive, Register
<1>13. CASE Crash
  BY <1>13 DEF Crash, NoPoll, Reply, Polls
<1> QED
  BY <1>1, <1>2, <1>3, <1>4, <1>5, <1>6, <1>7, <1>8, <1>9, <1>10, <1>11, <1>12, <1>13
  DEF Next, Call, Handler, Reaper, Poll

-----------------------------------------------------------------------------
(* Versions an instance knows of are versions there have been.             *)
VersionsKnown ==
  /\ silent <= version
  /\ \A s \in SDKs :
       /\ held[s] <= version /\ poll[s].version <= version
       /\ poll[s].at \in {"registering", "registered"} => held[s] = 0
       /\ poll[s].at = "faults" => held[s] # version

(* RulesConverged, and the same of a reply on its way.                     *)
RulesInv ==
  /\ TypeOK /\ VersionsKnown /\ RulesConverged
  /\ version = 0 => rules = 0
  /\ edited <= version
  /\ \A s \in SDKs :
       poll[s].at = "reply" /\ poll[s].version = version /\ ~Unannounced
         => poll[s].rules = rules

LEMMA VersionsInit == Init => VersionsKnown
BY DEF Init, VersionsKnown, NoPoll, Reply

LEMMA VersionsStep == TypeOK /\ VersionsKnown /\ [Next]_vars => VersionsKnown'
<1> SUFFICES ASSUME TypeOK, VersionsKnown, [Next]_vars PROVE VersionsKnown'
  OBVIOUS
<1> USE DEF VersionsKnown, TypeOK, Polls, rows, handlers, reaper, sdk, BumpVersion
<1>1. CASE UNCHANGED <<version, held, poll>> /\ silent' \in {silent, version}
  BY <1>1
<1>2. CASE BumpVersion /\ UNCHANGED <<held, poll, silent>>
  BY <1>2
<1>3. ASSUME NEW s \in SDKs,
             ReadVersion(s) \/ ActiveFaultsForService(s) \/ ReadRules(s) \/ Lose(s)
      PROVE  VersionsKnown'
  <2>1. UNCHANGED <<held, version, silent>>
    BY <1>3 DEF ReadVersion, ActiveFaultsForService, ReadRules, Lose
  <2>2. CASE ReadVersion(s)
    BY <2>1, <2>2, PollSteps DEF ReadVersion, Becomes
  <2>3. CASE ActiveFaultsForService(s)
    <3>1. PICK F \in SUBSET Configs :
             \/ poll[s].at = "faults" /\ Becomes(s, "rules", poll[s].version, F, 0)
             \/ poll[s].at = "registering" /\ Becomes(s, "registered", 0, F, 0)
      BY <2>3, PollSteps
    <3> QED BY <2>1, <3>1 DEF Becomes
  <2>4. CASE ReadRules(s) \/ Lose(s)
    <3>1. \/ Becomes(s, "reply", poll[s].version, poll[s].faults, rules)
          \/ Becomes(s, "idle", 0, {}, 0)
      BY <2>4, PollSteps
    <3> QED BY <2>1, <3>1 DEF Becomes
  <2> QED BY <1>3, <2>2, <2>3, <2>4
<1>4. ASSUME NEW s \in SDKs, Receive(s) \/ Register(s) PROVE VersionsKnown'
  <2>1. held'[s] \in {0, held[s], poll[s].version} /\ (Register(s) => held'[s] = 0)
    BY <1>4 DEF Receive, Register
  <2>2. (\A t \in SDKs \ {s} : held'[t] = held[t]) /\ UNCHANGED <<version, silent>>
    BY <1>4 DEF Receive, Register
  <2> QED BY <1>4, <2>1, <2>2, PollSteps DEF Becomes
<1>5. CASE Crash
  BY <1>5 DEF Crash, NoPoll, Reply
<1> QED
  BY <1>1, <1>2, <1>3, <1>4, <1>5
  DEF vars, Next, Call, Handler, Reaper, Poll, FireGet, CancelGet, MarkFired, MarkCancelled,
      HandlerBump, CreateConfig, DeleteConfig, WriteRule, UpdateSpec, Disconnect, Expire, ListExpired,
      MarkCompleted, ReaperBump

LEMMA RulesStep == RulesInv /\ [Next]_vars => RulesInv'
<1> SUFFICES ASSUME RulesInv, [Next]_vars PROVE RulesInv'
  OBVIOUS
<1>0. TypeOK' /\ VersionsKnown'
  BY TypeStep, VersionsStep DEF RulesInv
<1> USE <1>0 DEF RulesInv, RulesConverged, Unannounced, VersionsKnown, TypeOK, Polls
<1>1. CASE UNCHANGED <<version, rules, edited, held, compiled, poll>>
  BY <1>1
<1>2. CASE BumpVersion /\ UNCHANGED <<edited, held, compiled, poll>>
  BY <1>2 DEF BumpVersion
<1>6. ASSUME NEW c \in Calls, UpdateSpec(c) PROVE RulesInv'
  BY <1>6 DEF UpdateSpec, sdk
<1>3. ASSUME NEW s \in SDKs,
             ReadVersion(s) \/ ActiveFaultsForService(s) \/ ReadRules(s) \/ Lose(s)
      PROVE  RulesInv'
  <2>1. UNCHANGED <<held, version, rules, edited, compiled>>
    BY <1>3 DEF ReadVersion, ActiveFaultsForService, ReadRules, Lose, rows
  <2> QED BY <1>3, <2>1, PollSteps DEF Becomes
<1>4. ASSUME NEW s \in SDKs, Receive(s) \/ Register(s) PROVE RulesInv'
  <2>1. CASE Receive(s)
    <3>1. \/ /\ poll[s].at = "reply"
             /\ held'[s] = poll[s].version /\ compiled'[s] = poll[s].rules
          \/ held'[s] = held[s] /\ compiled'[s] = compiled[s]
      BY <2>1 DEF Receive
    <3>2. \A t \in SDKs \ {s} : held'[t] = held[t] /\ compiled'[t] = compiled[t]
      BY <2>1 DEF Receive
    <3>3. UNCHANGED <<version, rules, edited>>
      BY <2>1 DEF Receive, rows
    <3>4. RulesConverged'
      BY <3>1, <3>2, <3>3
    <3> QED BY <2>1, <3>3, <3>4, PollSteps DEF Becomes
  <2>2. CASE Register(s)
    <3>1. UNCHANGED <<version, rules, edited>>
      BY <2>2 DEF Register, rows
    <3>2. RulesConverged'
      BY <2>2, <3>1 DEF Register
    <3> QED BY <2>2, <3>1, <3>2, PollSteps DEF Becomes
  <2> QED BY <1>4, <2>1, <2>2
<1>5. CASE Crash
  BY <1>5 DEF Crash, rows, NoPoll, Reply
<1> QED
  BY <1>1, <1>2, <1>3, <1>4, <1>5, <1>6
  DEF vars, rows, handlers, reaper, sdk, Next, Call, Handler, Reaper, Poll, FireGet,
      CancelGet, MarkFired, MarkCancelled, HandlerBump, CreateConfig, DeleteConfig, WriteRule,
      Disconnect, Expire, ListExpired, MarkCompleted, ReaperBump

(* The types of the tables, the handlers, the reaper and the polls.        *)
THEOREM TypeCorrect == Spec => []TypeOK
BY TypeInit, TypeStep, PTL DEF Spec

(* An instance answered 304 has the current rules, whatever crashes, is    *)
(* lost or fails, unless a spec they name was edited after the last bump.  *)
THEOREM RulesConvergedHolds == Spec => []RulesConverged
<1>1. Init => RulesInv
  BY TypeInit, VersionsInit DEF Init, RulesInv, RulesConverged, Unannounced, NoPoll, Reply
<1>2. RulesInv /\ [Next]_vars => RulesInv'
  BY RulesStep
<1>3. RulesInv => RulesConverged
  BY DEF RulesInv
<1> QED BY <1>1, <1>2, <1>3, PTL DEF Spec

-----------------------------------------------------------------------------
(* FaultsConverged, and the same of a reply on its way: to a poll, which   *)
(* brings its version, and to a registration, which leaves it at 0.        *)
FaultsInv ==
  /\ TypeOK /\ VersionsKnown /\ FaultsConverged
  /\ version = 0 /\ Announced => \A f \in Configs : ~Active(f)
  /\ \A s \in SDKs : poll[s].at = "registering" => s \notin blind
  /\ \A s \in SDKs \ blind :
       /\ poll[s].at \in {"rules", "reply"} /\ poll[s].version = version /\ Announced
            => FaultsMatch(s, poll[s].faults)
       /\ poll[s].at = "registered" /\ version = 0 /\ Announced
            => FaultsMatch(s, poll[s].faults)

(* Until the next bump, an unannounced change leaves FaultsInv no more     *)
(* than types to say.                                                      *)
LEMMA FaultsPending ==
  ASSUME FaultsInv, TypeOK', VersionsKnown', ~Announced', UNCHANGED <<poll, blind>>
  PROVE  FaultsInv'
BY DEF FaultsInv, FaultsConverged

(* After a bump no instance has the version, and nobody is sending it.     *)
LEMMA FaultsBumped ==
  ASSUME FaultsInv, TypeOK', VersionsKnown', BumpVersion, UNCHANGED <<held, poll, blind>>
  PROVE  FaultsInv'
BY DEF FaultsInv, FaultsConverged, TypeOK, VersionsKnown, BumpVersion, Polls

LEMMA FaultsStep == FaultsInv /\ [Next]_vars => FaultsInv'
<1> SUFFICES ASSUME FaultsInv, [Next]_vars PROVE FaultsInv'
  OBVIOUS
<1>0. TypeOK /\ VersionsKnown /\ TypeOK' /\ VersionsKnown'
  BY TypeStep, VersionsStep DEF FaultsInv
<1> USE <1>0
<1> DEFINE quiet == UNCHANGED <<status, expired, version, held, applied, poll, blind>>
           waits == \A d \in Calls : pc[d] = "bump" => pc'[d] = "bump"
<1>1. ASSUME quiet, Announced' => Announced PROVE FaultsInv'
  BY <1>1
  DEF FaultsInv, FaultsConverged, FaultsMatch, Desired, ActiveOf, Of, Active
<1>15. ASSUME quiet, UNCHANGED <<reaped, silent>>, waits PROVE FaultsInv'
  <2>1. Announced' => Announced
    BY <1>15 DEF Announced, BumpPending
  <2> QED BY <1>1, <1>15, <2>1
<1>2. CASE UNCHANGED vars
  BY <1>15, <1>2 DEF vars
<1>3. ASSUME NEW c \in Calls, FireGet(c) \/ CancelGet(c) PROVE FaultsInv'
  <2>1. quiet /\ UNCHANGED <<reaped, silent>> /\ waits
    BY <1>3 DEF FireGet, CancelGet, rows, reaper, sdk, Goto, TypeOK
  <2> QED BY <1>15, <2>1
<1>4. ASSUME NEW c \in Calls, UpdateSpec(c) PROVE FaultsInv'
  <2>1. quiet /\ UNCHANGED <<reaped, silent>> /\ waits
    BY <1>4 DEF UpdateSpec, reaper, sdk, Goto, TypeOK
  <2> QED BY <1>15, <2>1
<1>5. ASSUME NEW c \in Calls, MarkFired(c) \/ MarkCancelled(c) PROVE FaultsInv'
  <2>1. CASE pc'[c] = "bump"
    <3>1. ~Announced'
      BY <2>1 DEF Announced, BumpPending
    <3>2. UNCHANGED <<poll, blind>>
      BY <1>5 DEF MarkFired, MarkCancelled, sdk
    <3> QED BY <3>1, <3>2, FaultsPending
  <2>2. CASE pc'[c] # "bump"
    <3>1. quiet /\ UNCHANGED <<reaped, silent>> /\ waits
      BY <1>5, <2>2 DEF MarkFired, MarkCancelled, reaper, sdk, Goto, TypeOK
    <3> QED BY <1>15, <3>1
  <2> QED BY <2>1, <2>2
<1>6. ASSUME NEW c \in Calls, HandlerBump(c) \/ WriteRule(c) PROVE FaultsInv'
  BY <1>6, FaultsBumped DEF HandlerBump, WriteRule, sdk
<1>16. ASSUME NEW c \in Calls, status[arg[c]] # "active",
              CreateConfig(c) \/ DeleteConfig(c)
       PROVE  FaultsInv'
  <2>1. UNCHANGED <<version, held, applied, poll, blind, expired, reaped, silent>>
    BY <1>16 DEF CreateConfig, DeleteConfig, Active, reaper, sdk
  <2>2. Announced' => Announced
    BY <1>16, <2>1 DEF CreateConfig, DeleteConfig, Goto, Announced, BumpPending, TypeOK
  <2>3. \A f \in Configs : Active(f)' <=> Active(f)
    BY <1>16 DEF CreateConfig, DeleteConfig, Active, TypeOK
  <2>4. \A s \in SDKs : Desired(s)' = Desired(s) /\ ActiveOf(s)' = ActiveOf(s)
    BY <2>1, <2>3 DEF Desired, ActiveOf, Of
  <2>5. \A s \in SDKs : \A F : FaultsMatch(s, F) => Desired(s)' \subseteq F /\ F \subseteq ActiveOf(s)'
    BY <2>4 DEF FaultsMatch
  <2> QED BY <2>1, <2>2, <2>3, <2>5 DEF FaultsInv, FaultsConverged, FaultsMatch
<1>14. ASSUME NEW c \in Calls, CreateConfig(c) PROVE FaultsInv'
  BY <1>14, <1>16 DEF CreateConfig
<1>7. ASSUME NEW c \in Calls, DeleteConfig(c) PROVE FaultsInv'
  <2>1. CASE Active(arg[c])
    <3>1. silent' = version' /\ UNCHANGED <<poll, blind>>
      BY <1>7, <2>1 DEF DeleteConfig, sdk
    <3> QED BY <3>1, FaultsPending DEF Announced
  <2>2. CASE ~Active(arg[c])
    BY <1>7, <1>16, <2>2 DEF Active
  <2> QED BY <2>1, <2>2
<1>17. ASSUME NEW c \in Calls, Disconnect(c) PROVE FaultsInv'
  <2>1. CASE pc[c] = "bump"
    <3>1. silent' = version' /\ UNCHANGED <<poll, blind>>
      BY <1>17, <2>1 DEF Disconnect, sdk
    <3> QED BY <3>1, FaultsPending DEF Announced
  <2>2. CASE pc[c] # "bump"
    <3>1. quiet /\ UNCHANGED <<reaped, silent>> /\ waits
      BY <1>17, <2>2 DEF Disconnect, reaper, sdk, Goto, TypeOK
    <3> QED BY <1>15, <3>1
  <2> QED BY <2>1, <2>2
<1>8. ASSUME NEW f \in Configs, Expire(f) PROVE FaultsInv'
  <2>1. UNCHANGED <<status, version, held, applied, poll, blind>> /\ (Announced' <=> Announced)
    BY <1>8 DEF Expire, handlers, reaper, sdk, Announced, BumpPending
  <2>2. \A s \in SDKs : Desired(s)' \subseteq Desired(s)
    BY <1>8 DEF Expire, Desired, ActiveOf, Of, Active, TypeOK
  <2>3. \A s \in SDKs : ActiveOf(s)' = ActiveOf(s)
    BY <2>1 DEF ActiveOf, Of, Active
  <2>4. \A s \in SDKs : \A F : FaultsMatch(s, F) => Desired(s)' \subseteq F /\ F \subseteq ActiveOf(s)'
    BY <2>2, <2>3 DEF FaultsMatch
  <2>5. (\A g \in Configs : ~Active(g)) => (\A g \in Configs : ~Active(g))'
    BY <2>1 DEF Active
  <2> QED BY <2>1, <2>4, <2>5 DEF FaultsInv, FaultsConverged, FaultsMatch
<1>9. CASE ListExpired
  BY <1>15, <1>9 DEF ListExpired, rows, handlers, sdk
<1>10. ASSUME NEW f \in Configs, MarkCompleted(f) PROVE FaultsInv'
  <2>1. CASE status[f] = "absent"
    BY <1>15, <1>10, <2>1 DEF MarkCompleted, handlers, sdk
  <2>2. CASE status[f] # "absent"
    <3>1. ~Announced' /\ UNCHANGED <<poll, blind>>
      BY <1>10, <2>2 DEF MarkCompleted, sdk, Announced, BumpPending
    <3> QED BY <3>1, FaultsPending
  <2> QED BY <2>1, <2>2
<1>11. CASE ReaperBump
  BY <1>11, FaultsBumped DEF ReaperBump, sdk
<1>12. ASSUME NEW s \in SDKs, Poll(s) \/ Lose(s) \/ Register(s) PROVE FaultsInv'
  <2>1. UNCHANGED <<status, expired, version>> /\ (Announced' <=> Announced)
    BY <1>12 DEF Poll, ReadVersion, ActiveFaultsForService, ReadRules, Receive, Lose,
                 Register, rows, handlers, reaper, Announced, BumpPending
  <2>2. \A t \in SDKs : Desired(t)' = Desired(t) /\ ActiveOf(t)' = ActiveOf(t)
    BY <2>1 DEF Desired, ActiveOf, Of, Active
  <2>3. version = 0 /\ Announced => (\A f \in Configs : ~Active(f))'
    BY <2>1 DEF FaultsInv, Active
  <2> DEFINE ok(t, l, v, F) ==
        Announced /\ (\/ l \in {"rules", "reply"} /\ v = version
                      \/ l = "registered" /\ version = 0)
          => FaultsMatch(t, F)
             served == \A t \in SDKs \ blind' :
               held'[t] = version /\ Announced => FaultsMatch(t, applied'[t])
             others == \A t \in SDKs \ {s} : t \in blind' <=> t \in blind
  <2>4. \A t \in SDKs \ blind : ok(t, poll[t].at, poll[t].version, poll[t].faults)
    BY DEF FaultsInv
  <2>5. ASSUME NEW l, NEW v, NEW F, NEW n, Becomes(s, l, v, F, n), others, served,
               s \in blind' \/ ok(s, l, v, F), l = "registering" => s \notin blind'
        PROVE  FaultsInv'
    <3>1. \A t \in SDKs \ blind' : ok(t, poll'[t].at, poll'[t].version, poll'[t].faults)
      BY <2>4, <2>5 DEF Becomes
    <3>2. \A t \in SDKs : \A G : FaultsMatch(t, G) => Desired(t)' \subseteq G /\ G \subseteq ActiveOf(t)'
      BY <2>2 DEF FaultsMatch
    <3>3. \A t \in SDKs : poll'[t].at = "registering" => t \notin blind'
      BY <2>5 DEF Becomes, FaultsInv
    <3> HIDE DEF others
    <3> QED BY <2>1, <2>3, <2>5, <3>1, <3>2, <3>3 DEF FaultsInv, FaultsConverged, FaultsMatch
  <2>6. ASSUME UNCHANGED <<held, applied, blind>> PROVE served /\ others
    BY <2>6 DEF FaultsInv, FaultsConverged
  <2>7. CASE ReadVersion(s)
    <3>1. served /\ others
      BY <2>6, <2>7 DEF ReadVersion
    <3>2. Becomes(s, "faults", version, {}, 0) /\ ok(s, "faults", version, {})
      BY <2>7, PollSteps
    <3> QED BY <2>5, <3>1, <3>2
  <2>8. CASE ReadRules(s)
    <3>1. served /\ others /\ blind' = blind
      BY <2>6, <2>8 DEF ReadRules
    <3>2. Becomes(s, "reply", poll[s].version, poll[s].faults, rules)
      BY <2>8, PollSteps
    <3>3. s \in blind' \/ ok(s, "reply", poll[s].version, poll[s].faults)
      BY <2>4, <2>8, <3>1 DEF ReadRules
    <3> QED BY <2>5, <3>1, <3>2, <3>3
  <2>9. CASE Lose(s)
    <3>1. served /\ others
      BY <2>6, <2>9 DEF Lose
    <3>2. Becomes(s, "idle", 0, {}, 0) /\ ok(s, "idle", 0, {})
      BY <2>9, PollSteps
    <3> QED BY <2>5, <3>1, <3>2
  <2>10. CASE ActiveFaultsForService(s)
    <3>1. FaultsMatch(s, Desired(s))
      BY DEF FaultsMatch, Desired
    <3>2. PICK F \in SUBSET Configs :
            /\ blind' = IF F = Desired(s) THEN blind \ {s} ELSE blind \cup {s}
            /\ \/ poll[s].at = "faults" /\ Becomes(s, "rules", poll[s].version, F, 0)
               \/ poll[s].at = "registering" /\ Becomes(s, "registered", 0, F, 0)
      BY <2>10, PollSteps
    <3>3. others /\ (s \notin blind' => F = Desired(s))
      BY <3>2
    <3>4. UNCHANGED <<held, applied>>
      BY <2>10 DEF ActiveFaultsForService
    <3>5. s \in blind \/ (held[s] = version /\ Announced => FaultsMatch(s, applied[s]))
      BY DEF FaultsInv, FaultsConverged
    <3>6. poll[s].at = "faults" => held[s] # version
      BY DEF VersionsKnown
    <3>7. poll[s].at = "registering" => s \notin blind
      BY DEF FaultsInv
    <3>8. served
      <4>1. \A t \in SDKs \ {s} : t \notin blind =>
              (held[t] = version /\ Announced => FaultsMatch(t, applied[t]))
        BY DEF FaultsInv, FaultsConverged
      <4> QED BY <3>2, <3>3, <3>4, <3>5, <3>6, <3>7, <4>1
    <3>9. s \in blind' \/ \A l, v : ok(s, l, v, F)
      BY <3>1, <3>3
    <3> QED BY <2>5, <3>2, <3>3, <3>8, <3>9
  <2>11. CASE Receive(s)
    <3>1. Becomes(s, "idle", 0, {}, 0) /\ ok(s, "idle", 0, {})
      BY <2>11, PollSteps
    <3>2. /\ applied'[s] = poll[s].faults /\ blind' = blind
          /\ \A t \in SDKs \ {s} : held'[t] = held[t] /\ applied'[t] = applied[t]
      BY <1>0, <2>11 DEF Receive, TypeOK
    <3>3. s \notin blind /\ held'[s] = version /\ Announced => FaultsMatch(s, poll[s].faults)
      <4>1. CASE poll[s].at = "reply"
        <5>1. held'[s] = poll[s].version
          BY <2>11, <4>1 DEF Receive, TypeOK
        <5> QED BY <2>4, <4>1, <5>1
      <4>2. CASE poll[s].at = "registered"
        <5>1. held'[s] = 0
          BY <2>11, <4>2 DEF Receive, VersionsKnown
        <5> QED BY <2>4, <4>2, <5>1
      <4> QED BY <2>11, <4>1, <4>2 DEF Receive
    <3>4. served /\ others
      BY <3>2, <3>3 DEF FaultsInv, FaultsConverged
    <3> QED BY <2>5, <3>1, <3>4
  <2>12. CASE Register(s)
    <3>1. version = 0 /\ Announced => FaultsMatch(s, {})
      BY DEF FaultsInv, FaultsMatch, Desired, ActiveOf, Of
    <3>2. Becomes(s, "registering", 0, {}, 0) /\ ok(s, "registering", 0, {})
      BY <2>12, PollSteps
    <3>3. /\ held'[s] = 0 /\ applied'[s] = {} /\ blind' = blind \ {s}
          /\ \A t \in SDKs \ {s} : held'[t] = held[t] /\ applied'[t] = applied[t]
      BY <2>12 DEF Register, TypeOK
    <3>4. served /\ others
      BY <3>1, <3>3 DEF FaultsInv, FaultsConverged
    <3> QED BY <2>5, <3>2, <3>3, <3>4
  <2> QED BY <1>12, <2>7, <2>8, <2>9, <2>10, <2>11, <2>12 DEF Poll
<1>13. CASE Crash
  <2>1. /\ UNCHANGED <<status, expired, version, held, applied, blind>>
        /\ poll' = [t \in SDKs |-> NoPoll]
    BY <1>13 DEF Crash
  <2>2. \A t \in SDKs : poll'[t].at = "idle"
    BY <2>1 DEF NoPoll, Reply
  <2>3. Announced' => Announced
    BY <1>13 DEF Crash, Announced
  <2> QED BY <2>1, <2>2, <2>3
          DEF FaultsInv, FaultsConverged, FaultsMatch, Desired, ActiveOf, Of, Active
<1> QED
  BY <1>2, <1>3, <1>4, <1>5, <1>6, <1>7, <1>8, <1>9, <1>10, <1>11, <1>12, <1>13, <1>14, <1>17
  DEF Next, Call, Handler, Reaper

(* An instance answered 304 applies the faults it should, through any      *)
(* interleaving of requests, reaper and polls, whatever crashes, is lost   *)
(* or fails: unless a fault was changed without a bump since the last one, *)
(* or the faults could not be read for its last reply.                     *)
THEOREM FaultsConvergedHolds == Spec => []FaultsConverged
<1>1. Init => FaultsInv
  <2> SUFFICES ASSUME Init PROVE FaultsInv
    OBVIOUS
  <2>1. \A f \in Configs : ~Active(f)
    BY DEF Init, Active
  <2> QED BY <2>1, TypeInit, VersionsInit
          DEF Init, FaultsInv, FaultsConverged, FaultsMatch, Desired, ActiveOf, Of, NoPoll, Reply
<1>2. FaultsInv /\ [Next]_vars => FaultsInv'
  BY FaultsStep
<1>3. FaultsInv => FaultsConverged
  BY DEF FaultsInv
<1> QED BY <1>1, <1>2, <1>3, PTL DEF Spec
=============================================================================
