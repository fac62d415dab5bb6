------------------------- MODULE RunLifecycleProofs -------------------------
(* Proofs about RunLifecycle, for every set of calls and boots, every      *)
(* number of phases and every choice of failures.                          *)
EXTENDS RunLifecycle, TLAPS

USE LaunchAssumption, PhasesAssumption, RowsAssumption, FlagAssumption, FaultAssumption

(* What TypeOK needs to be inductive.                                      *)
TypeInv == TypeOK /\ WatchHasNext

(* The part of it about goroutines and their contexts, which the helpers   *)
(* that move a goroutine keep.                                             *)
LocalsOK ==
  /\ pc \in [Goro -> Locations]
  /\ snap \in [Goro -> Snapshot]
  /\ want \in [Goro -> Terminal]
  /\ cancelled \subseteq Ctx
  /\ WatchHasNext

USE DEF LocalsOK

LEMMA GoroFacts ==
  ASSUME NEW g \in Goro
  PROVE  /\ g[1] \in Launch
         /\ g[2] \in Kind
         /\ g = <<g[1], g[2]>>
         /\ \A k \in Kind : <<g[1], k>> \in Goro
BY DEF Goro

LEMMA CallFacts ==
  ASSUME NEW c \in Launch
  PROVE  <<c, "call">> \in Goro
BY DEF Goro, Kind

LEMMA ReturnType ==
  ASSUME TypeInv, NEW g \in Goro, Return(g)
  PROVE  LocalsOK'
BY DEF TypeInv, TypeOK, WatchHasNext, Return, Locations, Snapshot, NoRow, Terminal, Phases

LEMMA RowType == TypeOK => Row \in Snapshot
BY DEF TypeOK, Row, Snapshot

(* The helpers that move a goroutine keep the types of its locals.         *)
LEMMA GotoType ==
  ASSUME TypeInv, NEW g \in Goro, NEW l \in Locations, Goto(g, l),
         g[2] = "watch" /\ l \in {"load", "push", "setPhase", "rebind"}
            => snap[g].phase + 1 < NumPhases
  PROVE  LocalsOK'
BY DEF TypeInv, TypeOK, WatchHasNext, Goto

LEMMA GotoWithType ==
  ASSUME TypeInv, NEW g \in Goro, NEW l \in Locations, NEW row \in Snapshot,
         GotoWith(g, l, row),
         g[2] = "watch" => l \notin {"load", "push", "setPhase", "rebind"}
  PROVE  LocalsOK'
BY DEF TypeInv, TypeOK, WatchHasNext, GotoWith

LEMMA GotoStopType ==
  ASSUME TypeInv, NEW g \in Goro, NEW s \in Terminal, GotoStop(g, s)
  PROVE  LocalsOK'
BY DEF TypeInv, TypeOK, WatchHasNext, GotoStop, Locations

LEMMA HarvestType ==
  ASSUME TypeOK, NEW g, NEW A, NEW z, HarvestResults(g, A, z)
  PROVE  results' \in [Attack -> 0 .. MaxRows]
<1> DEFINE R(S) == [a \in Attack |-> IF a \in S /\ results[a] < MaxRows
                                     THEN results[a] + 1 ELSE results[a]]
<1>1. PICK S : results' = R(S)
  BY DEF HarvestResults
<1>2. \A a \in Attack : results[a] \in 0 .. MaxRows
  BY DEF TypeOK
<1>3. \A a \in Attack : R(S)[a] \in 0 .. MaxRows
  BY <1>2
<1> QED BY <1>1, <1>3

LEMMA StopAttacksType ==
  ASSUME TypeOK, NEW g, StopAttacks(g)
  PROVE  zeus' \in [Attack -> ZeusState]
BY DEF TypeOK, StopAttacks, ZeusState

LEMMA DropType ==
  ASSUME TypeOK, DropHandles
  PROVE  registered' \in BOOLEAN /\ handles' \subseteq Ctx /\ cancelled' \subseteq Ctx
BY DEF TypeOK, DropHandles

LEMMA EnteringType ==
  ASSUME TypeInv, NEW g \in Goro, pc[g] \in {"load", "push", "setPhase", "rebind"}
  PROVE  Entering(g) \in Phases
<1>1. snap[g].phase \in Phases
  BY DEF TypeInv, TypeOK, Snapshot
<1>2. g[2] = "watch" => snap[g].phase + 1 < NumPhases
  BY DEF TypeInv, WatchHasNext
<1> QED BY <1>1, <1>2 DEF Entering, Phases

LEMMA TypeInit == Init => TypeInv
<1> SUFFICES ASSUME Init PROVE TypeInv
  OBVIOUS
<1>1. 0 \in Phases
  BY DEF Phases
<1>2. NoRow \in Snapshot
  BY <1>1 DEF NoRow, Snapshot
<1>3. TypeOK
  <2>1. /\ status \in Status /\ phase \in Phases /\ attackIDs \subseteq Attack
        /\ rules \in Phases \cup {NoRules}
    BY <1>1 DEF Init, Status
  <2>2. results \in [Attack -> 0 .. MaxRows]
    BY DEF Init
  <2>3. zeus \in [Attack -> ZeusState]
    BY DEF Init, ZeusState
  <2>4. /\ registered \in BOOLEAN /\ handles \subseteq Ctx /\ cancelled \subseteq Ctx
        /\ lapses \subseteq LapseKinds
    BY DEF Init
  <2>5. pc \in [Goro -> Locations] /\ snap \in [Goro -> Snapshot] /\ want \in [Goro -> Terminal]
    BY <1>2 DEF Init, Locations, Terminal
  <2> QED BY <2>1, <2>2, <2>3, <2>4, <2>5 DEF TypeOK
<1>4. WatchHasNext
  BY DEF Init, WatchHasNext
<1> QED BY <1>3, <1>4 DEF TypeInv

LEMMA TypeCall ==
  ASSUME TypeInv, NEW c \in Calls, Call(c) \/ Disconnect(c)
  PROVE  TypeInv'
<1> DEFINE g == <<c, "call">>
<1>0. g \in Goro /\ g[2] = "call" /\ Row \in Snapshot
  BY CallFacts, RowType DEF TypeInv, Launch
<1> USE DEF rowVars, envVars, mapVars, memVars
<1>1. CASE StartRun(c) \/ ResumeRun(c)
  <2>1. GotoWith(g, "load", Row) \/ Return(g)
    BY <1>1 DEF StartRun, ResumeRun, BeginLaunch
  <2>2. LocalsOK'
    BY <1>0, <2>1, ReturnType, GotoWithType DEF Locations
  <2> QED BY <1>1, <2>2 DEF StartRun, ResumeRun, BeginLaunch, TypeInv, TypeOK
<1>2. CASE PauseRun(c)
  <2>1. GotoWith(g, "pauseLock", Row) \/ Return(g)
    BY <1>2 DEF PauseRun
  <2>2. LocalsOK'
    BY <1>0, <2>1, ReturnType, GotoWithType DEF Locations
  <2> QED BY <1>2, <2>2 DEF PauseRun, TypeInv, TypeOK
<1>3. CASE StopCall(c)
  BY <1>0, <1>3, GotoStopType DEF StopCall, TypeInv, TypeOK, Terminal
<1>4. CASE Disconnect(c)
  <2>1. CtxOf(g) \in Ctx
    BY <1>0, GoroFacts DEF CtxOf, Ctx, Phases
  <2> QED BY <1>4, <2>1 DEF Disconnect, TypeInv, TypeOK, WatchHasNext
<1> QED BY <1>1, <1>2, <1>3, <1>4 DEF Call

(* A step of a running goroutine; the launch half first.                   *)
LEMMA TypeLaunch ==
  ASSUME TypeInv, NEW g \in Goro,
         \/ LoadRules(g) \/ PushRules(g) \/ SetRunning(g) \/ AppendRunAttackID(g)
         \/ StartAttack(g) \/ SaveAttackIDs(g) \/ SpawnDrivers(g) \/ Register(g)
  PROVE  TypeInv'
<1> USE DEF rowVars, envVars, mapVars, memVars, At
<1>0. /\ snap[g] \in Snapshot /\ snap[g].attacks \subseteq Attack
      /\ \A k \in Kind : <<g[1], k>> \in Goro
      /\ {<<g[1], "client">>, <<g[1], "zeus">>} \subseteq Attack
  BY GoroFacts DEF TypeInv, TypeOK, Snapshot, Attack
<1>1. CASE LoadRules(g)
  <2>1. \/ Goto(g, "push") /\ pc[g] = "load"
        \/ GotoStop(g, "failed")
        \/ Return(g)
    BY <1>1 DEF LoadRules
  <2>2. g[2] = "watch" /\ pc[g] = "load" => snap[g].phase + 1 < NumPhases
    BY DEF TypeInv, WatchHasNext
  <2>3. LocalsOK'
    BY <2>1, <2>2, ReturnType, GotoType, GotoStopType DEF Locations, Terminal
  <2> QED BY <1>1, <2>3 DEF LoadRules, TypeInv, TypeOK
<1>2. CASE PushRules(g)
  <2>1. Entering(g) \in Phases
    BY <1>2, EnteringType DEF PushRules
  <2>2. g[2] = "watch" => snap[g].phase + 1 < NumPhases
    BY <1>2 DEF TypeInv, WatchHasNext, PushRules
  <2>3. LocalsOK'
    BY <1>2, <2>2, GotoType DEF PushRules, Locations
  <2> QED BY <1>2, <2>1, <2>3 DEF PushRules, TypeInv, TypeOK
<1>3. CASE SetRunning(g)
  <2>1. Goto(g, "append") \/ Goto(g, "spawn") \/ Return(g)
    BY <1>3 DEF SetRunning
  <2>2. LocalsOK'
    BY <2>1, ReturnType, GotoType DEF Locations
  <2> QED BY <1>3, <2>2 DEF SetRunning, UpdateRunStatus, TypeInv, TypeOK, Status
<1>4. CASE AppendRunAttackID(g)
  <2>1. Goto(g, "zeusStart") \/ Goto(g, "spawn")
    BY <1>4 DEF AppendRunAttackID
  <2>2. LocalsOK'
    BY <2>1, GotoType DEF Locations
  <2> QED BY <1>0, <1>4, <2>2 DEF AppendRunAttackID, TypeInv, TypeOK
<1>5. CASE StartAttack(g)
  <2>1. \/ \E id \in Attack : GotoWith(g, "saveIDs", [snap[g] EXCEPT !.attacks = {id}])
        \/ Goto(g, "spawn")
    BY <1>0, <1>5 DEF StartAttack
  <2>2. \A id \in Attack : [snap[g] EXCEPT !.attacks = {id}] \in Snapshot
    BY <1>0 DEF Snapshot
  <2>3. LocalsOK'
    BY <2>1, <2>2, GotoType, GotoWithType DEF Locations
  <2>4. \/ UNCHANGED zeus
        \/ \E id \in Attack : zeus' = [zeus EXCEPT ![id] = "running"]
    BY <1>0, <1>5 DEF StartAttack
  <2> QED BY <1>5, <2>3, <2>4 DEF StartAttack, TypeInv, TypeOK, ZeusState
<1>6. CASE SaveAttackIDs(g)
  <2>1. LocalsOK'
    BY <1>6, GotoType DEF SaveAttackIDs, Locations
  <2> QED BY <1>0, <1>6, <2>1 DEF SaveAttackIDs, UpdateRunZeusAttacks, TypeInv, TypeOK
<1>7. CASE SpawnDrivers(g)
  BY <1>0, <1>7 DEF SpawnDrivers, TypeInv, TypeOK, WatchHasNext, Locations
<1>8. CASE Register(g)
  <2>1. handles' \subseteq Ctx
    <3>1. 0 \in Phases /\ snap[g].phase \in Phases /\ g[1] \in Launch
      BY <1>0, GoroFacts DEF Snapshot, Phases
    <3> QED BY <1>8, <3>1 DEF Register, DriversOf, Ctx, Kind
  <2>2. <<g[1], "auto">> \in Goro /\ <<g[1], "auto">>[2] = "auto"
    BY <1>0 DEF Kind
  <2>3. LocalsOK'
    <3>1. CASE Return(g)
      BY <3>1, ReturnType
    <3>2. CASE ~Return(g)
      <4>1. NoRow \in Snapshot
        BY DEF NoRow, Snapshot, Phases
      <4> QED BY <1>8, <2>2, <3>2, <4>1
             DEF Register, TypeInv, TypeOK, WatchHasNext, Locations
    <3> QED BY <3>1, <3>2
  <2> QED BY <1>8, <2>1, <2>3 DEF Register, TypeInv, TypeOK
<1> QED BY <1>1, <1>2, <1>3, <1>4, <1>5, <1>6, <1>7, <1>8

LEMMA TypeStop ==
  ASSUME TypeInv, NEW g \in Goro,
         \/ PauseLock(g) \/ PauseAttacks(g) \/ SetPaused(g) \/ StopLock(g) \/ StopGet(g)
         \/ StopClear(g) \/ StopAndHarvest(g) \/ Finalize(g)
  PROVE  TypeInv'
<1> USE DEF rowVars, envVars, mapVars, memVars, At
<1>0. snap[g] \in Snapshot /\ want[g] \in Terminal /\ attackIDs \subseteq Attack
  BY DEF TypeInv, TypeOK
<1>1. CASE PauseLock(g) \/ StopLock(g)
  <2>1. registered' \in BOOLEAN /\ handles' \subseteq Ctx /\ cancelled' \subseteq Ctx
    BY <1>1, DropType DEF PauseLock, StopLock, TypeInv
  <2>2. pc' = [pc EXCEPT ![g] = "pauseStop"] \/ pc' = [pc EXCEPT ![g] = "stopGet"]
    BY <1>1 DEF PauseLock, StopLock
  <2>3. UNCHANGED <<rowVars, envVars, snap, want>>
    BY <1>1 DEF PauseLock, StopLock
  <2> QED BY <2>1, <2>2, <2>3 DEF TypeInv, TypeOK, WatchHasNext, Locations
<1>2. CASE PauseAttacks(g)
  <2>1. LocalsOK'
    BY <1>2, GotoType DEF PauseAttacks, Locations
  <2>2. zeus' \in [Attack -> ZeusState]
    BY <1>2, StopAttacksType DEF PauseAttacks, TypeInv
  <2> QED BY <1>2, <2>1, <2>2 DEF PauseAttacks, TypeInv, TypeOK
<1>3. CASE SetPaused(g)
  <2>1. LocalsOK'
    BY <1>3, ReturnType DEF SetPaused
  <2> QED BY <1>3, <2>1 DEF SetPaused, UpdateRunStatus, TypeInv, TypeOK, Status
<1>4. CASE StopGet(g)
  <2>1. [snap[g] EXCEPT !.attacks = attackIDs] \in Snapshot
    BY <1>0 DEF Snapshot
  <2>2. LocalsOK'
    BY <1>4, <2>1, ReturnType, GotoWithType DEF StopGet, Locations
  <2> QED BY <1>4, <2>2 DEF StopGet, TypeInv, TypeOK
<1>5. CASE StopClear(g)
  <2>1. LocalsOK'
    BY <1>5, GotoType DEF StopClear, Locations
  <2> QED BY <1>5, <2>1 DEF StopClear, TypeInv, TypeOK
<1>6. CASE StopAndHarvest(g)
  <2>1. LocalsOK'
    BY <1>6, GotoType DEF StopAndHarvest, Locations
  <2>2. zeus' \in [Attack -> ZeusState]
    BY <1>6, StopAttacksType DEF StopAndHarvest, TypeInv
  <2>3. results' \in [Attack -> 0 .. MaxRows]
    BY <1>6, HarvestType DEF StopAndHarvest, TypeInv, TypeOK
  <2> QED BY <1>6, <2>1, <2>2, <2>3 DEF StopAndHarvest, TypeInv, TypeOK
<1>7. CASE Finalize(g)
  <2>1. LocalsOK'
    BY <1>7, ReturnType DEF Finalize
  <2> QED BY <1>0, <1>7, <2>1 DEF Finalize, FinalizeRunStatus, TypeInv, TypeOK, Status
<1> QED BY <1>1, <1>2, <1>3, <1>4, <1>5, <1>6, <1>7

LEMMA TypeDriver ==
  ASSUME TypeInv, NEW g \in Goro,
         \/ WatchExit(g) \/ AdvancePhase(g) \/ SetPhase(g) \/ RebindWatcher(g)
         \/ PollExit(g) \/ PollDeadline(g) \/ PollTick(g) \/ PollHarvest(g)
         \/ Recover(g) \/ RecoverFail(g)
  PROVE  TypeInv'
<1> USE DEF rowVars, envVars, mapVars, memVars, At
<1>0. snap[g] \in Snapshot /\ snap[g].phase \in Phases /\ g[1] \in Launch
  BY GoroFacts DEF TypeInv, TypeOK, Snapshot
<1>a. NoteEarly(g) => lapses' \subseteq LapseKinds
  BY DEF NoteEarly, LapseKinds, TypeInv, TypeOK
<1>1. CASE WatchExit(g) \/ PollExit(g) \/ PollDeadline(g) \/ PollTick(g)
  <2>1. Return(g) \/ GotoStop(g, "failed") \/ Goto(g, "pollHarvest")
    BY <1>1 DEF WatchExit, PollExit, PollDeadline, PollTick
  <2>2. LocalsOK'
    BY <2>1, ReturnType, GotoStopType, GotoType DEF Locations, Terminal
  <2> QED BY <1>a, <1>1, <2>2 DEF WatchExit, PollExit, PollDeadline, PollTick, TypeInv, TypeOK
<1>2. CASE AdvancePhase(g)
  <2>1. \/ Goto(g, "stopLock")
        \/ Goto(g, "load") /\ (g[2] = "watch" => snap[g].phase + 1 < NumPhases)
    BY <1>0, <1>2 DEF AdvancePhase, Entering, Phases
  <2>2. LocalsOK'
    BY <2>1, GotoType DEF Locations
  <2> QED BY <1>a, <1>2, <2>2 DEF AdvancePhase, TypeInv, TypeOK
<1>3. CASE SetPhase(g)
  <2>1. Entering(g) \in Phases
    BY <1>3, EnteringType DEF SetPhase
  <2>2. g[2] = "watch" => snap[g].phase + 1 < NumPhases
    BY <1>3 DEF TypeInv, WatchHasNext, SetPhase
  <2>3. LocalsOK'
    BY <1>3, <2>2, GotoType, ReturnType DEF SetPhase, Locations
  <2> QED BY <1>3, <2>1, <2>3 DEF SetPhase, UpdateRunStatus, TypeInv, TypeOK, Status
<1>4. CASE RebindWatcher(g)
  <2>1. Entering(g) \in Phases
    BY <1>4, EnteringType DEF RebindWatcher
  <2>2. <<g[1], "watch", Entering(g)>> \in Ctx
    BY <1>0, <2>1 DEF Ctx, Kind
  <2>3. handles' \subseteq Ctx /\ cancelled' \subseteq Ctx
    BY <1>4, <2>2 DEF RebindWatcher, TypeInv, TypeOK
  <2>4. snap' \in [Goro -> Snapshot]
    BY <1>0, <1>4, <2>1 DEF RebindWatcher, TypeInv, TypeOK, Snapshot
  <2>5. pc' = [pc EXCEPT ![g] = "watching"] /\ \A h \in Goro \ {g} : snap'[h] = snap[h]
    BY <1>4 DEF RebindWatcher, TypeInv, TypeOK
  <2>6. pc' \in [Goro -> Locations] /\ WatchHasNext'
    BY <2>5 DEF TypeInv, TypeOK, WatchHasNext, Locations
  <2>7. lapses' \subseteq LapseKinds
    BY <1>4 DEF RebindWatcher, LapseKinds, TypeInv, TypeOK
  <2> QED BY <1>4, <2>3, <2>4, <2>6, <2>7 DEF RebindWatcher, TypeInv, TypeOK
<1>5. CASE PollHarvest(g)
  <2>1. LocalsOK'
    BY <1>5, GotoStopType DEF PollHarvest, Terminal
  <2>2. results' \in [Attack -> 0 .. MaxRows]
    BY <1>5, HarvestType DEF PollHarvest, TypeInv
  <2> QED BY <1>5, <2>1, <2>2 DEF PollHarvest, TypeInv, TypeOK
<1>6. CASE Recover(g) \/ RecoverFail(g)
  <2>1. \/ Return(g) \/ GotoWith(g, "recoverFail", Row) \/ GotoWith(g, "spawn", Row)
    BY <1>6 DEF Recover, RecoverFail
  <2>2. LocalsOK'
    BY <2>1, ReturnType, GotoWithType, RowType DEF Locations, TypeInv
  <2> QED BY <1>6, <2>2 DEF Recover, RecoverFail, UpdateRunStatus, TypeInv, TypeOK,
                            Status, Terminal
<1> QED BY <1>1, <1>2, <1>3, <1>4, <1>5, <1>6

LEMMA TypeWorld ==
  ASSUME TypeInv, (\E b \in Boots : Crash(b)) \/ (\E a \in Attack : AttackEnds(a))
  PROVE  TypeInv'
<1> USE DEF rowVars, envVars, mapVars, memVars
<1>1. ASSUME NEW b \in Boots, Crash(b) PROVE TypeInv'
  <2>1. NoRow \in Snapshot
    BY DEF NoRow, Snapshot, Phases
  <2>2. pc' \in [Goro -> Locations]
    BY <1>1 DEF Crash, TypeInv, TypeOK, Locations
  <2>3. \A g \in Goro : g[2] = "watch" => pc'[g] \notin {"load", "push", "setPhase", "rebind"}
    BY <1>1 DEF Crash, Live, TypeInv, TypeOK
  <2> QED BY <1>1, <2>1, <2>2, <2>3 DEF Crash, TypeInv, TypeOK, WatchHasNext, Terminal
<1>2. ASSUME NEW a \in Attack, AttackEnds(a) PROVE TypeInv'
  BY <1>2 DEF AttackEnds, TypeInv, TypeOK, WatchHasNext, ZeusState
<1> QED BY <1>1, <1>2

LEMMA TypeStep == TypeInv /\ [Next]_vars => TypeInv'
<1> SUFFICES ASSUME TypeInv, [Next]_vars PROVE TypeInv'
  OBVIOUS
<1>1. CASE UNCHANGED vars
  BY <1>1 DEF vars, TypeInv, TypeOK, WatchHasNext
<1>2. ASSUME NEW c \in Calls, Call(c) \/ Disconnect(c) PROVE TypeInv'
  BY <1>2, TypeCall
<1>3. ASSUME NEW g \in Goro, Step(g) \/ AdvancePhase(g) \/ PollDeadline(g) PROVE TypeInv'
  BY <1>3, TypeLaunch, TypeStop, TypeDriver DEF Step
<1>4. CASE (\E b \in Boots : Crash(b)) \/ (\E a \in Attack : AttackEnds(a))
  BY <1>4, TypeWorld
<1> QED BY <1>1, <1>2, <1>3, <1>4 DEF Next

(* The state always has its type, and a watcher that advances has a next   *)
(* phase, however calls, drivers, crashes and failures interleave.         *)
THEOREM TypeCorrect == Spec => [](TypeOK /\ WatchHasNext)
<1>1. Spec => []TypeInv
  BY TypeInit, TypeStep, PTL DEF Spec
<1>2. TypeInv => TypeOK /\ WatchHasNext
  BY DEF TypeInv
<1> QED BY <1>1, <1>2, PTL

-----------------------------------------------------------------------------
(* FirstTerminalWins.  FinalizeRunStatus is conditional, but RecoverFail   *)
(* writes "failed" whatever the row holds: it needs the row to be still    *)
(* running, which holds because nobody else acts during Recover.           *)

(* Recover is alone: the API is not served yet and no driver runs.         *)
SoleRecover ==
  \A g \in Goro : pc[g] \in {"recover", "recoverFail"} =>
     /\ g[1] \in Boots /\ g[2] = "call"
     /\ \A h \in Goro : Live(h) => h = g
     /\ pc[g] = "recoverFail" => status = "running"

SoleInv == TypeInv /\ SoleRecover

LEMMA StepIsLive ==
  ASSUME NEW g \in Goro, Step(g) \/ AdvancePhase(g) \/ PollDeadline(g)
  PROVE  Live(g)
BY DEF Step, Live, At, LoadRules, PushRules, SetRunning, AppendRunAttackID, StartAttack,
       SaveAttackIDs, SpawnDrivers, Register, PauseLock, PauseAttacks, SetPaused, StopLock,
       StopGet, StopClear, StopAndHarvest, Finalize, WatchExit, AdvancePhase, SetPhase,
       RebindWatcher, PollExit, PollDeadline, PollTick, PollHarvest, Recover, RecoverFail

(* Only Recover itself brings a goroutine to one of its locations.         *)
LEMMA NoneRecovers ==
  ASSUME TypeInv, NEW g \in Goro, ~Recover(g),
         Step(g) \/ AdvancePhase(g) \/ PollDeadline(g),
         NEW h \in Goro, pc'[h] # pc[h]
  PROVE  pc'[h] \notin {"recover", "recoverFail"}
<1> USE DEF TypeInv, TypeOK, Goto, GotoWith, GotoStop, Return
<1>1. CASE LoadRules(g) \/ PushRules(g) \/ SetRunning(g) \/ AppendRunAttackID(g)
  BY <1>1 DEF LoadRules, PushRules, SetRunning, AppendRunAttackID
<1>2. CASE StartAttack(g) \/ SaveAttackIDs(g) \/ SpawnDrivers(g) \/ Register(g)
  BY <1>2 DEF StartAttack, SaveAttackIDs, SpawnDrivers, Register
<1>3. CASE PauseLock(g) \/ PauseAttacks(g) \/ SetPaused(g) \/ StopLock(g) \/ StopGet(g)
  BY <1>3 DEF PauseLock, PauseAttacks, SetPaused, StopLock, StopGet
<1>4. CASE StopClear(g) \/ StopAndHarvest(g) \/ Finalize(g)
  BY <1>4 DEF StopClear, StopAndHarvest, Finalize
<1>5. CASE WatchExit(g) \/ AdvancePhase(g) \/ SetPhase(g) \/ RebindWatcher(g)
  BY <1>5 DEF WatchExit, AdvancePhase, SetPhase, RebindWatcher
<1>6. CASE PollExit(g) \/ PollDeadline(g) \/ PollTick(g) \/ PollHarvest(g) \/ RecoverFail(g)
  BY <1>6 DEF PollExit, PollDeadline, PollTick, PollHarvest, RecoverFail
<1> QED BY <1>1, <1>2, <1>3, <1>4, <1>5, <1>6 DEF Step

LEMMA SoleStep == SoleInv /\ [Next]_vars => SoleRecover'
<1> SUFFICES ASSUME SoleInv, [Next]_vars PROVE SoleRecover'
  OBVIOUS
<1> USE DEF SoleInv
<1>1. CASE UNCHANGED vars
  BY <1>1 DEF vars, SoleRecover, Live
<1>2. ASSUME NEW c \in Calls, Call(c) PROVE SoleRecover'
  <2> DEFINE g == <<c, "call">>
  <2>1. g \in Goro /\ Accepts(c)
    BY <1>2, CallFacts DEF Call, StartRun, ResumeRun, PauseRun, StopCall, BeginLaunch, Launch
  <2>2. \A h \in Goro : pc[h] \notin {"recover", "recoverFail"}
    <3> SUFFICES ASSUME NEW h \in Goro, pc[h] \in {"recover", "recoverFail"} PROVE FALSE
      OBVIOUS
    <3>1. h = <<h[1], "call">> /\ h[1] \in Boots
      BY GoroFacts DEF SoleRecover
    <3> QED BY <2>1, <3>1 DEF Accepts, Live
  <2>3. \A h \in Goro : pc'[h] # pc[h] => pc'[h] \in {"load", "pauseLock", "stopLock", "done"}
    BY <1>2, <2>1 DEF Call, StartRun, ResumeRun, PauseRun, StopCall, BeginLaunch, GotoWith,
                      GotoStop, Return, TypeInv, TypeOK
  <2> QED BY <2>2, <2>3 DEF SoleRecover
<1>3. ASSUME NEW c \in Calls, Disconnect(c) PROVE SoleRecover'
  BY <1>3 DEF Disconnect, rowVars, SoleRecover, Live
<1>4. ASSUME NEW g \in Goro, Step(g) \/ AdvancePhase(g) \/ PollDeadline(g) PROVE SoleRecover'
  <2>0. Live(g)
    BY <1>4, StepIsLive
  <2>1. CASE Recover(g)
    <3>1. pc[g] = "recover" /\ \A h \in Goro : Live(h) => h = g
      BY <2>1 DEF Recover, At, SoleRecover
    <3>2. /\ \A h \in Goro : h # g => pc'[h] = pc[h]
          /\ pc'[g] = "recoverFail" => status = "running" /\ status' = status
          /\ pc'[g] # "recover"
      BY <2>1 DEF Recover, Return, GotoWith, rowVars, TypeInv, TypeOK
    <3> QED BY <2>1, <3>1, <3>2 DEF SoleRecover, Live, Recover, At
  <2>2. CASE ~Recover(g)
    <3>1. \A h \in Goro : h # g => pc[h] \notin {"recover", "recoverFail"}
      BY <2>0 DEF SoleRecover, Live
    <3>2. \A h \in Goro : pc'[h] \notin {"recover", "recoverFail"}
      <4>1. pc'[g] # pc[g] \/ pc[g] \notin {"recover", "recoverFail"}
        BY <1>4, <2>2
           DEF Step, At, LoadRules, PushRules, SetRunning, AppendRunAttackID, StartAttack,
               SaveAttackIDs, SpawnDrivers, Register, PauseLock, PauseAttacks, SetPaused,
               StopLock, StopGet, StopClear, StopAndHarvest, Finalize, WatchExit,
               AdvancePhase, SetPhase, RebindWatcher, PollExit, PollDeadline, PollTick,
               PollHarvest, RecoverFail, Return, TypeInv, TypeOK
      <4> QED BY <1>4, <2>2, <3>1, <4>1, NoneRecovers
    <3> QED BY <3>2 DEF SoleRecover
  <2> QED BY <2>1, <2>2
<1>5. ASSUME NEW b \in Boots, Crash(b) PROVE SoleRecover'
  <2>1. \A h \in Goro : h # <<b, "call">> => pc'[h] \in {"idle", "done"}
    BY <1>5 DEF Crash, Live, TypeInv, TypeOK
  <2>2. <<b, "call">> \in Goro /\ pc'[<<b, "call">>] = "recover"
    BY <1>5, CallFacts DEF Crash, Launch
  <2> QED BY <2>1, <2>2 DEF SoleRecover, Live
<1>6. ASSUME NEW a \in Attack, AttackEnds(a) PROVE SoleRecover'
  BY <1>6 DEF AttackEnds, rowVars, SoleRecover, Live
<1> QED BY <1>1, <1>2, <1>3, <1>4, <1>5, <1>6 DEF Next

LEMMA FirstTerminalStep ==
  SoleInv /\ [Next]_vars => (status \in Terminal /\ status' \in Terminal => status' = status)
<1> SUFFICES ASSUME SoleInv, [Next]_vars, status' # status, status \in Terminal
             PROVE  status' \notin Terminal
  OBVIOUS
<1> USE DEF SoleInv, Terminal
<1>1. ASSUME NEW g \in Goro, Step(g) \/ AdvancePhase(g) \/ PollDeadline(g)
      PROVE  status' \notin Terminal
  <2>1. SetRunning(g) \/ SetPaused(g) \/ SetPhase(g) \/ Finalize(g) \/ RecoverFail(g)
    BY <1>1 DEF Step, rowVars, LoadRules, PushRules, AppendRunAttackID, StartAttack,
       SaveAttackIDs, SpawnDrivers, Register, PauseLock, PauseAttacks, StopLock, StopGet,
       StopClear, StopAndHarvest, WatchExit, AdvancePhase, RebindWatcher, PollExit,
       PollDeadline, PollTick, PollHarvest, Recover
  <2>2. ~Finalize(g)
    BY DEF Finalize, FinalizeRunStatus
  <2>3. ~RecoverFail(g)
    BY DEF RecoverFail, At, SoleRecover
  <2> QED BY <2>1, <2>2, <2>3 DEF SetRunning, SetPaused, SetPhase, UpdateRunStatus
<1>2. ASSUME NEW c \in Calls, Call(c) \/ Disconnect(c) PROVE FALSE
  BY <1>2 DEF Call, StartRun, ResumeRun, PauseRun, StopCall, BeginLaunch, Disconnect, rowVars
<1>3. ASSUME NEW b \in Boots, Crash(b) PROVE FALSE
  BY <1>3 DEF Crash, rowVars
<1>4. ASSUME NEW a \in Attack, AttackEnds(a) PROVE FALSE
  BY <1>4 DEF AttackEnds, rowVars
<1> QED BY <1>1, <1>2, <1>3, <1>4 DEF Next, vars

(* No step turns a completed run into a failed one or back, whoever stops, *)
(* starts, resumes or recovers the run at the same time.                   *)
THEOREM FirstTerminalWinsHolds == Spec => FirstTerminalWins
<1>1. Init => SoleInv
  BY TypeInit DEF Init, SoleInv, SoleRecover
<1>2. SoleInv /\ [Next]_vars => SoleInv'
  BY SoleStep, TypeStep DEF SoleInv
<1>3. SoleInv /\ [Next]_vars
        => [(status \in Terminal /\ status' \in Terminal) => status' = status]_status
  BY FirstTerminalStep
<1> QED BY <1>1, <1>2, <1>3, PTL DEF Spec, FirstTerminalWins

-----------------------------------------------------------------------------
(* RegisteredIsLive.  A watcher context is identified by the phase it was  *)
(* made at, so the invariant says which contexts can exist already.        *)

StopLocations == {"idle", "done", "stopLock", "stopGet", "stopClear", "stopAttacks", "finalize"}

Launching == {"load", "push", "setRunning", "append", "zeusStart", "saveIDs", "spawn",
              "recover", "recoverFail"}

(* What each kind of goroutine runs.                                       *)
KindOK ==
  \A g \in Goro :
    /\ g[2] = "auto" => pc[g] \in StopLocations
    /\ g[2] = "poll" => pc[g] \in StopLocations \cup {"polling", "pollHarvest"}
    /\ g[2] = "watch" => pc[g] \in StopLocations \cup {"watching", "load", "push", "setPhase", "rebind"}
    /\ g[2] = "call" => pc[g] \notin {"watching", "setPhase", "rebind", "polling", "pollHarvest"}

(* Only drivers have handles.                                              *)
HandleKinds == \A x \in handles : x[2] \in {"watch", "poll"}

Known == handles \cup cancelled

(* A live watcher is on the newest of its contexts.                        *)
FreshWatch ==
  \A x \in Known : x[2] = "watch" /\ Live(<<x[1], "watch">>)
     => x[3] <= snap[<<x[1], "watch">>].phase

(* Before a launch spawns its drivers there are none, nor contexts of them.*)
Unspawned ==
  \A l \in Launch : pc[<<l, "call">>] \in Launching \cup {"idle"} =>
     /\ ~Live(<<l, "watch">>) /\ ~Live(<<l, "poll">>)
     /\ \A x \in Known : x[1] = l => x[2] \notin {"watch", "poll"}

(* The contexts a launch is about to register are known to nobody, even if *)
(* its watcher has already advanced.                                       *)
AboutToRegister ==
  \A l \in Launch : pc[<<l, "call">>] = "register" =>
     /\ <<l, "watch", snap[<<l, "call">>].phase>> \notin Known
     /\ <<l, "poll", 0>> \notin Known
     /\ Live(<<l, "watch">>) => snap[<<l, "watch">>].phase >= snap[<<l, "call">>].phase

HandleInv ==
  KindOK /\ HandleKinds /\ RegisteredIsLive /\ FreshWatch /\ Unspawned /\ AboutToRegister

KindOKOf(g, l) ==
  /\ g[2] = "auto" => l \in StopLocations
  /\ g[2] = "poll" => l \in StopLocations \cup {"polling", "pollHarvest"}
  /\ g[2] = "watch" => l \in StopLocations \cup {"watching", "load", "push", "setPhase", "rebind"}
  /\ g[2] = "call" => l \notin {"watching", "setPhase", "rebind", "polling", "pollHarvest"}

(* A step that only moves g, within its kind, and brings up no new context *)
(* of a driver.                                                            *)
LEMMA HandleMove ==
  ASSUME TypeInv, HandleInv, NEW g \in Goro,
         \A h \in Goro \ {g} : pc'[h] = pc[h] /\ snap'[h].phase = snap[h].phase,
         g[2] # "call" => Live(g),
         g[2] = "watch" /\ Live(g)' => snap'[g].phase = snap[g].phase,
         g[2] = "call" => /\ pc'[g] \in Launching => pc[g] \in Launching \cup {"idle"}
                          /\ pc'[g] \notin {"idle", "register"},
         KindOKOf(g, pc'[g]),
         handles' \subseteq handles,
         \A x \in Known' : x \in Known \/ x[2] = "call",
         RegisteredIsLive'
  PROVE  HandleInv'
<1> USE DEF HandleInv
<1>1. KindOK'
  BY DEF KindOK, KindOKOf
<1>2. HandleKinds'
  BY DEF HandleKinds
<1>3. FreshWatch'
  <2> SUFFICES ASSUME NEW x \in Known', x[2] = "watch", Live(<<x[1], "watch">>)'
               PROVE  x[3] <= snap'[<<x[1], "watch">>].phase
    BY DEF FreshWatch
  <2> DEFINE h == <<x[1], "watch">>
  <2>1. x \in Known
    OBVIOUS
  <2>2. h \in Goro
    BY <2>1 DEF TypeInv, TypeOK, Known, Ctx, Goro, Kind
  <2>3. Live(h) /\ snap'[h].phase = snap[h].phase
    BY <2>2 DEF Live
  <2> QED BY <2>1, <2>3 DEF FreshWatch
<1>4. Unspawned'
  <2> SUFFICES ASSUME NEW l \in Launch, pc'[<<l, "call">>] \in Launching \cup {"idle"}
               PROVE  /\ ~Live(<<l, "watch">>)' /\ ~Live(<<l, "poll">>)'
                      /\ \A x \in Known' : x[1] = l => x[2] \notin {"watch", "poll"}
    BY DEF Unspawned
  <2>1. <<l, "call">> \in Goro /\ <<l, "watch">> \in Goro /\ <<l, "poll">> \in Goro
    BY DEF Goro, Kind
  <2>2. pc[<<l, "call">>] \in Launching \cup {"idle"}
    BY <2>1
  <2> QED BY <2>1, <2>2 DEF Unspawned, Live
<1>5. AboutToRegister'
  <2> SUFFICES ASSUME NEW l \in Launch, pc'[<<l, "call">>] = "register"
               PROVE  /\ <<l, "watch", snap'[<<l, "call">>].phase>> \notin Known'
                      /\ <<l, "poll", 0>> \notin Known'
                      /\ Live(<<l, "watch">>)'
                           => snap'[<<l, "watch">>].phase >= snap'[<<l, "call">>].phase
    BY DEF AboutToRegister
  <2>1. <<l, "call">> \in Goro /\ <<l, "watch">> \in Goro
    BY DEF Goro, Kind
  <2>2. pc[<<l, "call">>] = "register" /\ snap'[<<l, "call">>].phase = snap[<<l, "call">>].phase
    BY <2>1
  <2>3. Live(<<l, "watch">>)' => /\ Live(<<l, "watch">>)
                                 /\ snap'[<<l, "watch">>].phase = snap[<<l, "watch">>].phase
    BY <2>1 DEF Live
  <2> QED BY <2>2, <2>3 DEF AboutToRegister
<1> QED BY <1>1, <1>2, <1>3, <1>4, <1>5

LEMMA HandleReturn ==
  ASSUME TypeInv, HandleInv, NEW g \in Goro, Return(g), UNCHANGED handles,
         g[2] # "call" => Live(g)
  PROVE  HandleInv'
<1>1. \A h \in Goro \ {g} : pc'[h] = pc[h] /\ snap'[h].phase = snap[h].phase
  BY DEF Return, TypeInv, TypeOK
<1>2. pc'[g] = "done" /\ ~Live(g)' /\ KindOKOf(g, pc'[g]) /\ pc'[g] \notin Launching
  BY DEF Return, TypeInv, TypeOK, Live, KindOKOf, StopLocations, Launching
<1>3. cancelled' \subseteq cancelled
  BY DEF Return
<1>4. Known' \subseteq Known /\ RegisteredIsLive'
  BY <1>3 DEF Known, RegisteredIsLive, HandleInv
<1> QED BY <1>1, <1>2, <1>4, HandleMove

LEMMA HandleGoto ==
  ASSUME TypeInv, HandleInv, NEW g \in Goro, NEW l \in Locations \ {"idle", "register"},
         \/ Goto(g, l)
         \/ l = "stopLock" /\ \E s \in Terminal : GotoStop(g, s)
         \/ \E row \in Snapshot :
              GotoWith(g, l, row) /\ (g[2] = "watch" => row.phase = snap[g].phase),
         UNCHANGED handles,
         KindOKOf(g, l),
         g[2] # "call" => Live(g),
         g[2] = "call" /\ l \in Launching => pc[g] \in Launching \cup {"idle"}
  PROVE  HandleInv'
<1>1. \A h \in Goro \ {g} : pc'[h] = pc[h] /\ snap'[h].phase = snap[h].phase
  BY DEF Goto, GotoStop, GotoWith, TypeInv, TypeOK
<1>2. pc'[g] = l
  BY DEF Goto, GotoStop, GotoWith, TypeInv, TypeOK
<1>3. g[2] = "watch" => snap'[g].phase = snap[g].phase
  BY DEF Goto, GotoStop, GotoWith, TypeInv, TypeOK
<1>4. UNCHANGED cancelled
  BY DEF Goto, GotoStop, GotoWith
<1>5. Known' = Known /\ RegisteredIsLive'
  BY <1>4 DEF Known, RegisteredIsLive, HandleInv
<1> QED BY <1>1, <1>2, <1>3, <1>5, HandleMove

LEMMA HandleCall ==
  ASSUME TypeInv, HandleInv, NEW c \in Calls, Call(c) \/ Disconnect(c)
  PROVE  HandleInv'
<1> DEFINE g == <<c, "call">>
<1>0. g \in Goro /\ g[2] = "call" /\ Row \in Snapshot /\ g[1] = c
  BY CallFacts, RowType DEF TypeInv, Launch
<1> USE DEF mapVars, KindOKOf, Launching, Locations
<1>1. CASE StartRun(c) \/ ResumeRun(c)
  <2>1. GotoWith(g, "load", Row) \/ Return(g)
    BY <1>1 DEF StartRun, ResumeRun, BeginLaunch
  <2>2. pc[g] = "idle" /\ UNCHANGED handles
    BY <1>1 DEF StartRun, ResumeRun, BeginLaunch, Accepts, At
  <2> QED BY <1>0, <2>1, <2>2, HandleReturn, HandleGoto
<1>2. CASE PauseRun(c)
  <2>1. GotoWith(g, "pauseLock", Row) \/ Return(g)
    BY <1>2 DEF PauseRun
  <2>2. UNCHANGED handles
    BY <1>2 DEF PauseRun
  <2> QED BY <1>0, <2>1, <2>2, HandleReturn, HandleGoto
<1>3. CASE StopCall(c)
  <2>1. GotoStop(g, "completed") /\ UNCHANGED handles
    BY <1>3 DEF StopCall
  <2> QED BY <1>0, <2>1, HandleGoto DEF Terminal
<1>4. CASE Disconnect(c)
  <2>1. /\ UNCHANGED <<handles, pc, snap>> /\ Live(g)
        /\ cancelled' = cancelled \cup {<<c, "call", 0>>}
    BY <1>0, <1>4 DEF Disconnect, CtxOf
  <2>2. RegisteredIsLive'
    BY <2>1 DEF RegisteredIsLive, HandleInv, HandleKinds
  <2>3. \A x \in Known' : x \in Known \/ x[2] = "call"
    BY <2>1 DEF Known
  <2> QED BY <1>4, <2>1, <2>2, <2>3 DEF HandleInv, KindOK, HandleKinds, FreshWatch, Unspawned,
                                       AboutToRegister, Live
<1> QED BY <1>1, <1>2, <1>3, <1>4 DEF Call

(* SpawnDrivers, Register and RebindWatcher bring up drivers and contexts. *)
LEMMA HandleSpawn ==
  ASSUME TypeInv, HandleInv, NEW g \in Goro, SpawnDrivers(g)
  PROVE  HandleInv'
<1> DEFINE l == g[1]
           w == <<l, "watch">>
<1> USE DEF HandleInv
<1>0. /\ g = <<l, "call">> /\ l \in Launch /\ w \in Goro
      /\ DriversOf(g) \subseteq {w, <<l, "poll">>}
  <2>1. g[2] = "call"
    BY GoroFacts DEF SpawnDrivers, At, KindOK, StopLocations, Kind
  <2> QED BY <2>1, GoroFacts DEF DriversOf, Kind
<1>1. /\ ~Live(w) /\ ~Live(<<l, "poll">>)
      /\ \A x \in Known : x[1] = l => x[2] \notin {"watch", "poll"}
  BY <1>0 DEF SpawnDrivers, At, Unspawned, Launching
<1>2. /\ UNCHANGED <<handles, cancelled>> /\ Known' = Known
      /\ pc'[g] = "register" /\ snap'[g] = snap[g]
      /\ \A h \in Goro : h # g /\ h \notin DriversOf(g) => pc'[h] = pc[h] /\ snap'[h] = snap[h]
      /\ \A h \in DriversOf(g) : /\ pc'[h] = IF h[2] = "watch" THEN "watching" ELSE "polling"
                                 /\ snap'[h] = snap[g]
  BY <1>0 DEF SpawnDrivers, memVars, Known, DriversOf, Goro, Kind
<1>3. KindOK'
  BY <1>0, <1>2 DEF KindOK
<1>4. HandleKinds' /\ RegisteredIsLive'
  BY <1>2 DEF HandleKinds, RegisteredIsLive
<1>5. FreshWatch'
  <2> SUFFICES ASSUME NEW x \in Known, x[2] = "watch", Live(<<x[1], "watch">>)'
               PROVE  x[3] <= snap'[<<x[1], "watch">>].phase
    BY <1>2 DEF FreshWatch
  <2>1. <<x[1], "watch">> \in Goro /\ x[1] # l
    BY <1>1 DEF TypeInv, TypeOK, Known, Ctx, Goro, Kind
  <2>2. UNCHANGED <<pc[<<x[1], "watch">>], snap[<<x[1], "watch">>]>>
    BY <1>0, <1>2, <2>1
  <2> QED BY <2>2 DEF FreshWatch, Live
<1>6. Unspawned'
  <2> SUFFICES ASSUME NEW k \in Launch, pc'[<<k, "call">>] \in Launching \cup {"idle"}
               PROVE  /\ ~Live(<<k, "watch">>)' /\ ~Live(<<k, "poll">>)'
                      /\ \A x \in Known : x[1] = k => x[2] \notin {"watch", "poll"}
    BY <1>2 DEF Unspawned
  <2>1. k # l
    BY <1>0, <1>2 DEF Launching
  <2>2. \A kind \in {"call", "watch", "poll"} :
           <<k, kind>> \in Goro /\ pc'[<<k, kind>>] = pc[<<k, kind>>]
    BY <1>0, <1>2, <2>1 DEF Goro, Kind
  <2> QED BY <2>2 DEF Unspawned, Live
<1>7. AboutToRegister'
  <2> SUFFICES ASSUME NEW k \in Launch, pc'[<<k, "call">>] = "register"
               PROVE  /\ <<k, "watch", snap'[<<k, "call">>].phase>> \notin Known
                      /\ <<k, "poll", 0>> \notin Known
                      /\ Live(<<k, "watch">>)'
                           => snap'[<<k, "watch">>].phase >= snap'[<<k, "call">>].phase
    BY <1>2 DEF AboutToRegister
  <2>1. CASE k = l
    <3>1. Live(w)' => w \in DriversOf(g)
      BY <1>0, <1>1, <1>2 DEF Live
    <3>2. snap[g].phase \in Int
      BY DEF TypeInv, TypeOK, Snapshot, Phases
    <3> QED BY <1>0, <1>1, <1>2, <2>1, <3>1, <3>2
  <2>2. CASE k # l
    <3>1. \A kind \in {"call", "watch"} :
             <<k, kind>> \in Goro /\ UNCHANGED <<pc[<<k, kind>>], snap[<<k, kind>>]>>
      BY <1>0, <1>2, <2>2 DEF Goro, Kind
    <3> QED BY <3>1 DEF AboutToRegister, Live
  <2> QED BY <2>1, <2>2
<1> QED BY <1>3, <1>4, <1>5, <1>6, <1>7

LEMMA HandleRegister ==
  ASSUME TypeInv, HandleInv, NEW g \in Goro, Register(g)
  PROVE  HandleInv'
<1> DEFINE l == g[1]
           w == <<l, "watch">>
           p == snap[g].phase
<1> USE DEF HandleInv
<1>0. g = <<l, "call">> /\ l \in Launch /\ pc[g] = "register" /\ p \in Int
  <2>1. g[2] = "call"
    BY GoroFacts DEF Register, At, KindOK, StopLocations, Kind
  <2> QED BY <2>1, GoroFacts DEF Register, At, TypeInv, TypeOK, Snapshot, Phases
<1>1. /\ handles' \subseteq {<<l, "watch", p>>, <<l, "poll", 0>>}
      /\ cancelled' \subseteq cancelled
      /\ pc'[g] = "done"
      /\ pc'[<<l, "auto">>] \in {pc[<<l, "auto">>], "stopLock"}
      /\ \A h \in Goro : h # g => snap'[h] = snap[h] /\ (h # <<l, "auto">> => pc'[h] = pc[h])
  BY <1>0 DEF Register, DriversOf, Return, TypeInv, TypeOK, Goro, Kind
<1>2. /\ <<l, "watch", p>> \notin Known /\ <<l, "poll", 0>> \notin Known
      /\ Live(w) => snap[w].phase >= p
  BY <1>0 DEF AboutToRegister
<1>3. KindOK'
  BY <1>0, <1>1 DEF KindOK, StopLocations
<1>4. HandleKinds' /\ RegisteredIsLive'
  BY <1>1, <1>2 DEF HandleKinds, RegisteredIsLive, Known
<1>5. \A k \in Launch, kind \in {"watch", "poll"} :
        /\ <<k, kind>> \in Goro /\ <<k, "call">> \in Goro
        /\ pc'[<<k, kind>>] = pc[<<k, kind>>] /\ snap'[<<k, kind>>] = snap[<<k, kind>>]
        /\ k # l => pc'[<<k, "call">>] = pc[<<k, "call">>] /\ snap'[<<k, "call">>] = snap[<<k, "call">>]
  BY <1>0, <1>1 DEF Goro, Kind
<1>6. FreshWatch'
  <2> SUFFICES ASSUME NEW x \in Known', x[2] = "watch", Live(<<x[1], "watch">>)'
               PROVE  x[3] <= snap'[<<x[1], "watch">>].phase
    BY DEF FreshWatch
  <2>1. CASE x \in Known
    <3>1. x[1] \in Launch
      BY <2>1 DEF TypeInv, TypeOK, Known, Ctx
    <3> QED BY <1>5, <2>1, <3>1 DEF FreshWatch, Live
  <2>2. CASE x \notin Known
    <3>1. x = <<l, "watch", p>>
      BY <1>1, <2>2 DEF Known
    <3> QED BY <1>0, <1>2, <1>5, <3>1 DEF Live
  <2> QED BY <2>1, <2>2
<1>7. Unspawned'
  <2> SUFFICES ASSUME NEW k \in Launch, pc'[<<k, "call">>] \in Launching \cup {"idle"}
               PROVE  /\ ~Live(<<k, "watch">>)' /\ ~Live(<<k, "poll">>)'
                      /\ \A x \in Known' : x[1] = k => x[2] \notin {"watch", "poll"}
    BY DEF Unspawned
  <2>1. k # l
    BY <1>0, <1>1 DEF Launching
  <2>2. \A x \in Known' : x[1] = k => x \in Known
    BY <1>1, <2>1 DEF Known
  <2> QED BY <1>5, <2>1, <2>2 DEF Unspawned, Live
<1>8. AboutToRegister'
  <2> SUFFICES ASSUME NEW k \in Launch, pc'[<<k, "call">>] = "register"
               PROVE  /\ <<k, "watch", snap'[<<k, "call">>].phase>> \notin Known'
                      /\ <<k, "poll", 0>> \notin Known'
                      /\ Live(<<k, "watch">>)'
                           => snap'[<<k, "watch">>].phase >= snap'[<<k, "call">>].phase
    BY DEF AboutToRegister
  <2>1. k # l
    BY <1>0, <1>1
  <2>2. \A x \in Known' : x[1] = k => x \in Known
    BY <1>1, <2>1 DEF Known
  <2> QED BY <1>5, <2>1, <2>2 DEF AboutToRegister, Live
<1> QED BY <1>3, <1>4, <1>6, <1>7, <1>8

LEMMA HandleRebind ==
  ASSUME TypeInv, HandleInv, NEW g \in Goro, RebindWatcher(g)
  PROVE  HandleInv'
<1> DEFINE l == g[1]
           new == <<l, "watch", Entering(g)>>
<1> USE DEF HandleInv
<1>0. g = <<l, "watch">> /\ l \in Launch /\ Live(g) /\ pc[g] = "rebind"
  <2>1. g[2] = "watch" /\ pc[g] = "rebind"
    BY GoroFacts DEF RebindWatcher, At, KindOK, StopLocations, Kind
  <2> QED BY <2>1, GoroFacts DEF Live
<1>1. snap[g].phase \in Int /\ Entering(g) = snap[g].phase + 1
  BY <1>0 DEF Entering, TypeInv, TypeOK, Snapshot, Phases
<1>2. new \notin Known
  BY <1>0, <1>1 DEF FreshWatch
<1>3. /\ pc'[g] = "watching" /\ snap'[g].phase = snap[g].phase + 1
      /\ \A h \in Goro \ {g} : pc'[h] = pc[h] /\ snap'[h] = snap[h]
      /\ Known' \subseteq Known \cup {new}
      /\ handles' \subseteq handles \cup {new}
  BY <1>0, <1>1 DEF RebindWatcher, Known, TypeInv, TypeOK, Snapshot
<1>4. RegisteredIsLive'
  BY <1>2 DEF RebindWatcher, RegisteredIsLive, Known
<1>5. KindOK' /\ HandleKinds'
  BY <1>0, <1>3 DEF KindOK, HandleKinds
<1>6. FreshWatch'
  <2> SUFFICES ASSUME NEW x \in Known', x[2] = "watch", Live(<<x[1], "watch">>)'
               PROVE  x[3] <= snap'[<<x[1], "watch">>].phase
    BY DEF FreshWatch
  <2>1. CASE x = new
    BY <1>0, <1>1, <1>3, <2>1
  <2>2. CASE x # new
    <3>1. x \in Known /\ x[1] \in Launch /\ x[3] \in Int
      BY <1>3, <2>2 DEF TypeInv, TypeOK, Known, Ctx, Phases
    <3>2. CASE x[1] = l
      BY <1>0, <1>1, <1>3, <3>1, <3>2 DEF FreshWatch
    <3>3. CASE x[1] # l
      <4>1. <<x[1], "watch">> \in Goro \ {g}
        BY <1>0, <3>1, <3>3 DEF Goro, Kind
      <4> QED BY <1>3, <3>1, <4>1 DEF FreshWatch, Live
    <3> QED BY <3>2, <3>3
  <2> QED BY <2>1, <2>2
<1>7. \A k \in Launch :
        /\ <<k, "call">> \in Goro /\ <<k, "watch">> \in Goro /\ <<k, "poll">> \in Goro
        /\ pc'[<<k, "call">>] = pc[<<k, "call">>] /\ snap'[<<k, "call">>] = snap[<<k, "call">>]
        /\ pc'[<<k, "poll">>] = pc[<<k, "poll">>]
        /\ k # l => pc'[<<k, "watch">>] = pc[<<k, "watch">>] /\ snap'[<<k, "watch">>] = snap[<<k, "watch">>]
  BY <1>0, <1>3 DEF Goro, Kind
<1>8. Unspawned'
  <2> SUFFICES ASSUME NEW k \in Launch, pc'[<<k, "call">>] \in Launching \cup {"idle"}
               PROVE  /\ ~Live(<<k, "watch">>)' /\ ~Live(<<k, "poll">>)'
                      /\ \A x \in Known' : x[1] = k => x[2] \notin {"watch", "poll"}
    BY DEF Unspawned
  <2>1. k # l
    BY <1>0, <1>7 DEF Unspawned
  <2> QED BY <1>3, <1>7, <2>1 DEF Unspawned, Live
<1>9. AboutToRegister'
  <2> SUFFICES ASSUME NEW k \in Launch, pc'[<<k, "call">>] = "register"
               PROVE  /\ <<k, "watch", snap'[<<k, "call">>].phase>> \notin Known'
                      /\ <<k, "poll", 0>> \notin Known'
                      /\ Live(<<k, "watch">>)'
                           => snap'[<<k, "watch">>].phase >= snap'[<<k, "call">>].phase
    BY DEF AboutToRegister
  <2>1. \A h \in Goro : snap[h].phase \in Int
    BY DEF TypeInv, TypeOK, Snapshot, Phases
  <2>2. snap[<<k, "call">>].phase \in Int
    BY <1>7, <2>1
  <2>3. CASE k = l
    <3>1. snap[g].phase >= snap[<<k, "call">>].phase
      BY <1>0, <1>7, <2>3 DEF AboutToRegister
    <3>2. <<k, "watch", snap[<<k, "call">>].phase>> # new
      BY <1>1, <2>2, <3>1
    <3>3. /\ <<k, "watch", snap[<<k, "call">>].phase>> \notin Known'
          /\ <<k, "poll", 0>> \notin Known'
      BY <1>3, <1>7, <3>2 DEF AboutToRegister
    <3>4. snap'[<<k, "watch">>].phase >= snap[<<k, "call">>].phase
      BY <1>0, <1>1, <1>3, <2>2, <2>3, <3>1
    <3> QED BY <1>7, <3>3, <3>4
  <2>4. CASE k # l
    BY <1>3, <1>7, <2>4 DEF AboutToRegister, Live
  <2> QED BY <2>3, <2>4
<1> QED BY <1>4, <1>5, <1>6, <1>8, <1>9

(* The other steps of a running goroutine only move it, or drop handles.   *)
LEMMA HandleLaunch ==
  ASSUME TypeInv, HandleInv, NEW g \in Goro,
         \/ LoadRules(g) \/ PushRules(g) \/ SetRunning(g) \/ AppendRunAttackID(g)
         \/ StartAttack(g) \/ SaveAttackIDs(g) \/ Recover(g) \/ RecoverFail(g)
  PROVE  HandleInv'
<1> USE DEF mapVars, At, KindOKOf, Launching, StopLocations
<1>0. Live(g) /\ KindOKOf(g, pc[g]) /\ snap[g] \in Snapshot /\ Row \in Snapshot
  BY StepIsLive, RowType DEF Step, HandleInv, KindOK, TypeInv, TypeOK
<1>1. UNCHANGED handles
  BY DEF LoadRules, PushRules, SetRunning, AppendRunAttackID, StartAttack, SaveAttackIDs,
         Recover, RecoverFail
<1>2. CASE Return(g)
  BY <1>0, <1>1, <1>2, HandleReturn
<1>3. CASE LoadRules(g) /\ ~Return(g)
  <2>1. /\ pc[g] = "load"
        /\ \/ Goto(g, "push")
           \/ g[2] = "watch" /\ GotoStop(g, "failed")
    BY <1>3 DEF LoadRules
  <2> QED BY <1>0, <1>1, <2>1, HandleGoto DEF Locations, Terminal, Kind
<1>4. CASE PushRules(g) /\ ~Return(g)
  <2>1. /\ pc[g] = "push"
        /\ \/ g[2] = "watch" /\ Goto(g, "setPhase")
           \/ g[2] # "watch" /\ Goto(g, "setRunning")
    BY <1>4 DEF PushRules
  <2> QED BY <1>0, <1>1, <2>1, HandleGoto DEF Locations
<1>5. CASE (SetRunning(g) \/ AppendRunAttackID(g)) /\ ~Return(g)
  <2>1. /\ pc[g] \in {"setRunning", "append"}
        /\ \E l \in {"append", "spawn", "zeusStart"} : Goto(g, l)
    BY <1>5 DEF SetRunning, AppendRunAttackID
  <2> QED BY <1>0, <1>1, <2>1, HandleGoto DEF Locations
<1>6. CASE (StartAttack(g) \/ SaveAttackIDs(g)) /\ ~Return(g)
  <2>1. {<<g[1], "client">>, <<g[1], "zeus">>} \subseteq Attack
    BY GoroFacts DEF Attack
  <2>2. \A id \in Attack : [snap[g] EXCEPT !.attacks = {id}] \in Snapshot
    BY <1>0 DEF Snapshot
  <2>3. pc[g] \in {"zeusStart", "saveIDs"}
        /\ \/ Goto(g, "spawn")
           \/ \E row \in Snapshot : GotoWith(g, "saveIDs", row)
    BY <1>6, <2>1, <2>2 DEF StartAttack, SaveAttackIDs
  <2> QED BY <1>0, <1>1, <2>3, HandleGoto DEF Locations
<1>7. CASE (Recover(g) \/ RecoverFail(g)) /\ ~Return(g)
  <2>1. /\ pc[g] = "recover"
        /\ \E l \in {"spawn", "recoverFail"} : GotoWith(g, l, Row)
    BY <1>7 DEF Recover, RecoverFail
  <2> QED BY <1>0, <1>1, <2>1, HandleGoto DEF Locations
<1> QED BY <1>2, <1>3, <1>4, <1>5, <1>6, <1>7

LEMMA HandleStop ==
  ASSUME TypeInv, HandleInv, NEW g \in Goro,
         \/ PauseLock(g) \/ PauseAttacks(g) \/ SetPaused(g) \/ StopLock(g) \/ StopGet(g)
         \/ StopClear(g) \/ StopAndHarvest(g) \/ Finalize(g)
  PROVE  HandleInv'
<1> USE DEF mapVars, At, KindOKOf, StopLocations, Launching
<1>0. Live(g) /\ KindOKOf(g, pc[g]) /\ snap[g] \in Snapshot /\ attackIDs \subseteq Attack
  BY StepIsLive DEF Step, HandleInv, KindOK, TypeInv, TypeOK
<1>1. CASE PauseLock(g) \/ StopLock(g)
  <2>1. /\ pc'[g] \in {"pauseStop", "stopGet"} /\ KindOKOf(g, pc'[g])
        /\ \A h \in Goro \ {g} : pc'[h] = pc[h]
        /\ UNCHANGED snap
    BY <1>0, <1>1, GoroFacts DEF PauseLock, StopLock, TypeInv, TypeOK, Kind
  <2>2. handles' = {} /\ cancelled' = cancelled \cup handles
    BY <1>1 DEF PauseLock, StopLock, DropHandles
  <2>3. Known' = Known /\ RegisteredIsLive'
    BY <2>2 DEF Known, RegisteredIsLive
  <2> QED BY <1>0, <2>1, <2>2, <2>3, HandleMove
<1>2. CASE ~(PauseLock(g) \/ StopLock(g))
  <2>1. UNCHANGED handles
    BY <1>2 DEF PauseAttacks, SetPaused, StopGet, StopClear, StopAndHarvest, Finalize
  <2>2. CASE Return(g)
    BY <1>0, <2>1, <2>2, HandleReturn
  <2>3. CASE ~Return(g)
    <3>1. [snap[g] EXCEPT !.attacks = attackIDs] \in Snapshot
          /\ [snap[g] EXCEPT !.attacks = attackIDs].phase = snap[g].phase
      BY <1>0 DEF Snapshot
    <3>2. \/ /\ pc[g] = "pauseStop"
             /\ Goto(g, "setPaused")
          \/ /\ pc[g] = "stopGet"
             /\ GotoWith(g, "stopClear", [snap[g] EXCEPT !.attacks = attackIDs])
          \/ /\ pc[g] \in {"stopClear", "stopAttacks"}
             /\ \E l \in {"stopAttacks", "finalize"} : Goto(g, l)
      BY <1>2, <2>3 DEF PauseAttacks, SetPaused, StopGet, StopClear, StopAndHarvest, Finalize
    <3> QED BY <1>0, <2>1, <3>1, <3>2, HandleGoto, GoroFacts DEF Locations, Kind
  <2> QED BY <2>2, <2>3
<1> QED BY <1>1, <1>2

LEMMA HandleDriver ==
  ASSUME TypeInv, HandleInv, NEW g \in Goro,
         \/ WatchExit(g) \/ AdvancePhase(g) \/ SetPhase(g)
         \/ PollExit(g) \/ PollDeadline(g) \/ PollTick(g) \/ PollHarvest(g)
  PROVE  HandleInv'
<1> USE DEF mapVars, At, KindOKOf, StopLocations, Launching
<1>0. Live(g) /\ KindOKOf(g, pc[g])
  BY StepIsLive DEF Step, HandleInv, KindOK
<1>1. UNCHANGED handles
  BY DEF WatchExit, AdvancePhase, SetPhase, PollExit, PollDeadline, PollTick, PollHarvest
<1>2. CASE Return(g)
  BY <1>0, <1>1, <1>2, HandleReturn
<1>3. CASE ~Return(g)
  <2>1. \/ /\ pc[g] \in {"watching", "setPhase"}
           /\ \E l \in {"stopLock", "load", "rebind"} : Goto(g, l)
        \/ /\ pc[g] \in {"polling", "pollHarvest"}
           /\ \/ \E s \in Terminal : GotoStop(g, s)
              \/ Goto(g, "pollHarvest")
    BY <1>3 DEF WatchExit, AdvancePhase, SetPhase, PollExit, PollDeadline, PollTick,
                PollHarvest, Terminal
  <2>2. g[2] = (IF pc[g] \in {"watching", "setPhase"} THEN "watch" ELSE "poll")
    BY <1>0, <2>1, GoroFacts DEF Kind
  <2> QED BY <1>0, <1>1, <2>1, <2>2, HandleGoto DEF Locations
<1> QED BY <1>2, <1>3

LEMMA HandleWorld ==
  ASSUME TypeInv, HandleInv, (\E b \in Boots : Crash(b)) \/ (\E a \in Attack : AttackEnds(a))
  PROVE  HandleInv'
<1>1. ASSUME NEW b \in Boots, Crash(b) PROVE HandleInv'
  <2>1. /\ <<b, "call">> \in Goro
        /\ pc'[<<b, "call">>] = "recover"
        /\ \A h \in Goro : h # <<b, "call">> => pc'[h] \in {"idle", "done"}
        /\ Known' = {} /\ handles' = {}
    BY <1>1, CallFacts DEF Crash, Live, Known, TypeInv, TypeOK, Launch
  <2>2. KindOK' /\ HandleKinds' /\ RegisteredIsLive' /\ FreshWatch'
    BY <2>1 DEF KindOK, HandleKinds, RegisteredIsLive, FreshWatch, StopLocations
  <2>3. Unspawned' /\ AboutToRegister'
    <3>1. \A k \in Launch, kind \in {"watch", "poll"} : ~Live(<<k, kind>>)'
      BY <2>1 DEF Live, Goro, Kind
    <3>2. \A k \in Launch : pc'[<<k, "call">>] # "register"
      BY <2>1 DEF Goro, Kind
    <3> QED BY <2>1, <3>1, <3>2 DEF Unspawned, AboutToRegister
  <2> QED BY <2>2, <2>3 DEF HandleInv
<1>2. ASSUME NEW a \in Attack, AttackEnds(a) PROVE HandleInv'
  BY <1>2 DEF AttackEnds, memVars, HandleInv, KindOK, HandleKinds, RegisteredIsLive,
              FreshWatch, Unspawned, AboutToRegister, Known, Live
<1> QED BY <1>1, <1>2

LEMMA HandleStep == TypeInv /\ HandleInv /\ [Next]_vars => HandleInv'
<1> SUFFICES ASSUME TypeInv, HandleInv, [Next]_vars PROVE HandleInv'
  OBVIOUS
<1>1. CASE UNCHANGED vars
  BY <1>1 DEF vars, HandleInv, KindOK, HandleKinds, RegisteredIsLive, FreshWatch, Unspawned,
              AboutToRegister, Known, Live
<1>2. ASSUME NEW c \in Calls, Call(c) \/ Disconnect(c) PROVE HandleInv'
  BY <1>2, HandleCall
<1>3. ASSUME NEW g \in Goro, Step(g) \/ AdvancePhase(g) \/ PollDeadline(g) PROVE HandleInv'
  BY <1>3, HandleLaunch, HandleSpawn, HandleRegister, HandleStop, HandleDriver, HandleRebind
     DEF Step
<1>4. CASE (\E b \in Boots : Crash(b)) \/ (\E a \in Attack : AttackEnds(a))
  BY <1>4, HandleWorld
<1> QED BY <1>1, <1>2, <1>3, <1>4 DEF Next

LEMMA HandleInit == Init => HandleInv
BY DEF Init, HandleInv, KindOK, HandleKinds, RegisteredIsLive, FreshWatch, Unspawned,
       AboutToRegister, Known, Live, StopLocations, Launch, Goro, Kind

(* No cancel function kept in o.running has been called already, however   *)
(* many launches, pauses, stops and watchers work on the run at once.      *)
THEOREM RegisteredIsLiveHolds == Spec => []RegisteredIsLive
<1>1. Init => TypeInv /\ HandleInv
  BY TypeInit, HandleInit
<1>2. (TypeInv /\ HandleInv) /\ [Next]_vars => (TypeInv /\ HandleInv)'
  BY TypeStep, HandleStep
<1>3. TypeInv /\ HandleInv => RegisteredIsLive
  BY DEF HandleInv
<1> QED BY <1>1, <1>2, <1>3, PTL DEF Spec

-----------------------------------------------------------------------------
(* NoLeakedGoroutine, for calls that do not overlap.  A launch overwrites  *)
(* the entry in o.running: it must find none, and no driver that is not    *)
(* cancelled, from the moment its call has read the row.                   *)

Active(h) == Live(h) /\ ~Cancelled(h)

Quiet == ~registered /\ \A h \in Drivers : ~Active(h)

(* At most one call, Recover or auto-complete goroutine is under way.      *)
Solo == \A g, h \in Launch \X {"call", "auto"} : Live(g) /\ Live(h) => g = h

(* A call on its way to spawn drivers, or to leave the run paused.         *)
Preparing == {"load", "push", "setRunning", "append", "zeusStart", "saveIDs", "spawn",
              "recover", "pauseStop", "setPaused"}

(* A launch after it has marked the run running.                           *)
MidLaunch == {"append", "zeusStart", "saveIDs", "spawn", "register"}

(* The context under which a launch registers its driver h.                *)
Registers(l, h) ==
  /\ h \in DriversOf(<<l, "call">>)
  /\ CtxOf(h) = <<h[1], h[2], IF h[2] = "watch" THEN snap[<<l, "call">>].phase ELSE 0>>

QuietInv ==
  /\ status \in {"pending", "paused"} => Quiet
  /\ \A l \in Launch : pc[<<l, "call">>] \in Preparing => Quiet
  /\ \A l \in Launch : pc[<<l, "call">>] \in MidLaunch => status \notin {"pending", "paused"}
  /\ \A l \in Launch : pc[<<l, "call">>] = "register" =>
       ~registered /\ \A h \in Drivers : Active(h) => Registers(l, h)

LeakInv == TypeInv /\ HandleInv /\ Solo /\ QuietInv /\ NoLeakedGoroutine

LEMMA DriverFacts ==
  ASSUME NEW h \in Drivers
  PROVE  h \in Goro /\ h[1] \in Launch /\ h[2] \in {"watch", "poll"} /\ h = <<h[1], h[2]>>
BY DEF Drivers, Goro, Kind

(* Which calls move to where, as the invariant tells locations apart.      *)
LEMMA CallMove ==
  ASSUME TypeInv, HandleInv, [Next]_vars, NEW l \in Launch,
         pc'[<<l, "call">>] # pc[<<l, "call">>],
         pc'[<<l, "call">>] \in Preparing \cup MidLaunch
  PROVE  LET k == <<l, "call">> IN
         \/ pc'[k] = "load" /\ status \in {"pending", "paused"} /\ status' = status
         \/ /\ pc[k] = "pauseLock" /\ pc'[k] = "pauseStop"
            /\ registered' = FALSE /\ cancelled' = cancelled \cup handles
            /\ snap' = snap /\ \A h \in Drivers : pc'[h] = pc[h]
         \/ /\ pc'[k] = "recover"
            /\ registered' = FALSE /\ \A h \in Drivers : ~Live(h)'
         \/ pc[k] \in Preparing /\ pc'[k] \in Preparing \ MidLaunch
         \/ pc[k] = "setRunning" /\ pc'[k] \in {"append", "spawn"} /\ status' = "running"
         \/ pc[k] = "recover" /\ pc'[k] = "spawn" /\ status = "running" /\ status' = status
         \/ /\ pc[k] \in MidLaunch \cap Preparing /\ pc'[k] \in MidLaunch
            /\ pc'[k] = "register" => pc[k] = "spawn"
<1> DEFINE k == <<l, "call">>
           P == \/ pc'[k] = "load" /\ status \in {"pending", "paused"} /\ status' = status
                \/ /\ pc[k] = "pauseLock" /\ pc'[k] = "pauseStop"
                   /\ registered' = FALSE /\ cancelled' = cancelled \cup handles
                   /\ snap' = snap /\ \A h \in Drivers : pc'[h] = pc[h]
                \/ /\ pc'[k] = "recover"
                   /\ registered' = FALSE /\ \A h \in Drivers : ~Live(h)'
                \/ pc[k] \in Preparing /\ pc'[k] \in Preparing \ MidLaunch
                \/ pc[k] = "setRunning" /\ pc'[k] \in {"append", "spawn"} /\ status' = "running"
                \/ pc[k] = "recover" /\ pc'[k] = "spawn" /\ status = "running" /\ status' = status
                \/ /\ pc[k] \in MidLaunch \cap Preparing /\ pc'[k] \in MidLaunch
                   /\ pc'[k] = "register" => pc[k] = "spawn"
<1> SUFFICES P
  OBVIOUS
<1>0. k \in Goro /\ pc'[k] # pc[k] /\ pc'[k] \in Preparing \cup MidLaunch
  BY CallFacts
<1> USE DEF TypeInv, TypeOK, Goto, GotoWith, GotoStop, Return, At, rowVars, Preparing, MidLaunch
<1>1. CASE UNCHANGED vars
  BY <1>0, <1>1 DEF vars
<1>2. ASSUME NEW c \in Calls, Call(c) PROVE P
  <2>1. c = l
    BY <1>0, <1>2, CallFacts DEF Call, StartRun, ResumeRun, PauseRun, StopCall, BeginLaunch, Launch
  <2>2. CASE StartRun(c) \/ ResumeRun(c)
    BY <1>0, <2>1, <2>2 DEF StartRun, ResumeRun, BeginLaunch
  <2>3. CASE PauseRun(c) \/ StopCall(c)
    BY <1>0, <2>1, <2>3 DEF PauseRun, StopCall
  <2> QED BY <1>2, <2>2, <2>3 DEF Call
<1>3. ASSUME NEW c \in Calls, Disconnect(c) PROVE P
  BY <1>0, <1>3 DEF Disconnect
<1>4. ASSUME NEW b \in Boots, Crash(b) PROVE P
  <2>1. b = l
    BY <1>0, <1>4 DEF Crash, Live
  <2>2. \A h \in Drivers : pc'[h] \in {"idle", "done"}
    BY <1>4, DriverFacts DEF Crash, Live
  <2>3. pc'[k] = "recover" /\ registered' = FALSE
    BY <1>0, <1>4, <2>1 DEF Crash
  <2> QED BY <2>2, <2>3 DEF Live
<1>5. ASSUME NEW a \in Attack, AttackEnds(a) PROVE P
  BY <1>0, <1>5 DEF AttackEnds
<1>6. ASSUME NEW g \in Goro, Step(g) \/ AdvancePhase(g) \/ PollDeadline(g) PROVE P
  <2>0. KindOKOf(g, pc[g]) /\ g[1] \in Launch /\ g = <<g[1], g[2]>>
    BY GoroFacts DEF HandleInv, KindOK, KindOKOf
  <2>1. CASE SpawnDrivers(g)
    <3>1. g[2] = "call"
      BY <2>0, <2>1, GoroFacts DEF SpawnDrivers, KindOKOf, StopLocations, Kind
    <3>2. k \notin DriversOf(g)
      BY DEF DriversOf
    <3>3. g = k
      BY <1>0, <2>1, <3>2 DEF SpawnDrivers
    <3> QED BY <1>0, <2>1, <3>3 DEF SpawnDrivers
  <2>2. CASE Register(g)
    BY <1>0, <2>2 DEF Register
  <2>3. g = k \/ SpawnDrivers(g) \/ Register(g)
    BY <1>0, <1>6 DEF Step, AdvancePhase, PollDeadline, LoadRules, PushRules, SetRunning,
       AppendRunAttackID, StartAttack, SaveAttackIDs, PauseLock, PauseAttacks, SetPaused, StopLock,
       StopGet, StopClear, StopAndHarvest, Finalize, WatchExit, SetPhase, RebindWatcher, PollExit,
       PollTick, PollHarvest, Recover, RecoverFail
  <2>4. CASE g = k /\ (LoadRules(g) \/ PushRules(g))
    BY <1>0, <2>4 DEF LoadRules, PushRules
  <2>5. CASE g = k /\ SetRunning(g)
    BY <1>0, <2>5 DEF SetRunning, UpdateRunStatus
  <2>6. CASE g = k /\ (AppendRunAttackID(g) \/ StartAttack(g) \/ SaveAttackIDs(g))
    BY <1>0, <2>6 DEF AppendRunAttackID, StartAttack, SaveAttackIDs
  <2>7. CASE g = k /\ PauseLock(g)
    <3>1. \A h \in Drivers : h # k /\ h \in Goro
      BY DriverFacts
    <3> QED BY <1>0, <2>7, <3>1 DEF PauseLock, DropHandles
  <2>8. CASE g = k /\ (PauseAttacks(g) \/ SetPaused(g))
    BY <1>0, <2>8 DEF PauseAttacks, SetPaused
  <2>9. CASE g = k /\ (StopLock(g) \/ StopGet(g) \/ StopClear(g) \/ StopAndHarvest(g) \/ Finalize(g))
    BY <1>0, <2>9 DEF StopLock, StopGet, StopClear, StopAndHarvest, Finalize
  <2>10. CASE g = k /\ (Recover(g) \/ RecoverFail(g))
    BY <1>0, <2>10 DEF Recover, RecoverFail
  <2>11. g = k => pc[g] \notin {"watching", "setPhase", "rebind", "polling", "pollHarvest"}
    BY <2>0 DEF KindOKOf
  <2>12. CASE g = k /\ (WatchExit(g) \/ AdvancePhase(g) \/ SetPhase(g) \/ RebindWatcher(g)
                         \/ PollExit(g) \/ PollTick(g) \/ PollHarvest(g) \/ PollDeadline(g))
    BY <2>11, <2>12 DEF WatchExit, AdvancePhase, SetPhase, RebindWatcher, PollExit, PollTick,
                        PollHarvest, PollDeadline
  <2> QED
    BY <1>6, <2>1, <2>2, <2>3, <2>4, <2>5, <2>6, <2>7, <2>8, <2>9, <2>10, <2>12 DEF Step
<1> QED BY <1>1, <1>2, <1>3, <1>4, <1>5, <1>6 DEF Next

(* A step that moves goroutine g alone and brings up no context of a       *)
(* driver: all of them but SpawnDrivers, Register, RebindWatcher and Crash.*)
MovesOnly(g) ==
  /\ Live(g) \/ (g[2] = "call" /\ Accepts(g[1]))
  /\ \A h \in Goro \ {g} : pc'[h] = pc[h] /\ snap'[h] = snap[h]
  /\ g[2] = "watch" /\ Live(g)' => snap'[g].phase = snap[g].phase
  /\ pc'[g] = "register" <=> pc[g] = "register"
  /\ pc[g] = "register" => snap'[g] = snap[g]
  /\ \A x \in cancelled : x \in cancelled' \/ (<<x[1], x[2]>> = g /\ ~Live(g)')
  /\ registered' => registered
  /\ handles' = handles \/ (handles' = {} /\ handles \subseteq cancelled')

LEMMA MovesGoto ==
  ASSUME TypeInv, NEW g \in Goro, pc[g] # "register", UNCHANGED <<registered, handles>>,
         Live(g) \/ (g[2] = "call" /\ Accepts(g[1])),
         \/ Return(g)
         \/ \E s \in Terminal : GotoStop(g, s)
         \/ \E l \in Locations \ {"register"} :
              \/ Goto(g, l)
              \/ \E row \in Snapshot :
                   GotoWith(g, l, row) /\ (g[2] = "watch" => row.phase = snap[g].phase)
  PROVE  MovesOnly(g)
BY DEF MovesOnly, Return, GotoStop, Goto, GotoWith, TypeInv, TypeOK, Live

LEMMA MovesStep ==
  ASSUME TypeInv, HandleInv, NEW g \in Goro,
         Step(g) \/ AdvancePhase(g) \/ PollDeadline(g)
  PROVE  \/ MovesOnly(g)
         \/ g[2] = "call" /\ (SpawnDrivers(g) \/ Register(g))
         \/ g[2] = "watch" /\ RebindWatcher(g)
<1> USE DEF mapVars, At, StopLocations
<1>0. /\ Live(g) /\ KindOKOf(g, pc[g]) /\ snap[g] \in Snapshot /\ Row \in Snapshot
      /\ g[2] \in Kind /\ attackIDs \subseteq Attack
      /\ {<<g[1], "client">>, <<g[1], "zeus">>} \subseteq Attack
  BY StepIsLive, RowType, GoroFacts DEF HandleInv, KindOK, KindOKOf, TypeInv, TypeOK, Attack
<1>1. CASE \/ LoadRules(g) \/ PushRules(g) \/ SetRunning(g) \/ AppendRunAttackID(g)
           \/ SaveAttackIDs(g)
  <2>1. /\ pc[g] # "register" /\ UNCHANGED <<registered, handles>>
        /\ \/ Return(g)
           \/ \E s \in Terminal : GotoStop(g, s)
           \/ \E l \in Locations \ {"register"} : Goto(g, l)
    BY <1>1 DEF LoadRules, PushRules, SetRunning, AppendRunAttackID, SaveAttackIDs,
                Locations, Terminal
  <2> QED BY <1>0, <2>1, MovesGoto
<1>2. CASE StartAttack(g)
  <2>1. \A id \in Attack : /\ [snap[g] EXCEPT !.attacks = {id}] \in Snapshot
                            /\ [snap[g] EXCEPT !.attacks = {id}].phase = snap[g].phase
    BY <1>0 DEF Snapshot
  <2>2. /\ pc[g] # "register" /\ UNCHANGED <<registered, handles>>
        /\ \/ Goto(g, "spawn")
           \/ \E row \in Snapshot : GotoWith(g, "saveIDs", row) /\ row.phase = snap[g].phase
    BY <1>0, <1>2, <2>1 DEF StartAttack
  <2> QED BY <1>0, <2>2, MovesGoto DEF Locations
<1>3. CASE PauseLock(g) \/ StopLock(g)
  <2>1. /\ pc[g] # "register" /\ pc'[g] # "register"
        /\ \A h \in Goro \ {g} : pc'[h] = pc[h]
        /\ UNCHANGED snap
        /\ handles' = {} /\ cancelled' = cancelled \cup handles /\ registered' = FALSE
    BY <1>3 DEF PauseLock, StopLock, DropHandles, TypeInv, TypeOK
  <2> QED BY <1>0, <2>1 DEF MovesOnly
<1>4. CASE StopGet(g)
  <2>1. [snap[g] EXCEPT !.attacks = attackIDs] \in Snapshot
        /\ [snap[g] EXCEPT !.attacks = attackIDs].phase = snap[g].phase
    BY <1>0 DEF Snapshot
  <2>2. /\ pc[g] # "register" /\ UNCHANGED <<registered, handles>>
        /\ Return(g) \/ GotoWith(g, "stopClear", [snap[g] EXCEPT !.attacks = attackIDs])
    BY <1>4 DEF StopGet
  <2> QED BY <1>0, <2>1, <2>2, MovesGoto DEF Locations
<1>5. CASE \/ PauseAttacks(g) \/ SetPaused(g) \/ StopClear(g) \/ StopAndHarvest(g)
           \/ Finalize(g) \/ RecoverFail(g)
  <2>1. /\ pc[g] # "register" /\ UNCHANGED <<registered, handles>>
        /\ \/ Return(g)
           \/ \E l \in Locations \ {"register"} : Goto(g, l)
    BY <1>5 DEF PauseAttacks, SetPaused, StopClear, StopAndHarvest, Finalize, RecoverFail,
                Locations
  <2> QED BY <1>0, <2>1, MovesGoto
<1>6. CASE \/ WatchExit(g) \/ AdvancePhase(g) \/ SetPhase(g) \/ PollExit(g)
           \/ PollDeadline(g) \/ PollTick(g) \/ PollHarvest(g)
  <2>1. /\ pc[g] # "register" /\ UNCHANGED <<registered, handles>>
        /\ \/ Return(g)
           \/ \E s \in Terminal : GotoStop(g, s)
           \/ \E l \in Locations \ {"register"} : Goto(g, l)
    BY <1>6 DEF WatchExit, AdvancePhase, SetPhase, PollExit, PollDeadline, PollTick,
                PollHarvest, Locations, Terminal
  <2> QED BY <1>0, <2>1, MovesGoto
<1>7. CASE Recover(g)
  <2>1. /\ pc[g] = "recover" /\ UNCHANGED <<registered, handles>>
        /\ Return(g) \/ GotoWith(g, "recoverFail", Row) \/ GotoWith(g, "spawn", Row)
    BY <1>7 DEF Recover
  <2>2. g[2] # "watch"
    BY <1>0, <2>1 DEF KindOKOf
  <2> QED BY <1>0, <2>1, <2>2, MovesGoto DEF Locations
<1>8. SpawnDrivers(g) \/ Register(g) => g[2] = "call"
  BY <1>0 DEF SpawnDrivers, Register, KindOKOf, Kind
<1>9. RebindWatcher(g) => g[2] = "watch"
  BY <1>0 DEF RebindWatcher, KindOKOf, Kind
<1> QED BY <1>1, <1>2, <1>3, <1>4, <1>5, <1>6, <1>7, <1>8, <1>9 DEF Step

LEMMA MovesNext ==
  ASSUME TypeInv, HandleInv, [Next]_vars
  PROVE  \/ UNCHANGED <<pc, snap, registered, handles, cancelled>>
         \/ \E g \in Goro : MovesOnly(g)
         \/ \E g \in Goro : g[2] = "call" /\ (SpawnDrivers(g) \/ Register(g))
         \/ \E g \in Goro : g[2] = "watch" /\ RebindWatcher(g)
         \/ \E b \in Boots : Crash(b)
<1>1. ASSUME NEW c \in Calls, Call(c) PROVE \E g \in Goro : MovesOnly(g)
  <2> DEFINE g == <<c, "call">>
  <2>1. g \in Goro /\ g[2] = "call" /\ g[1] = c /\ Row \in Snapshot
    BY CallFacts, RowType DEF TypeInv, Launch
  <2>2. /\ Accepts(c) /\ pc[g] = "idle" /\ UNCHANGED <<registered, handles>>
        /\ \/ Return(g) \/ GotoStop(g, "completed")
           \/ GotoWith(g, "load", Row) \/ GotoWith(g, "pauseLock", Row)
    BY <1>1 DEF Call, StartRun, ResumeRun, PauseRun, StopCall, BeginLaunch, Accepts, At, mapVars
  <2>3. MovesOnly(g)
    BY <2>1, <2>2, MovesGoto DEF Locations, Terminal
  <2> QED BY <2>1, <2>3
<1>2. ASSUME NEW c \in Calls, Disconnect(c) PROVE \E g \in Goro : MovesOnly(g)
  <2> DEFINE g == <<c, "call">>
  <2>1. g \in Goro /\ g[2] = "call" /\ Live(g)
    BY <1>2, CallFacts DEF Disconnect, Launch
  <2>2. UNCHANGED <<pc, snap, registered, handles>> /\ cancelled \subseteq cancelled'
    BY <1>2 DEF Disconnect
  <2> QED BY <2>1, <2>2 DEF MovesOnly
<1>3. CASE UNCHANGED vars
  BY <1>3 DEF vars
<1>4. ASSUME NEW a \in Attack, AttackEnds(a)
      PROVE  UNCHANGED <<pc, snap, registered, handles, cancelled>>
  BY <1>4 DEF AttackEnds, memVars
<1> QED BY <1>1, <1>2, <1>3, <1>4, MovesStep DEF Next

(* A driver that can act could act before, unless it has just been spawned *)
(* or has just rebound.                                                    *)
LEMMA MovesActive ==
  ASSUME TypeInv, HandleInv, NEW g \in Goro, MovesOnly(g), NEW h \in Drivers, Active(h)'
  PROVE  Active(h) /\ CtxOf(h)' = CtxOf(h)
<1>0. h \in Goro /\ h[2] \in {"watch", "poll"} /\ h = <<h[1], h[2]>>
  BY DriverFacts
<1>1. pc'[h] \notin {"idle", "done"} /\ CtxOf(h)' \notin cancelled'
  BY DEF Active, Live, Cancelled
<1>2. Live(h) /\ CtxOf(h)' = CtxOf(h)
  BY <1>0, <1>1 DEF MovesOnly, Live, CtxOf
<1>3. <<CtxOf(h)[1], CtxOf(h)[2]>> = h
  BY <1>0 DEF CtxOf
<1>4. CtxOf(h) \notin cancelled
  BY <1>0, <1>1, <1>2, <1>3 DEF MovesOnly, Live
<1> QED BY <1>2, <1>4 DEF Active, Cancelled

LEMMA SpawnActive ==
  ASSUME TypeInv, NEW l \in Launch, SpawnDrivers(<<l, "call">>), NEW h \in Drivers, Active(h)'
  PROVE  \/ Active(h) /\ CtxOf(h)' = CtxOf(h)
         \/ h[1] = l /\ Registers(l, h)'
<1> DEFINE g == <<l, "call">>
<1>0. h \in Goro /\ g \in Goro /\ h # g /\ g \notin DriversOf(g)
  BY DriverFacts, CallFacts DEF DriversOf
<1>1. /\ UNCHANGED cancelled
      /\ pc' = [i \in Goro |-> IF i = g THEN "register"
                  ELSE IF i \in DriversOf(g) THEN (IF i[2] = "watch" THEN "watching" ELSE "polling") ELSE pc[i]]
      /\ snap' = [i \in Goro |-> IF i \in DriversOf(g) THEN snap[g] ELSE snap[i]]
  BY DEF SpawnDrivers, memVars
<1>2. CASE h \notin DriversOf(g)
  BY <1>0, <1>1, <1>2 DEF Active, Live, Cancelled, CtxOf
<1>3. CASE h \in DriversOf(g)
  <2>1. snap'[h] = snap[g] /\ snap'[g] = snap[g]
    BY <1>0, <1>1, <1>3
  <2>2. DriversOf(g)' = DriversOf(g)
    BY <2>1 DEF DriversOf
  <2>3. h[1] = l /\ h[2] \in {"watch", "poll"}
    BY <1>3 DEF DriversOf
  <2> QED BY <1>3, <2>1, <2>2, <2>3 DEF Registers, CtxOf
<1> QED BY <1>2, <1>3

LEMMA RegisterActive ==
  ASSUME TypeInv, NEW l \in Launch, Register(<<l, "call">>), NEW h \in Drivers, Active(h)'
  PROVE  Active(h) /\ CtxOf(h)' = CtxOf(h) /\ (Registers(l, h) => CtxOf(h) \in handles')
<1> DEFINE g == <<l, "call">>
<1>0. h \in Goro /\ h # g /\ h # <<l, "auto">> /\ h = <<h[1], h[2]>> /\ h[2] \in {"watch", "poll"}
  BY DriverFacts
<1>1. /\ pc'[h] = pc[h] /\ snap'[h] = snap[h]
      /\ \A x \in cancelled : x \in cancelled' \/ <<x[1], x[2]>> = g
      /\ handles' = {<<i[1], i[2], IF i[2] = "watch" THEN snap[g].phase ELSE 0>> : i \in DriversOf(g)}
  BY <1>0 DEF Register, Return, TypeInv, TypeOK
<1>2. Live(h) /\ CtxOf(h)' = CtxOf(h) /\ CtxOf(h) \notin cancelled'
  BY <1>1 DEF Active, Live, Cancelled, CtxOf
<1>3. <<CtxOf(h)[1], CtxOf(h)[2]>> = h
  BY <1>0 DEF CtxOf
<1>4. CtxOf(h) \notin cancelled
  BY <1>0, <1>1, <1>2, <1>3
<1>5. Registers(l, h) => CtxOf(h) \in handles'
  BY <1>1 DEF Registers
<1> QED BY <1>2, <1>4, <1>5 DEF Active, Cancelled

LEMMA RebindActive ==
  ASSUME TypeInv, HandleInv, NEW g \in Goro, g[2] = "watch", RebindWatcher(g),
         NEW h \in Drivers, Active(h)'
  PROVE  \/ registered /\ CtxOf(h)' \in handles'
         \/ /\ Active(h) /\ CtxOf(h)' = CtxOf(h)
            /\ CtxOf(h) \in handles => CtxOf(h) \in handles'
<1>0. h \in Goro
  BY DriverFacts
<1>1. CASE h = g
  <2>1. snap'[g].phase = Entering(g)
    BY DEF RebindWatcher, TypeInv, TypeOK, Snapshot
  <2>2. CtxOf(g)' = <<g[1], "watch", Entering(g)>>
    BY <2>1 DEF CtxOf
  <2>3. CtxOf(g)' \notin cancelled'
    BY <1>1 DEF Active, Cancelled
  <2> QED BY <1>1, <2>2, <2>3 DEF RebindWatcher
<1>2. CASE h # g
  <2>1. pc'[h] = pc[h] /\ snap'[h] = snap[h] /\ cancelled \subseteq cancelled'
        /\ \A x \in handles : x \in handles' \/ x \in cancelled'
    BY <1>0, <1>2 DEF RebindWatcher, TypeInv, TypeOK
  <2>2. CtxOf(h)' = CtxOf(h) /\ CtxOf(h) \notin cancelled' /\ Live(h)
    BY <2>1 DEF CtxOf, Active, Live, Cancelled
  <2> QED BY <2>1, <2>2 DEF Active, Cancelled
<1> QED BY <1>1, <1>2

LEMMA CrashActive ==
  ASSUME TypeInv, NEW b \in Boots, Crash(b)
  PROVE  registered' = FALSE /\ \A h \in Drivers : ~Live(h)'
BY DriverFacts DEF Crash, Live, TypeInv, TypeOK

(* The calls' status writes that matter here are SetPaused's.              *)
LEMMA StatusStep ==
  ASSUME TypeInv, HandleInv, [Next]_vars, status' \in {"pending", "paused"}, status' # status
  PROVE  \E l \in Launch : SetPaused(<<l, "call">>) /\ ~Cancelled(<<l, "call">>)
<1>1. PICK g \in Goro : Step(g) \/ AdvancePhase(g) \/ PollDeadline(g)
  BY DEF Next, Call, StartRun, ResumeRun, PauseRun, StopCall, BeginLaunch, Disconnect, rowVars,
         Crash, AttackEnds, vars
<1>2. SetRunning(g) \/ SetPaused(g) \/ SetPhase(g) \/ Finalize(g) \/ RecoverFail(g)
  BY <1>1 DEF Step, rowVars, LoadRules, PushRules, AppendRunAttackID, StartAttack,
     SaveAttackIDs, SpawnDrivers, Register, PauseLock, PauseAttacks, StopLock, StopGet,
     StopClear, StopAndHarvest, WatchExit, AdvancePhase, RebindWatcher, PollExit,
     PollDeadline, PollTick, PollHarvest, Recover
<1>3. want[g] \in Terminal
  BY DEF TypeInv, TypeOK
<1>4. SetPaused(g) /\ ~Cancelled(g)
  BY <1>2, <1>3 DEF SetRunning, SetPaused, SetPhase, Finalize, RecoverFail, UpdateRunStatus,
                    FinalizeRunStatus, Terminal
<1>5. g[2] = "call" /\ g = <<g[1], g[2]>> /\ g[1] \in Launch
  BY <1>4, GoroFacts DEF SetPaused, At, HandleInv, KindOK, StopLocations, Kind
<1> QED BY <1>4, <1>5

(* At most one goroutine at a time is a call or an auto-complete.          *)
LEMMA SoloStep ==
  ASSUME Serial, TypeInv, HandleInv, Solo, [Next]_vars
  PROVE  Solo'
<1> DEFINE S == Launch \X {"call", "auto"}
<1>0. S \subseteq Goro
  BY DEF Goro, Kind
<1>1. CASE UNCHANGED <<pc, snap, registered, handles, cancelled>>
  BY <1>1 DEF Solo, Live
<1>2. ASSUME NEW g \in Goro, MovesOnly(g) PROVE Solo'
  <2>1. \A h \in Goro \ {g} : Live(h)' => Live(h)
    BY <1>2 DEF MovesOnly, Live
  <2>2. CASE Live(g)
    BY <2>1, <2>2, <1>0 DEF Solo
  <2>3. CASE ~Live(g)
    <3>1. \A l \in Launch : ~Live(<<l, "call">>) /\ ~Live(<<l, "auto">>)
      BY <1>2, <2>3 DEF MovesOnly, Accepts
    <3>2. \A h \in S : ~Live(h)
      <4> SUFFICES ASSUME NEW h \in S PROVE ~Live(h)
        OBVIOUS
      <4>1. PICK l \in Launch : h = <<l, "call">> \/ h = <<l, "auto">>
        OBVIOUS
      <4> QED BY <3>1, <4>1
    <3> QED BY <1>0, <2>1, <3>2 DEF Solo
  <2> QED BY <2>2, <2>3
<1>3. ASSUME NEW g \in Goro, g[2] = "call", SpawnDrivers(g) PROVE Solo'
  <2>1. Live(g) /\ g \in S
    BY <1>3, GoroFacts DEF SpawnDrivers, At, Live
  <2>2. \A h \in S : h # g => pc'[h] = pc[h]
    BY <1>0, <1>3 DEF SpawnDrivers, DriversOf
  <2> QED BY <2>1, <2>2 DEF Solo, Live
<1>4. ASSUME NEW g \in Goro, g[2] = "call", Register(g) PROVE Solo'
  <2>1. Live(g) /\ g \in S /\ <<g[1], "auto">> \in S
    BY <1>4, GoroFacts DEF Register, At, Live
  <2>2. /\ pc'[g] = "done"
        /\ \A h \in S : h # g /\ h # <<g[1], "auto">> => pc'[h] = pc[h]
    BY <1>0, <1>4, <2>1 DEF Register, Return, TypeInv, TypeOK
  <2>3. \A h \in S : Live(h)' => h = <<g[1], "auto">>
    BY <2>1, <2>2 DEF Solo, Live
  <2> QED BY <2>3 DEF Solo
<1>5. ASSUME NEW g \in Goro, g[2] = "watch", RebindWatcher(g) PROVE Solo'
  <2>1. \A h \in S : pc'[h] = pc[h]
    BY <1>0, <1>5 DEF RebindWatcher
  <2> QED BY <2>1 DEF Solo, Live
<1>6. ASSUME NEW b \in Boots, Crash(b) PROVE Solo'
  <2>1. \A h \in S : Live(h)' => h = <<b, "call">>
    BY <1>0, <1>6 DEF Crash, Live
  <2> QED BY <2>1 DEF Solo
<1> QED BY <1>1, <1>2, <1>3, <1>4, <1>5, <1>6, MovesNext

(* Nothing but a launch that spawns or registers disturbs the quiet.       *)
LEMMA QuietStep ==
  ASSUME TypeInv, HandleInv, Quiet, [Next]_vars
  PROVE  \/ Quiet'
         \/ \E l \in Launch : SpawnDrivers(<<l, "call">>) \/ Register(<<l, "call">>)
<1>1. CASE UNCHANGED <<pc, snap, registered, handles, cancelled>>
  BY <1>1 DEF Quiet, Active, Live, Cancelled, CtxOf
<1>2. ASSUME NEW g \in Goro, MovesOnly(g) PROVE Quiet'
  BY <1>2, MovesActive DEF Quiet, MovesOnly, TypeInv, TypeOK
<1>3. ASSUME NEW g \in Goro, g[2] = "watch", RebindWatcher(g) PROVE Quiet'
  BY <1>3, RebindActive DEF Quiet, RebindWatcher
<1>4. ASSUME NEW b \in Boots, Crash(b) PROVE Quiet'
  BY <1>4, CrashActive DEF Quiet, Active
<1>5. ASSUME NEW g \in Goro, g[2] = "call", SpawnDrivers(g) \/ Register(g)
      PROVE  \E l \in Launch : SpawnDrivers(<<l, "call">>) \/ Register(<<l, "call">>)
  BY <1>5, GoroFacts
<1> QED BY <1>1, <1>2, <1>3, <1>4, <1>5, MovesNext

(* Which call the two steps that disturb it belong to.                     *)
LEMMA LaunchMoves ==
  ASSUME TypeInv, NEW l \in Launch, SpawnDrivers(<<l, "call">>) \/ Register(<<l, "call">>)
  PROVE  /\ pc[<<l, "call">>] \in {"spawn", "register"}
         /\ pc'[<<l, "call">>] = IF pc[<<l, "call">>] = "spawn" THEN "register" ELSE "done"
         /\ \A k \in Launch \ {l} : pc'[<<k, "call">>] = pc[<<k, "call">>]
         /\ UNCHANGED status
<1>1. \A k \in Launch : <<k, "call">> \in Goro /\ <<k, "call">> \notin DriversOf(<<l, "call">>)
  BY CallFacts DEF DriversOf
<1>2. CASE SpawnDrivers(<<l, "call">>)
  BY <1>1, <1>2 DEF SpawnDrivers, At, rowVars
<1>3. CASE Register(<<l, "call">>)
  BY <1>1, <1>3 DEF Register, At, Return, rowVars, TypeInv, TypeOK
<1> QED BY <1>2, <1>3

LEMMA QuietInvStep ==
  ASSUME Serial, LeakInv, [Next]_vars
  PROVE  QuietInv'
<1> USE DEF LeakInv
<1>0. \A l \in Launch : <<l, "call">> \in Goro /\ <<l, "call">> \in Launch \X {"call", "auto"}
  BY CallFacts
<1>1. ASSUME status' \in {"pending", "paused"} PROVE Quiet'
  <2>1. Quiet
    <3>1. CASE status' = status
      BY <1>1, <3>1 DEF QuietInv
    <3>2. CASE status' # status
      <4>1. \E l \in Launch : pc[<<l, "call">>] = "setPaused"
        BY <1>1, <3>2, StatusStep DEF SetPaused, At
      <4> QED BY <4>1 DEF QuietInv, Preparing
    <3> QED BY <3>1, <3>2
  <2>2. ASSUME NEW l \in Launch, SpawnDrivers(<<l, "call">>) \/ Register(<<l, "call">>) PROVE FALSE
    <3>1. status' = status /\ pc[<<l, "call">>] \in MidLaunch
      BY <2>2, LaunchMoves DEF MidLaunch
    <3> QED BY <1>1, <3>1 DEF QuietInv
  <2> QED BY <2>1, <2>2, QuietStep
<1>2. ASSUME NEW l \in Launch, pc'[<<l, "call">>] \in Preparing PROVE Quiet'
  <2> DEFINE k == <<l, "call">>
  <2>1. ASSUME Quiet PROVE Quiet'
    <3>1. ASSUME NEW i \in Launch, SpawnDrivers(<<i, "call">>) \/ Register(<<i, "call">>) PROVE FALSE
      <4>1. i = l
        <5>1. CASE i # l
          <6>1. pc[k] \in Preparing /\ pc[<<i, "call">>] \in {"spawn", "register"}
            BY <1>2, <3>1, <5>1, LaunchMoves
          <6>2. Live(k) /\ Live(<<i, "call">>)
            BY <6>1 DEF Live, Preparing
          <6> QED BY <1>0, <5>1, <6>2 DEF Solo
        <5> QED BY <5>1
      <4>2. pc'[k] \in {"register", "done"}
        BY <3>1, <4>1, LaunchMoves
      <4> QED BY <1>2, <4>2 DEF Preparing
    <3> QED BY <2>1, <3>1, QuietStep
  <2>2. CASE pc'[k] = pc[k]
    BY <1>2, <2>1, <2>2 DEF QuietInv
  <2>3. CASE pc'[k] # pc[k]
    <3>1. CASE pc[k] \in Preparing
      BY <2>1, <3>1 DEF QuietInv
    <3>2. CASE status \in {"pending", "paused"}
      BY <2>1, <3>2 DEF QuietInv
    <3>3. CASE registered' = FALSE /\ \A h \in Drivers : ~Live(h)'
      BY <3>3 DEF Quiet, Active
    <3>4. CASE /\ pc[k] = "pauseLock" /\ pc'[k] = "pauseStop"
               /\ registered' = FALSE /\ cancelled' = cancelled \cup handles
               /\ snap' = snap /\ \A h \in Drivers : pc'[h] = pc[h]
      <4> SUFFICES ASSUME NEW h \in Drivers, Active(h)' PROVE FALSE
        BY <3>4 DEF Quiet
      <4>1. Active(h) /\ CtxOf(h) \notin handles
        BY <3>4 DEF Active, Live, Cancelled, CtxOf
      <4>2. pc[<<h[1], "call">>] = "register" /\ h[1] \in Launch
        BY <4>1, DriverFacts DEF NoLeakedGoroutine, Active, At
      <4>3. h[1] = l
        BY <1>0, <3>4, <4>2 DEF Solo, Live
      <4> QED BY <3>4, <4>2, <4>3
    <3> QED BY <1>2, <2>3, <3>1, <3>2, <3>3, <3>4, CallMove DEF Preparing, MidLaunch
  <2> QED BY <2>2, <2>3
<1>3. ASSUME NEW l \in Launch, pc'[<<l, "call">>] \in MidLaunch, status' \in {"pending", "paused"}
      PROVE  FALSE
  <2> DEFINE k == <<l, "call">>
  <2>1. CASE status' # status
    <3>1. PICK i \in Launch : SetPaused(<<i, "call">>)
      BY <1>3, <2>1, StatusStep
    <3>2. pc[<<i, "call">>] = "setPaused" /\ pc'[<<i, "call">>] = "done"
          /\ \A j \in Launch \ {i} : pc'[<<j, "call">>] = pc[<<j, "call">>]
      BY <1>0, <3>1 DEF SetPaused, At, Return, TypeInv, TypeOK
    <3>3. i # l /\ pc[k] \in MidLaunch
      BY <1>3, <3>2 DEF MidLaunch
    <3>4. Live(k) /\ Live(<<i, "call">>)
      BY <3>2, <3>3 DEF Live, MidLaunch
    <3> QED BY <1>0, <3>3, <3>4 DEF Solo
  <2>2. CASE status' = status
    <3>1. pc[k] \notin MidLaunch
      BY <1>3, <2>2 DEF QuietInv
    <3> QED BY <1>3, <2>2, <3>1, CallMove DEF Preparing, MidLaunch
  <2> QED BY <2>1, <2>2
<1>4. ASSUME NEW l \in Launch, pc'[<<l, "call">>] = "register"
      PROVE  registered' = FALSE /\ \A h \in Drivers : Active(h)' => Registers(l, h)'
  <2> DEFINE k == <<l, "call">>
  <2>0. registered = FALSE /\ (pc[k] = "register" \/ (pc[k] = "spawn" /\ Quiet))
    <3>1. CASE pc[k] = "register"
      BY <3>1 DEF QuietInv, TypeInv, TypeOK
    <3>2. CASE pc[k] # "register"
      <4>1. pc[k] = "spawn"
        BY <1>4, <3>2, CallMove DEF Preparing, MidLaunch
      <4> QED BY <4>1 DEF QuietInv, Quiet, Preparing, TypeInv, TypeOK
    <3> QED BY <3>1, <3>2
  <2>1. Live(k) /\ \A h \in Drivers : Active(h) => Registers(l, h)
    BY <2>0 DEF Live, QuietInv, Quiet
  <2>2. ASSUME NEW h \in Drivers, Active(h), CtxOf(h)' = CtxOf(h), snap'[k] = snap[k]
        PROVE  Registers(l, h)'
    BY <2>1, <2>2 DEF Registers, DriversOf
  <2>3. CASE UNCHANGED <<pc, snap, registered, handles, cancelled>>
    BY <2>0, <2>2, <2>3 DEF Active, Live, Cancelled, CtxOf
  <2>4. ASSUME NEW g \in Goro, MovesOnly(g)
        PROVE  registered' = FALSE /\ \A h \in Drivers : Active(h)' => Registers(l, h)'
    <3>1. pc[k] = "register" /\ snap'[k] = snap[k]
      BY <1>0, <1>4, <2>4 DEF MovesOnly
    <3>2. registered' = FALSE
      BY <2>0, <2>4 DEF MovesOnly, TypeInv, TypeOK
    <3> QED BY <2>2, <2>4, <3>1, <3>2, MovesActive
  <2>5. ASSUME NEW g \in Goro, g[2] = "watch", RebindWatcher(g)
        PROVE  registered' = FALSE /\ \A h \in Drivers : Active(h)' => Registers(l, h)'
    <3>1. snap'[k] = snap[k] /\ registered' = registered
      BY <1>0, <2>5 DEF RebindWatcher
    <3> QED BY <2>0, <2>2, <2>5, <3>1, RebindActive
  <2>6. ASSUME NEW i \in Launch, Register(<<i, "call">>) PROVE FALSE
    <3>1. pc[<<i, "call">>] = "register" /\ pc'[<<i, "call">>] = "done"
      BY <2>6, LaunchMoves DEF Register, At
    <3>2. Live(<<i, "call">>)
      BY <3>1 DEF Live
    <3> QED BY <1>0, <1>4, <2>1, <3>1, <3>2 DEF Solo
  <2>7. ASSUME NEW i \in Launch, SpawnDrivers(<<i, "call">>)
        PROVE  registered' = FALSE /\ \A h \in Drivers : Active(h)' => Registers(l, h)'
    <3>1. pc[<<i, "call">>] = "spawn" /\ registered' = registered
      BY <2>7 DEF SpawnDrivers, At, memVars
    <3>2. i = l
      BY <1>0, <2>1, <3>1 DEF Solo, Live
    <3>3. Quiet
      BY <2>0, <3>1, <3>2
    <3> QED BY <2>0, <2>7, <3>1, <3>2, <3>3, SpawnActive DEF Quiet
  <2>8. ASSUME NEW b \in Boots, Crash(b)
        PROVE  registered' = FALSE /\ \A h \in Drivers : Active(h)' => Registers(l, h)'
    BY <2>8, CrashActive DEF Active
  <2> QED BY <2>3, <2>4, <2>5, <2>6, <2>7, <2>8, MovesNext, GoroFacts
<1> QED BY <1>1, <1>2, <1>3, <1>4 DEF QuietInv

LEMMA LeakStep ==
  ASSUME Serial, LeakInv, [Next]_vars
  PROVE  NoLeakedGoroutine'
<1> USE DEF LeakInv
<1> DEFINE Kept(h) == CtxOf(h)' \in handles' \/ pc'[<<h[1], "call">>] = "register"
<1> SUFFICES ASSUME NEW h \in Drivers, Active(h)' PROVE Kept(h)
  BY DEF NoLeakedGoroutine, Active, At
<1>0. /\ h[1] \in Launch /\ <<h[1], "call">> \in Goro
      /\ \A l \in Launch : <<l, "call">> \in Launch \X {"call", "auto"}
  BY DriverFacts, CallFacts
<1>1. CtxOf(h)' \notin cancelled'
  BY DEF Active, Cancelled
<1>2. Active(h) => CtxOf(h) \in handles \/ pc[<<h[1], "call">>] = "register"
  BY DEF NoLeakedGoroutine, Active, At
<1>3. CASE UNCHANGED <<pc, snap, registered, handles, cancelled>>
  BY <1>2, <1>3 DEF Active, Live, Cancelled, CtxOf
<1>4. ASSUME NEW g \in Goro, MovesOnly(g) PROVE Kept(h)
  <2>1. Active(h) /\ CtxOf(h)' = CtxOf(h)
    BY <1>4, MovesActive
  <2>2. CASE CtxOf(h) \in handles
    BY <1>1, <1>4, <2>1, <2>2 DEF MovesOnly
  <2>3. CASE pc[<<h[1], "call">>] = "register"
    BY <1>0, <1>4, <2>3 DEF MovesOnly
  <2> QED BY <1>2, <2>1, <2>2, <2>3
<1>5. ASSUME NEW l \in Launch, SpawnDrivers(<<l, "call">>) PROVE Kept(h)
  <2>1. /\ pc[<<l, "call">>] = "spawn" /\ pc'[<<l, "call">>] = "register"
        /\ \A k \in Launch \ {l} : pc'[<<k, "call">>] = pc[<<k, "call">>]
        /\ UNCHANGED handles
    BY <1>5, LaunchMoves DEF SpawnDrivers, At, memVars
  <2> QED BY <1>0, <1>2, <1>5, <2>1, SpawnActive
<1>6. ASSUME NEW l \in Launch, Register(<<l, "call">>) PROVE Kept(h)
  <2>1. pc[<<l, "call">>] = "register"
    BY <1>6 DEF Register, At
  <2>2. Active(h) => Registers(l, h)
    BY <2>1 DEF QuietInv
  <2> QED BY <1>6, <2>2, RegisterActive
<1>7. ASSUME NEW g \in Goro, g[2] = "watch", RebindWatcher(g) PROVE Kept(h)
  <2>1. pc'[<<h[1], "call">>] = pc[<<h[1], "call">>]
    BY <1>0, <1>7 DEF RebindWatcher
  <2> QED BY <1>2, <1>7, <2>1, RebindActive
<1>8. ASSUME NEW b \in Boots, Crash(b) PROVE Kept(h)
  BY <1>8, CrashActive DEF Active
<1> QED BY <1>3, <1>4, <1>5, <1>6, <1>7, <1>8, MovesNext, GoroFacts

LEMMA LeakInvariant == ASSUME Serial PROVE Spec => []LeakInv
<1>1. Init => LeakInv
  <2>1. Init => \A g \in Goro : ~Live(g)
    BY DEF Init, Live
  <2>2. Init => Solo
    BY <2>1 DEF Solo, Goro, Kind
  <2>3. Init => QuietInv
    <3>1. Init => Quiet
      BY <2>1, DriverFacts DEF Quiet, Active, Init
    <3>2. Init => \A l \in Launch : pc[<<l, "call">>] = "idle"
      BY CallFacts DEF Init
    <3> QED BY <3>1, <3>2 DEF QuietInv, Preparing, MidLaunch
  <2>4. Init => NoLeakedGoroutine
    BY <2>1, DriverFacts DEF NoLeakedGoroutine
  <2> QED BY <2>2, <2>3, <2>4, TypeInit, HandleInit DEF LeakInv
<1>2. LeakInv /\ [Next]_vars => LeakInv'
  BY TypeStep, HandleStep, SoloStep, QuietInvStep, LeakStep DEF LeakInv
<1> QED BY <1>1, <1>2, PTL DEF Spec

(* Calls that do not overlap leave no driver behind that acts on the run   *)
(* and that nobody can cancel, whatever its drivers, auto-completes,       *)
(* crashes and disconnections do in between.                               *)
THEOREM NoLeakedGoroutineHolds == ASSUME Serial PROVE Spec => []NoLeakedGoroutine
<1>1. LeakInv => NoLeakedGoroutine
  BY DEF LeakInv
<1> QED BY <1>1, LeakInvariant, PTL

-----------------------------------------------------------------------------
(* AttackKnown and PausedIsQuiet, for calls that do not overlap, whatever  *)
(* fails.                                                                  *)

(* The running attacks that the row has, or has to have, in its list.      *)
LoadRunning == {a \in Attack : zeus[a] = "running" /\ (a[2] = "client" \/ a \in attackIDs)}

LEMMA LoadKnown == AttackKnown <=> LoadRunning \subseteq attackIDs
BY DEF AttackKnown, LoadRunning, Attack

(* What a call that acts on attacks may count on.                          *)
AttackOK(l) ==
  LET g == <<l, "call">> IN
  /\ pc[g] \in {"load", "push", "setRunning", "append", "zeusStart"} => LoadRunning = {}
  /\ pc[g] = "setPaused" => LoadRunning = {} \/ Cancelled(g)
  /\ pc[g] = "zeusStart" => <<l, "client">> \in attackIDs
  /\ pc[g] \in {"saveIDs", "pauseLock", "pauseStop"} => LoadRunning \subseteq snap[g].attacks

AttackInv ==
  /\ AttackKnown
  /\ status \in {"pending", "paused"} => LoadRunning = {}
  /\ \A l \in Launch : AttackOK(l)

LEMMA StopsLoad ==
  ASSUME TypeOK, NEW g, StopAttacks(g), attackIDs' = attackIDs
  PROVE  /\ LoadRunning' \subseteq LoadRunning
         /\ ~Cancelled(g) => LoadRunning' \cap snap[g].attacks = {}
<1> DEFINE live == {a \in snap[g].attacks : Going(a) /\ ~Cancelled(g)}
<1>1. PICK S \in SUBSET live :
        zeus' = [a \in Attack |-> IF a \in S THEN "stopped"
                                  ELSE IF a \in live THEN "runaway" ELSE zeus[a]]
  BY DEF StopAttacks
<1>2. \A a \in Attack : zeus'[a] = "running" => zeus[a] = "running" /\ a \notin live
  BY <1>1
<1> QED BY <1>2 DEF LoadRunning, Going

(* A call moves alone: no other call is under way.                         *)
LEMMA OtherCalls ==
  ASSUME LeakInv, Serial, NEW l \in Launch, Live(<<l, "call">>) \/ Accepts(l),
         \A k \in Launch \ {l} : pc'[<<k, "call">>] = pc[<<k, "call">>]
  PROVE  \A k \in Launch \ {l} : AttackOK(k)'
<1> SUFFICES ASSUME NEW k \in Launch \ {l} PROVE AttackOK(k)'
  OBVIOUS
<1>1. ~Live(<<k, "call">>)
  BY DEF LeakInv, Solo, Accepts
<1>2. pc'[<<k, "call">>] \in {"idle", "done"}
  BY <1>1 DEF Live
<1> QED BY <1>2 DEF AttackOK

(* A step that leaves the calls where they are, starts no attack and       *)
(* forgets none.                                                           *)
LEMMA AttackFrame ==
  ASSUME LeakInv, AttackInv, LoadRunning' \subseteq LoadRunning, attackIDs' = attackIDs,
         status' \in {"pending", "paused"} => status' = status,
         \A l \in Launch : LET k == <<l, "call">> IN
            /\ pc'[k] = pc[k] \/ pc'[k] \in {"recover", "done"}
            /\ pc'[k] \notin {"recover", "done"} => snap'[k] = snap[k]
            /\ Cancelled(k) /\ pc'[k] = "setPaused" => Cancelled(k)'
  PROVE  AttackInv'
<1>1. AttackKnown'
  BY DEF AttackInv, AttackKnown, LoadRunning, Attack
<1>2. \A l \in Launch : AttackOK(l)'
  BY DEF AttackInv, AttackOK
<1> QED BY <1>1, <1>2 DEF AttackInv

LEMMA AttackCall ==
  ASSUME Serial, LeakInv, AttackInv, NEW c \in Calls, Call(c)
  PROVE  AttackInv'
<1> DEFINE g == <<c, "call">>
<1> USE DEF LeakInv, TypeInv, TypeOK
<1>0. g \in Goro /\ c \in Launch /\ Accepts(c)
  BY CallFacts DEF Call, StartRun, ResumeRun, PauseRun, StopCall, BeginLaunch, Launch
<1>1. UNCHANGED <<status, attackIDs, zeus>>
  BY DEF Call, StartRun, ResumeRun, PauseRun, StopCall, BeginLaunch, rowVars, envVars
<1>2. \A k \in Launch \ {c} : pc'[<<k, "call">>] = pc[<<k, "call">>]
  BY <1>0, CallFacts DEF Call, StartRun, ResumeRun, PauseRun, StopCall, BeginLaunch, Return,
                         GotoWith, GotoStop
<1>3. AttackOK(c)'
  <2>1. CASE StartRun(c) \/ ResumeRun(c)
    <3>1. pc'[g] = "done" \/ (pc'[g] = "load" /\ status \in {"pending", "paused"})
      BY <1>0, <2>1 DEF StartRun, ResumeRun, BeginLaunch, Return, GotoWith
    <3> QED BY <1>1, <3>1 DEF AttackOK, AttackInv, LoadRunning
  <2>2. CASE PauseRun(c)
    <3>1. pc'[g] = "done" \/ (pc'[g] = "pauseLock" /\ snap'[g] = Row)
      BY <1>0, <2>2 DEF PauseRun, Return, GotoWith
    <3>2. LoadRunning' \subseteq Row.attacks
      BY <1>1, LoadKnown DEF AttackInv, LoadRunning, Row
    <3> QED BY <3>1, <3>2 DEF AttackOK
  <2>3. CASE StopCall(c)
    BY <1>0, <2>3 DEF StopCall, GotoStop, AttackOK
  <2> QED BY <2>1, <2>2, <2>3 DEF Call
<1>4. \A k \in Launch : AttackOK(k)'
  BY <1>0, <1>2, <1>3, OtherCalls
<1> QED BY <1>1, <1>4 DEF AttackInv, AttackKnown, LoadRunning

(* A launching or pausing call.                                            *)
LEMMA AttackLaunch ==
  ASSUME Serial, LeakInv, AttackInv,
         NEW l \in Launch,
         LET g == <<l, "call">> IN
         \/ LoadRules(g) \/ PushRules(g) \/ SetRunning(g) \/ AppendRunAttackID(g)
         \/ StartAttack(g) \/ SaveAttackIDs(g) \/ SpawnDrivers(g) \/ Register(g)
         \/ PauseLock(g) \/ PauseAttacks(g) \/ SetPaused(g)
  PROVE  AttackInv'
<1> DEFINE g == <<l, "call">>
           own == <<l, "client">>
<1> USE DEF LeakInv, TypeInv, TypeOK, At, Goto, GotoWith, GotoStop, Return, rowVars, envVars
<1>0. g \in Goro /\ Live(g) /\ AttackOK(l) /\ own \in Attack
  BY CallFacts DEF AttackInv, Attack, Live, LoadRules, PushRules, SetRunning, AppendRunAttackID,
     StartAttack, SaveAttackIDs, SpawnDrivers, Register, PauseLock, PauseAttacks, SetPaused
<1>1. \A k \in Launch \ {l} : pc'[<<k, "call">>] = pc[<<k, "call">>]
  <2>1. \A k \in Launch : <<k, "call">> \in Goro /\ <<k, "call">> \notin DriversOf(g)
    BY CallFacts DEF DriversOf
  <2> QED
    BY <1>0, <2>1 DEF LoadRules, PushRules, SetRunning, AppendRunAttackID, StartAttack,
       SaveAttackIDs, SpawnDrivers, Register, PauseLock, PauseAttacks, SetPaused
<1>2. \A k \in Launch \ {l} : AttackOK(k)'
  BY <1>0, <1>1, OtherCalls
<1>3. SUFFICES /\ AttackKnown'
               /\ status' \in {"pending", "paused"} => LoadRunning' = {}
               /\ AttackOK(l)'
  BY <1>2 DEF AttackInv
<1>4. CASE LoadRules(g) \/ PushRules(g)
  <2>1. /\ UNCHANGED <<status, attackIDs, zeus>>
        /\ pc[g] \in {"load", "push"} /\ pc'[g] \in {"push", "setRunning", "done"}
    BY <1>0, <1>4 DEF LoadRules, PushRules
  <2> QED BY <1>0, <2>1 DEF AttackInv, AttackOK, AttackKnown, LoadRunning
<1>5. CASE SetRunning(g)
  <2>1. /\ UNCHANGED <<attackIDs, zeus>> /\ status' \in {status, "running"}
        /\ pc[g] = "setRunning" /\ pc'[g] \in {"append", "spawn", "done"}
    BY <1>0, <1>5 DEF SetRunning, UpdateRunStatus
  <2> QED BY <1>0, <2>1 DEF AttackInv, AttackOK, AttackKnown, LoadRunning
<1>6. CASE AppendRunAttackID(g)
  <2>1. /\ UNCHANGED <<status, zeus>> /\ attackIDs' \in {attackIDs, attackIDs \cup {own}}
        /\ pc[g] = "append"
        /\ pc'[g] = "spawn" \/ (pc'[g] = "zeusStart" /\ own \in attackIDs')
    BY <1>0, <1>6 DEF AppendRunAttackID
  <2>2. LoadRunning' = LoadRunning
    BY <2>1 DEF LoadRunning
  <2> QED BY <1>0, <2>1, <2>2 DEF AttackInv, AttackOK, AttackKnown
<1>7. CASE StartAttack(g)
  <2> DEFINE other == <<l, "zeus">>
  <2>0. other \in Attack /\ own[2] = "client" /\ other[2] = "zeus"
    BY DEF Attack
  <2>1. PICK id \in {own, other} :
        /\ UNCHANGED <<status, attackIDs>> /\ pc[g] = "zeusStart"
        /\ zeus' = zeus \/ zeus' = [zeus EXCEPT ![id] = "running"]
        /\ \/ Goto(g, "spawn") /\ id = own
           \/ GotoWith(g, "saveIDs", [snap[g] EXCEPT !.attacks = {id}])
    BY <1>7 DEF StartAttack
  <2>2. [snap[g] EXCEPT !.attacks = {id}].attacks = {id}
    <3>1. snap[g] \in Snapshot
      BY <1>0
    <3> QED BY <3>1 DEF Snapshot
  <2>3. \/ pc'[g] = "spawn" /\ id = own
        \/ pc'[g] = "saveIDs" /\ snap'[g] = [snap[g] EXCEPT !.attacks = {id}]
    BY <1>0, <2>1
  <2>4. \/ pc'[g] = "spawn"
        \/ pc'[g] = "saveIDs" /\ snap'[g].attacks = {id}
    BY <2>2, <2>3
  <2>5. LoadRunning' \subseteq {id} /\ own \in attackIDs
    BY <1>0, <2>0, <2>1 DEF AttackOK, LoadRunning
  <2>6. AttackKnown'
    BY <1>0, <2>0, <2>1, <2>5 DEF AttackInv, AttackKnown
  <2>7. status' \notin {"pending", "paused"}
    BY <2>1 DEF QuietInv, MidLaunch
  <2> QED BY <2>4, <2>5, <2>6, <2>7 DEF AttackOK
<1>8. CASE SaveAttackIDs(g)
  <2>1. /\ UNCHANGED <<status, zeus>> /\ pc[g] = "saveIDs" /\ pc'[g] = "spawn"
        /\ attackIDs' = attackIDs \/ attackIDs' = snap[g].attacks
    BY <1>0, <1>8 DEF SaveAttackIDs, UpdateRunZeusAttacks
  <2>2. LoadRunning \subseteq snap[g].attacks
    BY <1>0, <2>1 DEF AttackOK
  <2>3. AttackKnown'
    BY <2>1, <2>2 DEF AttackInv, AttackKnown, LoadRunning, Attack
  <2>4. status' \notin {"pending", "paused"}
    BY <2>1 DEF QuietInv, MidLaunch
  <2> QED BY <2>1, <2>3, <2>4 DEF AttackOK
<1>9. CASE SpawnDrivers(g) \/ Register(g)
  <2>1. UNCHANGED <<status, attackIDs, zeus>> /\ pc'[g] \in {"register", "done"}
    BY <1>0, <1>9 DEF SpawnDrivers, Register
  <2> QED BY <2>1 DEF AttackInv, AttackOK, AttackKnown, LoadRunning
<1>10. CASE PauseLock(g)
  <2>1. /\ UNCHANGED <<status, attackIDs, zeus, snap>>
        /\ pc[g] = "pauseLock" /\ pc'[g] = "pauseStop"
    BY <1>0, <1>10 DEF PauseLock
  <2> QED BY <1>0, <2>1 DEF AttackInv, AttackOK, AttackKnown, LoadRunning
<1>11. CASE PauseAttacks(g)
  <2>1. /\ UNCHANGED <<status, attackIDs, snap, cancelled>> /\ StopAttacks(g)
        /\ pc[g] = "pauseStop" /\ pc'[g] = "setPaused"
    BY <1>0, <1>11 DEF PauseAttacks
  <2>2. /\ LoadRunning' \subseteq LoadRunning
        /\ ~Cancelled(g) => LoadRunning' \cap snap[g].attacks = {}
    BY <2>1, StopsLoad
  <2>3. LoadRunning \subseteq snap[g].attacks
    BY <1>0, <2>1 DEF AttackOK
  <2>4. LoadRunning' = {} \/ Cancelled(g)'
    BY <2>1, <2>2, <2>3 DEF Cancelled, CtxOf
  <2>5. AttackKnown'
    BY <2>1, <2>2 DEF AttackInv, AttackKnown, LoadRunning, Attack
  <2> QED BY <2>1, <2>2, <2>4, <2>5 DEF AttackInv, AttackOK
<1>12. CASE SetPaused(g)
  <2>1. /\ UNCHANGED <<attackIDs, zeus>> /\ pc[g] = "setPaused" /\ pc'[g] = "done"
        /\ Cancelled(g) => status' = status
    BY <1>0, <1>12 DEF SetPaused
  <2>2. LoadRunning = {} \/ status' = status
    BY <1>0, <2>1 DEF AttackOK
  <2> QED BY <2>1, <2>2 DEF AttackInv, AttackOK, AttackKnown, LoadRunning
<1> QED
  BY <1>4, <1>5, <1>6, <1>7, <1>8, <1>9, <1>10, <1>11, <1>12

(* Everything else: stops, drivers and Recover.                            *)
LEMMA AttackOther ==
  ASSUME Serial, LeakInv, AttackInv, NEW g \in Goro,
         \/ StopLock(g) \/ StopGet(g) \/ StopClear(g) \/ StopAndHarvest(g) \/ Finalize(g)
         \/ WatchExit(g) \/ AdvancePhase(g) \/ SetPhase(g) \/ RebindWatcher(g)
         \/ PollExit(g) \/ PollTick(g) \/ PollHarvest(g) \/ PollDeadline(g)
         \/ Recover(g) \/ RecoverFail(g)
         \/ g[2] = "watch" /\ (LoadRules(g) \/ PushRules(g))
  PROVE  AttackInv'
<1> USE DEF LeakInv, TypeInv, TypeOK, At, Goto, GotoWith, GotoStop, Return, rowVars, envVars
<1>1. attackIDs' = attackIDs
  BY DEF StopLock, StopGet, StopClear, StopAndHarvest, Finalize, WatchExit, AdvancePhase, SetPhase,
     RebindWatcher, PollExit, PollTick, PollHarvest, PollDeadline, Recover, RecoverFail, LoadRules,
     PushRules
<1>2. LoadRunning' \subseteq LoadRunning
  <2>1. zeus' = zeus \/ StopAndHarvest(g)
    BY DEF StopLock, StopGet, StopClear, Finalize, WatchExit, AdvancePhase, SetPhase,
       RebindWatcher, PollExit, PollTick, PollHarvest, PollDeadline, Recover, RecoverFail, LoadRules,
       PushRules
  <2>2. zeus' = zeus => LoadRunning' = LoadRunning
    BY <1>1 DEF LoadRunning
  <2> QED BY <1>1, <2>1, <2>2, StopsLoad DEF StopAndHarvest
<1>3. status' \in {"pending", "paused"} => status' = status
  BY DEF StopLock, StopGet, StopClear, StopAndHarvest, Finalize, WatchExit, AdvancePhase, SetPhase,
     RebindWatcher, PollExit, PollTick, PollHarvest, PollDeadline, Recover, RecoverFail, LoadRules,
     PushRules, UpdateRunStatus, FinalizeRunStatus, Terminal
<1>4. \A h \in Goro \ {g} : pc'[h] = pc[h] /\ snap'[h] = snap[h]
  BY DEF StopLock, StopGet, StopClear, StopAndHarvest, Finalize, WatchExit, AdvancePhase, SetPhase,
     RebindWatcher, PollExit, PollTick, PollHarvest, PollDeadline, Recover, RecoverFail, LoadRules,
     PushRules
<1>5. \/ g[2] = "watch"
      \/ pc'[g] \in {"done", "stopGet", "stopClear", "stopAttacks", "finalize", "stopLock",
                     "pollHarvest", "recoverFail", "spawn"}
      \/ pc[g] \in {"watching", "setPhase", "rebind"}
  BY DEF StopLock, StopGet, StopClear, StopAndHarvest, Finalize, WatchExit, AdvancePhase, SetPhase,
     RebindWatcher, PollExit, PollTick, PollHarvest, PollDeadline, Recover, RecoverFail
<1>6. \A x \in cancelled : x \in cancelled' \/ <<x[1], x[2]>> = g
  BY DEF StopLock, StopGet, StopClear, StopAndHarvest, Finalize, WatchExit, AdvancePhase, SetPhase,
     RebindWatcher, PollExit, PollTick, PollHarvest, PollDeadline, Recover, RecoverFail, LoadRules,
     PushRules, DropHandles
<1>7. \A l \in Launch \ {g[1]} : AttackOK(l)'
  <2> SUFFICES ASSUME NEW l \in Launch \ {g[1]} PROVE AttackOK(l)'
    OBVIOUS
  <2> DEFINE k == <<l, "call">>
  <2>1. k \in Goro \ {g}
    BY CallFacts
  <2>2. pc'[k] = pc[k] /\ snap'[k] = snap[k]
    BY <1>4, <2>1
  <2>3. Cancelled(k) => Cancelled(k)'
    BY <1>6, <2>1, <2>2 DEF Cancelled, CtxOf
  <2> QED BY <1>1, <1>2, <2>2, <2>3 DEF AttackInv, AttackOK
<1>8. g[1] \in Launch => AttackOK(g[1])'
  <2> DEFINE k == <<g[1], "call">>
  <2>0. k \in Goro /\ g[1] \in Launch
    BY GoroFacts DEF Kind
  <2>1. CASE g[2] = "call"
    <3>1. g = k
      BY <2>1, GoroFacts
    <3>2. pc[g] \notin {"watching", "setPhase", "rebind"}
      BY <2>1 DEF HandleInv, KindOK
    <3> QED BY <1>5, <2>1, <3>1, <3>2 DEF AttackOK
  <2>2. CASE g[2] # "call"
    <3>1. pc'[k] = pc[k] /\ snap'[k] = snap[k]
      BY <1>4, <2>0, <2>2
    <3>2. Cancelled(k) => Cancelled(k)'
      BY <1>6, <2>2, <3>1 DEF Cancelled, CtxOf
    <3> QED BY <1>1, <1>2, <2>0, <3>1, <3>2 DEF AttackInv, AttackOK
  <2> QED BY <2>1, <2>2
<1>9. AttackKnown'
  BY <1>1, <1>2 DEF AttackInv, AttackKnown, LoadRunning, Attack
<1> QED BY <1>2, <1>3, <1>7, <1>8, <1>9 DEF AttackInv

LEMMA AttackStep ==
  ASSUME Serial, LeakInv, AttackInv, [Next]_vars
  PROVE  AttackInv'
<1> USE DEF LeakInv
<1>1. CASE UNCHANGED vars
  BY <1>1 DEF vars, AttackInv, AttackKnown, AttackOK, LoadRunning, Cancelled, CtxOf
<1>2. ASSUME NEW c \in Calls, Call(c) PROVE AttackInv'
  BY <1>2, AttackCall
<1>3. ASSUME NEW c \in Calls, Disconnect(c) PROVE AttackInv'
  <2>1. UNCHANGED <<status, attackIDs, zeus, pc, snap>> /\ cancelled \subseteq cancelled'
    BY <1>3 DEF Disconnect, rowVars, envVars
  <2>2. \A g \in Goro : Cancelled(g) => Cancelled(g)'
    BY <2>1 DEF Cancelled, CtxOf
  <2>3. LoadRunning' = LoadRunning
    BY <2>1 DEF LoadRunning
  <2> QED BY <2>1, <2>2, <2>3, AttackFrame, CallFacts
<1>4. ASSUME NEW g \in Goro, Step(g) \/ AdvancePhase(g) \/ PollDeadline(g) PROVE AttackInv'
  <2>1. KindOKOf(g, pc[g]) /\ g[1] \in Launch /\ g[2] \in Kind /\ g = <<g[1], g[2]>>
    BY GoroFacts DEF HandleInv, KindOK, KindOKOf
  <2>2. CASE \/ LoadRules(g) \/ PushRules(g) \/ SetRunning(g) \/ AppendRunAttackID(g)
             \/ StartAttack(g) \/ SaveAttackIDs(g) \/ SpawnDrivers(g) \/ Register(g)
             \/ PauseLock(g) \/ PauseAttacks(g) \/ SetPaused(g)
    <3>1. pc[g] \in {"load", "push", "setRunning", "append", "zeusStart", "saveIDs", "spawn",
                     "register", "pauseLock", "pauseStop", "setPaused"}
      BY <2>2 DEF At, LoadRules, PushRules, SetRunning, AppendRunAttackID, StartAttack,
         SaveAttackIDs, SpawnDrivers, Register, PauseLock, PauseAttacks, SetPaused
    <3>2. g[2] = "call" \/ (g[2] = "watch" /\ pc[g] \in {"load", "push"})
      BY <2>1, <3>1 DEF KindOKOf, StopLocations, Kind
    <3>3. g[2] = "watch" => LoadRules(g) \/ PushRules(g)
      BY <2>2, <3>2 DEF At, SetRunning, AppendRunAttackID, StartAttack,
         SaveAttackIDs, SpawnDrivers, Register, PauseLock, PauseAttacks, SetPaused
    <3>4. CASE g[2] = "call"
      <4>1. g = <<g[1], "call">>
        BY <2>1, <3>4
      <4> QED BY <2>1, <2>2, <4>1, AttackLaunch
    <3> QED BY <3>2, <3>3, <3>4, AttackOther
  <2> QED BY <1>4, <2>2, AttackOther DEF Step
<1>5. ASSUME NEW b \in Boots, Crash(b) PROVE AttackInv'
  <2>1. UNCHANGED <<status, attackIDs, zeus>>
    BY <1>5 DEF Crash, rowVars, envVars
  <2>2. \A l \in Launch : pc'[<<l, "call">>] \in {"recover", "idle", "done"}
    BY <1>5, CallFacts DEF Crash, Live
  <2> QED BY <2>1, <2>2 DEF AttackInv, AttackKnown, AttackOK, LoadRunning
<1>6. ASSUME NEW a \in Attack, AttackEnds(a) PROVE AttackInv'
  <2>1. UNCHANGED <<status, attackIDs, pc, snap, cancelled>> /\ LoadRunning' \subseteq LoadRunning
    BY <1>6 DEF AttackEnds, rowVars, memVars, LoadRunning, TypeInv, TypeOK
  <2>2. \A g \in Goro : Cancelled(g) => Cancelled(g)'
    BY <2>1 DEF Cancelled, CtxOf
  <2> QED BY <2>1, <2>2, AttackFrame, CallFacts
<1> QED BY <1>1, <1>2, <1>3, <1>4, <1>5, <1>6 DEF Next

LEMMA AttackInvariant ==
  ASSUME Serial
  PROVE  Spec => [](LeakInv /\ AttackInv)
<1>1. Init => AttackInv
  BY CallFacts DEF Init, AttackInv, AttackKnown, AttackOK, LoadRunning
<1>2. AttackInv /\ LeakInv /\ [Next]_vars => AttackInv'
  BY AttackStep
<1> QED BY <1>1, <1>2, LeakInvariant, PTL DEF Spec

(* Load that Zeus generates for the run is always listed in the run's row, *)
(* so that a later stop, poll or Recover can find it.                      *)
THEOREM AttackKnownHolds ==
  ASSUME Serial
  PROVE  Spec => []AttackKnown
<1>1. AttackInv => AttackKnown
  BY DEF AttackInv
<1> QED BY <1>1, AttackInvariant, PTL

(* A paused run has no attack going that PauseRun could have stopped, and  *)
(* no driver that can still act.                                           *)
THEOREM PausedIsQuietHolds ==
  ASSUME Serial
  PROVE  Spec => []PausedIsQuiet
<1>1. LeakInv /\ AttackInv => PausedIsQuiet
  BY DEF LeakInv, AttackInv, QuietInv, Quiet, Active, PausedIsQuiet, LoadRunning, Attack
<1> QED BY <1>1, AttackInvariant, PTL

-----------------------------------------------------------------------------
(* The refinement of RunFSM, for calls that do not overlap, whatever fails *)
(* and whatever the drivers do first.                                      *)

Stopping == {"stopGet", "stopClear", "stopAttacks", "finalize"}

(* Locations of a call at which it relies on the run running.              *)
OnRunning == MidLaunch \cup {"pauseLock", "pauseStop", "setPaused", "recoverFail"}

(* What a call or an auto-complete that is under way may count on: a launch*)
(* finds the status it was accepted in and the phase it has read, PauseRun *)
(* no status but running or a terminal one; a stop and Recover drive alone.*)
CallInv ==
  /\ \A l \in Launch : LET k == <<l, "call">> IN
       /\ pc[k] \in {"load", "push", "setRunning"} => status \in {"pending", "paused"}
       /\ pc[k] \in {"pauseLock", "pauseStop", "setPaused"} => status \notin {"pending", "paused"}
       /\ pc[k] = "recoverFail" => status = "running"
       /\ pc[k] \in Launching \ {"recover", "recoverFail"} => snap[k].phase = phase
  /\ \A g \in Launch \X {"call", "auto"} : pc[g] \in Stopping \cup {"recoverFail"} => Quiet

(* As long as no driver has acted before it was registered: a run that is  *)
(* not running is driven by nobody; its own drivers stop it only on        *)
(* contexts they have just cancelled, and so do not write its end.         *)
OrderInv ==
  "early" \notin lapses =>
    /\ status # "running" => Quiet
    /\ \A l \in Launch : pc[<<l, "call">>] \in OnRunning => status = "running"
    /\ \A h \in Drivers : pc[h] \in Stopping => Cancelled(h)
    /\ \A l \in Launch : pc[<<l, "call">>] = "register" =>
         \A h \in Drivers : Active(h) => pc[h] \in {"watching", "polling"}

(* One watcher at most is registered; and as long as none has taken the    *)
(* place of another, the one that can act is at the phase of the row.      *)
WatchInv ==
  /\ \A x, y \in handles : x[2] = "watch" /\ y[2] = "watch" => x = y
  /\ "takeover" \notin lapses =>
       \A l \in Launch : LET h == <<l, "watch">> IN Active(h) =>
         /\ pc[h] \in {"watching", "load", "push", "setPhase"} => snap[h].phase = phase
         /\ pc[h] = "rebind" => phase = snap[h].phase + 1

FsmInv == LeakInv /\ CallInv /\ OrderInv /\ WatchInv

(* A lapse is remembered, and is a step that does not write the row.       *)
LEMMA LapseStep ==
  ASSUME [Next]_vars
  PROVE  lapses \subseteq lapses' /\ (lapses' # lapses => UNCHANGED <<status, phase>>)
<1> USE DEF rowVars, envVars
<1>1. CASE UNCHANGED vars
  BY <1>1 DEF vars
<1>2. ASSUME NEW c \in Calls, Call(c) \/ Disconnect(c) PROVE lapses' = lapses
  BY <1>2 DEF Call, StartRun, ResumeRun, PauseRun, StopCall, BeginLaunch, Disconnect
<1>3. ASSUME NEW b \in Boots, Crash(b) PROVE lapses' = lapses
  BY <1>3 DEF Crash
<1>4. ASSUME NEW a \in Attack, AttackEnds(a) PROVE lapses' = lapses
  BY <1>4 DEF AttackEnds
<1>5. ASSUME NEW g \in Goro, Step(g) \/ AdvancePhase(g) \/ PollDeadline(g)
      PROVE  lapses \subseteq lapses' /\ (lapses' # lapses => UNCHANGED <<status, phase>>)
  <2>1. CASE AdvancePhase(g) \/ PollDeadline(g) \/ PollTick(g) \/ RebindWatcher(g)
    BY <2>1 DEF AdvancePhase, PollDeadline, PollTick, RebindWatcher, NoteEarly
  <2>2. CASE ~(AdvancePhase(g) \/ PollDeadline(g) \/ PollTick(g) \/ RebindWatcher(g))
    BY <1>5, <2>2 DEF Step, LoadRules, PushRules, SetRunning,
       AppendRunAttackID, StartAttack, SaveAttackIDs, SpawnDrivers, Register, PauseLock,
       PauseAttacks, SetPaused, StopLock, StopGet, StopClear, StopAndHarvest, Finalize, WatchExit,
       SetPhase, PollExit, PollHarvest, Recover, RecoverFail
  <2> QED BY <2>1, <2>2
<1> QED BY <1>1, <1>2, <1>3, <1>4, <1>5 DEF Next

(* Who writes the row, and how.                                            *)
LEMMA RowStep ==
  ASSUME TypeInv, HandleInv, [Next]_vars
  PROVE  \/ UNCHANGED <<status, phase>>
         \/ \E l \in Launch : LET k == <<l, "call">> IN
              /\ pc[k] = "setRunning" /\ pc'[k] \in {"append", "spawn"}
              /\ status' = "running" /\ phase' = phase
         \/ \E l \in Launch : LET k == <<l, "call">> IN
              /\ pc[k] = "setPaused" /\ pc'[k] = "done"
              /\ status' = "paused" /\ phase' = phase
         \/ \E l \in Launch : LET h == <<l, "watch">> IN
              /\ pc[h] = "setPhase" /\ pc'[h] # "setPhase" /\ ~Cancelled(h)
              /\ status' = "running" /\ phase' = snap[h].phase + 1
         \/ \E g \in Goro :
              /\ pc[g] = "finalize" /\ pc'[g] = "done" /\ ~Cancelled(g)
              /\ status \notin Terminal /\ status' \in Terminal /\ phase' = phase
         \/ \E l \in Launch : LET k == <<l, "call">> IN
              /\ pc[k] = "recoverFail" /\ pc'[k] = "done"
              /\ status' = "failed" /\ phase' = phase
<1> USE DEF TypeInv, TypeOK, At, Goto, Return
<1>1. CASE UNCHANGED <<status, phase>>
  BY <1>1
<1>2. CASE ~UNCHANGED <<status, phase>>
  <2>0. PICK g \in Goro : Step(g) \/ AdvancePhase(g) \/ PollDeadline(g)
    BY <1>2 DEF Next, Call, StartRun, ResumeRun, PauseRun, StopCall, BeginLaunch, Disconnect, rowVars,
         Crash, AttackEnds, vars
  <2>1. SetRunning(g) \/ SetPaused(g) \/ SetPhase(g) \/ Finalize(g) \/ RecoverFail(g)
    BY <1>2, <2>0 DEF Step, rowVars, LoadRules, PushRules, AppendRunAttackID, StartAttack,
     SaveAttackIDs, SpawnDrivers, Register, PauseLock, PauseAttacks, StopLock, StopGet,
     StopClear, StopAndHarvest, WatchExit, AdvancePhase, RebindWatcher, PollExit,
     PollDeadline, PollTick, PollHarvest, Recover
  <2>2. /\ KindOKOf(g, pc[g]) /\ g[1] \in Launch /\ g[2] \in Kind /\ g = <<g[1], g[2]>>
        /\ want[g] \in Terminal
    BY GoroFacts DEF HandleInv, KindOK, KindOKOf
  <2>3. CASE SetRunning(g)
    <3>1. g = <<g[1], "call">>
      BY <2>2, <2>3 DEF SetRunning, KindOKOf, StopLocations, Kind
    <3> QED BY <2>2, <2>3, <3>1 DEF SetRunning, UpdateRunStatus
  <2>4. CASE SetPaused(g)
    <3>1. g = <<g[1], "call">>
      BY <2>2, <2>4 DEF SetPaused, KindOKOf, StopLocations, Kind
    <3> QED BY <2>2, <2>4, <3>1 DEF SetPaused, UpdateRunStatus
  <2>5. CASE SetPhase(g)
    <3>1. g = <<g[1], "watch">>
      BY <2>2, <2>5 DEF SetPhase, KindOKOf, StopLocations, Kind
    <3> QED BY <2>2, <2>5, <3>1 DEF SetPhase, UpdateRunStatus, Entering
  <2>6. CASE Finalize(g)
    BY <2>2, <2>6 DEF Finalize, FinalizeRunStatus
  <2>7. CASE RecoverFail(g)
    <3>1. g = <<g[1], "call">>
      BY <2>2, <2>7 DEF RecoverFail, KindOKOf, StopLocations, Kind
    <3> QED BY <2>2, <2>7, <3>1 DEF RecoverFail, UpdateRunStatus
  <2> QED BY <2>1, <2>3, <2>4, <2>5, <2>6, <2>7
<1> QED BY <1>1, <1>2

(* How a call moves.                                                       *)
LEMMA CallPath ==
  ASSUME TypeInv, HandleInv, [Next]_vars, NEW l \in Launch,
         pc'[<<l, "call">>] # pc[<<l, "call">>]
  PROVE  LET k == <<l, "call">> IN
         \/ /\ pc'[k] = "load" /\ Accepts(l) /\ status \in {"pending", "paused"}
            /\ UNCHANGED <<status, phase>> /\ snap'[k].phase = phase
            /\ \A h \in Drivers : pc'[h] = pc[h]
         \/ pc'[k] = "pauseLock" /\ status = "running" /\ status' = status
         \/ /\ pc[k] \in {"pauseLock", "pauseStop"} /\ pc'[k] \in {"pauseStop", "setPaused"}
            /\ status' = status
         \/ pc'[k] = "recover" /\ \A h \in Drivers : ~Live(h)'
         \/ /\ pc[k] = "recover" /\ pc'[k] \in {"recoverFail", "spawn"}
            /\ status = "running" /\ UNCHANGED <<status, phase>> /\ snap'[k].phase = phase
         \/ /\ pc[k] \in {"load", "push"} /\ pc'[k] \in {"push", "setRunning"}
            /\ UNCHANGED <<status, phase, snap>>
         \/ /\ pc[k] = "setRunning" /\ pc'[k] \in {"append", "spawn"}
            /\ status' = "running" /\ UNCHANGED <<phase, snap>>
         \/ /\ pc[k] \in {"append", "zeusStart", "saveIDs"}
            /\ pc'[k] \in {"zeusStart", "saveIDs", "spawn"}
            /\ UNCHANGED <<status, phase>> /\ snap'[k].phase = snap[k].phase
         \/ SpawnDrivers(k)
         \/ pc'[k] \in {"done", "stopLock"}
         \/ StopLock(k)
         \/ pc[k] \in Stopping /\ pc'[k] \in Stopping
<1> DEFINE k == <<l, "call">>
           P == \/ /\ pc'[k] = "load" /\ Accepts(l) /\ status \in {"pending", "paused"}
                   /\ UNCHANGED <<status, phase>> /\ snap'[k].phase = phase
                   /\ \A h \in Drivers : pc'[h] = pc[h]
                \/ pc'[k] = "pauseLock" /\ status = "running" /\ status' = status
                \/ /\ pc[k] \in {"pauseLock", "pauseStop"} /\ pc'[k] \in {"pauseStop", "setPaused"}
                   /\ status' = status
                \/ pc'[k] = "recover" /\ \A h \in Drivers : ~Live(h)'
                \/ /\ pc[k] = "recover" /\ pc'[k] \in {"recoverFail", "spawn"}
                   /\ status = "running" /\ UNCHANGED <<status, phase>> /\ snap'[k].phase = phase
                \/ /\ pc[k] \in {"load", "push"} /\ pc'[k] \in {"push", "setRunning"}
                   /\ UNCHANGED <<status, phase, snap>>
                \/ /\ pc[k] = "setRunning" /\ pc'[k] \in {"append", "spawn"}
                   /\ status' = "running" /\ UNCHANGED <<phase, snap>>
                \/ /\ pc[k] \in {"append", "zeusStart", "saveIDs"}
                   /\ pc'[k] \in {"zeusStart", "saveIDs", "spawn"}
                   /\ UNCHANGED <<status, phase>> /\ snap'[k].phase = snap[k].phase
                \/ SpawnDrivers(k)
                \/ pc'[k] \in {"done", "stopLock"}
                \/ StopLock(k)
                \/ pc[k] \in Stopping /\ pc'[k] \in Stopping
<1> SUFFICES P
  OBVIOUS
<1>0. /\ k \in Goro /\ pc'[k] # pc[k] /\ snap[k] \in Snapshot
      /\ \A h \in Drivers : h \in Goro /\ h # k
      /\ Row.phase = phase
  BY CallFacts, DriverFacts DEF TypeInv, TypeOK, Row
<1>00. ASSUME StartAttack(k)
       PROVE  /\ pc[k] = "zeusStart" /\ pc'[k] \in {"saveIDs", "spawn"}
              /\ UNCHANGED <<status, phase>> /\ snap'[k].phase = snap[k].phase
  <2>1. /\ pc[k] = "zeusStart" /\ UNCHANGED <<status, phase>>
        /\ \/ Goto(k, "spawn")
           \/ \E id \in Attack : GotoWith(k, "saveIDs", [snap[k] EXCEPT !.attacks = {id}])
    BY <1>0, <1>00 DEF StartAttack, At, rowVars, Attack, Goro
  <2>2. CASE Goto(k, "spawn")
    BY <1>0, <2>1, <2>2 DEF Goto, TypeInv, TypeOK
  <2>3. ASSUME NEW id \in Attack, GotoWith(k, "saveIDs", [snap[k] EXCEPT !.attacks = {id}])
        PROVE  pc'[k] = "saveIDs" /\ snap'[k].phase = snap[k].phase
    <3>1. [snap[k] EXCEPT !.attacks = {id}].phase = snap[k].phase
      BY <1>0 DEF Snapshot
    <3> QED BY <1>0, <2>3, <3>1 DEF GotoWith, TypeInv, TypeOK
  <2> QED BY <2>1, <2>2, <2>3
<1> USE DEF TypeInv, TypeOK, Goto, GotoWith, GotoStop, Return, At, rowVars, Stopping
<1>1. CASE UNCHANGED vars
  BY <1>0, <1>1 DEF vars
<1>2. ASSUME NEW c \in Calls, Call(c) PROVE P
  <2>1. c = l
    BY <1>0, <1>2, CallFacts DEF Call, StartRun, ResumeRun, PauseRun, StopCall, BeginLaunch, Launch
  <2>2. CASE StartRun(c) \/ ResumeRun(c)
    BY <1>0, <2>1, <2>2 DEF StartRun, ResumeRun, BeginLaunch
  <2>3. CASE PauseRun(c)
    BY <1>0, <2>1, <2>3 DEF PauseRun
  <2>4. CASE StopCall(c)
    BY <1>0, <2>1, <2>4 DEF StopCall
  <2> QED BY <1>2, <2>2, <2>3, <2>4 DEF Call
<1>3. ASSUME NEW c \in Calls, Disconnect(c) PROVE P
  BY <1>0, <1>3 DEF Disconnect
<1>4. ASSUME NEW b \in Boots, Crash(b) PROVE P
  <2>1. \A h \in Drivers : ~Live(h)'
    BY <1>4, CrashActive
  <2>2. pc'[k] \in {"recover", "done", pc[k]}
    BY <1>0, <1>4 DEF Crash
  <2> QED BY <1>0, <2>1, <2>2
<1>5. ASSUME NEW a \in Attack, AttackEnds(a) PROVE P
  BY <1>0, <1>5 DEF AttackEnds
<1>6. ASSUME NEW g \in Goro, Step(g) \/ AdvancePhase(g) \/ PollDeadline(g) PROVE P
  <2>0. KindOKOf(g, pc[g]) /\ g[1] \in Launch /\ g = <<g[1], g[2]>>
    BY GoroFacts DEF HandleInv, KindOK, KindOKOf
  <2>1. CASE SpawnDrivers(g)
    <3>1. g[2] = "call"
      BY <2>0, <2>1, GoroFacts DEF SpawnDrivers, KindOKOf, StopLocations, Kind
    <3>2. k \notin DriversOf(g)
      BY DEF DriversOf
    <3>3. g = k
      BY <1>0, <2>1, <3>2 DEF SpawnDrivers
    <3> QED BY <2>1, <3>3
  <2>2. CASE Register(g)
    BY <1>0, <2>2 DEF Register
  <2>3. g = k \/ SpawnDrivers(g) \/ Register(g)
    BY <1>0, <1>6 DEF Step, AdvancePhase, PollDeadline, LoadRules, PushRules, SetRunning,
       AppendRunAttackID, StartAttack, SaveAttackIDs, PauseLock, PauseAttacks, SetPaused, StopLock,
       StopGet, StopClear, StopAndHarvest, Finalize, WatchExit, SetPhase, RebindWatcher, PollExit,
       PollTick, PollHarvest, Recover, RecoverFail
  <2>4. CASE g = k /\ (LoadRules(g) \/ PushRules(g))
    BY <1>0, <2>4 DEF LoadRules, PushRules
  <2>5. CASE g = k /\ SetRunning(g)
    BY <1>0, <2>5 DEF SetRunning, UpdateRunStatus
  <2>6. CASE g = k /\ (AppendRunAttackID(g) \/ SaveAttackIDs(g))
    BY <1>0, <2>6 DEF AppendRunAttackID, SaveAttackIDs
  <2>61. CASE g = k /\ StartAttack(g)
    BY <1>00, <2>61
  <2>7. CASE g = k /\ (PauseLock(g) \/ PauseAttacks(g) \/ SetPaused(g))
    BY <1>0, <2>7 DEF PauseLock, PauseAttacks, SetPaused
  <2>9. CASE g = k /\ (StopLock(g) \/ StopGet(g) \/ StopClear(g) \/ StopAndHarvest(g) \/ Finalize(g))
    BY <1>0, <2>9 DEF StopGet, StopClear, StopAndHarvest, Finalize
  <2>10. CASE g = k /\ (Recover(g) \/ RecoverFail(g))
    BY <1>0, <2>10 DEF Recover, RecoverFail
  <2>11. g = k => pc[g] \notin {"watching", "setPhase", "rebind", "polling", "pollHarvest"}
    BY <2>0 DEF KindOKOf
  <2>12. CASE g = k /\ (WatchExit(g) \/ AdvancePhase(g) \/ SetPhase(g) \/ RebindWatcher(g)
                         \/ PollExit(g) \/ PollTick(g) \/ PollHarvest(g) \/ PollDeadline(g))
    BY <2>11, <2>12 DEF WatchExit, AdvancePhase, SetPhase, RebindWatcher, PollExit, PollTick,
                        PollHarvest, PollDeadline
  <2> QED
    BY <1>6, <2>1, <2>2, <2>3, <2>4, <2>5, <2>6, <2>61, <2>7, <2>9, <2>10, <2>12 DEF Step
<1> QED BY <1>1, <1>2, <1>3, <1>4, <1>5, <1>6 DEF Next

(* How a driver moves, and which steps bring one up.                       *)
LEMMA DriverPath ==
  ASSUME TypeInv, HandleInv, [Next]_vars, NEW h \in Drivers, Live(h)'
  PROVE  \/ pc'[h] = pc[h] /\ snap'[h] = snap[h]
         \/ SpawnDrivers(<<h[1], "call">>) /\ h \in DriversOf(<<h[1], "call">>)
         \/ /\ pc[h] \in {"watching", "polling"}
            /\ pc[<<h[1], "call">>] = "register" => "early" \in lapses'
            /\ pc'[h] \in {"load", "stopLock", "pollHarvest"} /\ snap'[h] = snap[h]
         \/ /\ pc[h] \in {"load", "push", "pollHarvest"}
            /\ pc'[h] \in {"push", "setPhase", "stopLock"} /\ snap'[h] = snap[h]
         \/ SetPhase(h) /\ pc'[h] = "rebind" /\ snap'[h] = snap[h]
         \/ RebindWatcher(h)
         \/ StopLock(h)
         \/ pc[h] \in Stopping /\ pc'[h] \in Stopping
<1> DEFINE P == \/ pc'[h] = pc[h] /\ snap'[h] = snap[h]
                \/ SpawnDrivers(<<h[1], "call">>) /\ h \in DriversOf(<<h[1], "call">>)
                \/ /\ pc[h] \in {"watching", "polling"}
                   /\ pc[<<h[1], "call">>] = "register" => "early" \in lapses'
                   /\ pc'[h] \in {"load", "stopLock", "pollHarvest"} /\ snap'[h] = snap[h]
                \/ /\ pc[h] \in {"load", "push", "pollHarvest"}
                   /\ pc'[h] \in {"push", "setPhase", "stopLock"} /\ snap'[h] = snap[h]
                \/ SetPhase(h) /\ pc'[h] = "rebind" /\ snap'[h] = snap[h]
                \/ RebindWatcher(h)
                \/ StopLock(h)
                \/ pc[h] \in Stopping /\ pc'[h] \in Stopping
<1> SUFFICES P
  OBVIOUS
<1>0. h \in Goro /\ h[2] \in {"watch", "poll"} /\ h = <<h[1], h[2]>> /\ pc'[h] \notin {"idle", "done"}
  BY DriverFacts DEF Live
<1> USE DEF TypeInv, TypeOK, Goto, GotoWith, GotoStop, Return, At, Stopping
<1>1. CASE UNCHANGED vars
  BY <1>1 DEF vars
<1>2. ASSUME NEW c \in Calls, Call(c) PROVE P
  BY <1>0, <1>2, CallFacts DEF Call, StartRun, ResumeRun, PauseRun, StopCall, BeginLaunch, Launch
<1>3. ASSUME NEW c \in Calls, Disconnect(c) PROVE P
  BY <1>3 DEF Disconnect
<1>4. ASSUME NEW b \in Boots, Crash(b) PROVE P
  BY <1>0, <1>4 DEF Crash, Live
<1>5. ASSUME NEW a \in Attack, AttackEnds(a) PROVE P
  BY <1>5 DEF AttackEnds
<1>6. ASSUME NEW g \in Goro, Step(g) \/ AdvancePhase(g) \/ PollDeadline(g) PROVE P
  <2>0. KindOKOf(g, pc[g]) /\ g[1] \in Launch /\ g = <<g[1], g[2]>>
    BY GoroFacts DEF HandleInv, KindOK, KindOKOf
  <2>1. CASE SpawnDrivers(g)
    <3>1. g[2] = "call" /\ h # g
      BY <1>0, <2>0, <2>1, GoroFacts DEF SpawnDrivers, KindOKOf, StopLocations, Kind
    <3>2. h \in DriversOf(g) => g = <<h[1], "call">>
      BY <2>0, <3>1 DEF DriversOf
    <3>3. h \notin DriversOf(g) => pc'[h] = pc[h] /\ snap'[h] = snap[h]
      BY <1>0, <2>1, <3>1 DEF SpawnDrivers
    <3> QED BY <2>1, <3>2, <3>3
  <2>2. CASE Register(g)
    <3>1. g[2] = "call" /\ h # g /\ h # <<g[1], "auto">>
      BY <1>0, <2>0, <2>2, GoroFacts DEF Register, KindOKOf, StopLocations, Kind
    <3> QED BY <1>0, <2>2, <3>1 DEF Register
  <2>3. CASE g # h /\ ~SpawnDrivers(g) /\ ~Register(g)
    <3>1. pc'[h] = pc[h] /\ snap'[h] = snap[h]
      BY <1>0, <1>6, <2>3 DEF Step, AdvancePhase, PollDeadline, LoadRules, PushRules, SetRunning,
       AppendRunAttackID, StartAttack, SaveAttackIDs, PauseLock, PauseAttacks, SetPaused, StopLock,
       StopGet, StopClear, StopAndHarvest, Finalize, WatchExit, SetPhase, RebindWatcher, PollExit,
       PollTick, PollHarvest, Recover, RecoverFail
    <3> QED BY <3>1
  <2>4. CASE g = h /\ (LoadRules(g) \/ PushRules(g))
    BY <1>0, <2>0, <2>4 DEF LoadRules, PushRules, KindOKOf, StopLocations
  <2>5. CASE g = h /\ (AdvancePhase(g) \/ PollDeadline(g) \/ PollTick(g))
    BY <1>0, <2>5 DEF AdvancePhase, PollDeadline, PollTick, NoteEarly
  <2>6. CASE g = h /\ (PollHarvest(g) \/ WatchExit(g) \/ PollExit(g))
    BY <1>0, <2>6 DEF PollHarvest, WatchExit, PollExit
  <2>7. CASE g = h /\ SetPhase(g)
    BY <1>0, <2>7 DEF SetPhase
  <2>8. CASE g = h /\ (RebindWatcher(g) \/ StopLock(g))
    BY <2>8
  <2>9. CASE g = h /\ (StopGet(g) \/ StopClear(g) \/ StopAndHarvest(g) \/ Finalize(g))
    BY <1>0, <2>9 DEF StopGet, StopClear, StopAndHarvest, Finalize
  <2>10. g = h => pc[g] \in StopLocations \cup {"polling", "pollHarvest", "watching", "load",
                                                "push", "setPhase", "rebind"}
    BY <1>0, <2>0 DEF KindOKOf
  <2>11. g = h => ~(\/ SetRunning(g) \/ AppendRunAttackID(g) \/ StartAttack(g) \/ SaveAttackIDs(g)
                    \/ PauseLock(g) \/ PauseAttacks(g) \/ SetPaused(g) \/ Recover(g) \/ RecoverFail(g))
    BY <2>10 DEF SetRunning, AppendRunAttackID, StartAttack, SaveAttackIDs, PauseLock, PauseAttacks,
                 SetPaused, Recover, RecoverFail, StopLocations
  <2> QED
    BY <1>6, <2>1, <2>2, <2>3, <2>4, <2>5, <2>6, <2>7, <2>8, <2>9, <2>11 DEF Step
<1> QED BY <1>1, <1>2, <1>3, <1>4, <1>5, <1>6 DEF Next

(* A goroutine comes to stop the run through StopLock only.                *)
LEMMA StopPath ==
  ASSUME TypeInv, HandleInv, [Next]_vars, NEW g \in Launch \X {"call", "auto"},
         pc'[g] \in Stopping, pc[g] \notin Stopping
  PROVE  StopLock(g)
<1>0. g \in Goro /\ g[1] \in Launch /\ g[2] \in {"call", "auto"} /\ g = <<g[1], g[2]>>
  BY DEF Goro, Kind
<1>1. CASE g[2] = "call"
  <2>1. g = <<g[1], "call">> /\ pc'[g] # pc[g]
    BY <1>0, <1>1
  <2>2. SpawnDrivers(g) => pc'[g] = "register"
    BY <1>0 DEF SpawnDrivers
  <2> QED BY <1>0, <2>1, <2>2, CallPath DEF Stopping
<1>2. CASE g[2] = "auto"
  <2> USE DEF TypeInv, TypeOK, Goto, GotoWith, GotoStop, Return, At, Stopping
  <2>1. pc[g] \in StopLocations
    BY <1>0, <1>2 DEF HandleInv, KindOK
  <2>2. ~UNCHANGED vars
    BY DEF vars
  <2>3. ASSUME NEW c \in Calls, Call(c) \/ Disconnect(c) PROVE FALSE
    BY <1>0, <1>2, <2>3 DEF Call, StartRun, ResumeRun, PauseRun, StopCall, BeginLaunch, Disconnect
  <2>4. ASSUME NEW b \in Boots, Crash(b) PROVE FALSE
    BY <1>0, <2>4 DEF Crash
  <2>5. ASSUME NEW a \in Attack, AttackEnds(a) PROVE FALSE
    BY <2>5 DEF AttackEnds
  <2>6. ASSUME NEW i \in Goro, Step(i) \/ AdvancePhase(i) \/ PollDeadline(i) PROVE StopLock(g)
    <3>1. g \notin DriversOf(i)
      BY <1>2 DEF DriversOf
    <3>2. CASE SpawnDrivers(i) \/ Register(i)
      BY <1>0, <2>1, <3>1, <3>2 DEF SpawnDrivers, Register, StopLocations
    <3>3. CASE i # g /\ ~SpawnDrivers(i) /\ ~Register(i)
      BY <1>0, <2>6, <3>3 DEF Step, AdvancePhase, PollDeadline, LoadRules, PushRules, SetRunning,
       AppendRunAttackID, StartAttack, SaveAttackIDs, PauseLock, PauseAttacks, SetPaused, StopLock,
       StopGet, StopClear, StopAndHarvest, Finalize, WatchExit, SetPhase, RebindWatcher, PollExit,
       PollTick, PollHarvest, Recover, RecoverFail
    <3>4. CASE i = g /\ ~SpawnDrivers(i) /\ ~Register(i)
      BY <1>0, <2>1, <2>6, <3>4 DEF StopLocations, Step, AdvancePhase, PollDeadline, LoadRules,
       PushRules, SetRunning,
       AppendRunAttackID, StartAttack, SaveAttackIDs, PauseLock, PauseAttacks, SetPaused,
       StopGet, StopClear, StopAndHarvest, Finalize, WatchExit, SetPhase, RebindWatcher, PollExit,
       PollTick, PollHarvest, Recover, RecoverFail
    <3> QED BY <3>2, <3>3, <3>4
  <2> QED BY <2>2, <2>3, <2>4, <2>5, <2>6 DEF Next
<1> QED BY <1>0, <1>1, <1>2

(* A driver that can act could act before, or has just come up.            *)
LEMMA ActiveStep ==
  ASSUME TypeInv, HandleInv, [Next]_vars, NEW h \in Drivers, Active(h)'
  PROVE  \/ Active(h) /\ CtxOf(h)' = CtxOf(h)
         \/ h[2] = "watch" /\ RebindWatcher(h)
         \/ SpawnDrivers(<<h[1], "call">>) /\ h \in DriversOf(<<h[1], "call">>)
<1>0. h \in Goro
  BY DriverFacts
<1>1. CASE UNCHANGED <<pc, snap, registered, handles, cancelled>>
  BY <1>1 DEF Active, Live, Cancelled, CtxOf
<1>2. ASSUME NEW g \in Goro, MovesOnly(g) PROVE Active(h) /\ CtxOf(h)' = CtxOf(h)
  BY <1>2, MovesActive
<1>3. ASSUME NEW g \in Goro, g[2] = "call", SpawnDrivers(g)
      PROVE  \/ Active(h) /\ CtxOf(h)' = CtxOf(h)
             \/ SpawnDrivers(<<h[1], "call">>) /\ h \in DriversOf(<<h[1], "call">>)
  <2>1. CASE h \in DriversOf(g)
    <3>1. h[1] = g[1]
      BY <2>1 DEF DriversOf
    <3>2. g = <<h[1], "call">>
      BY <1>3, <3>1, GoroFacts
    <3> QED BY <1>3, <2>1, <3>2
  <2>2. CASE h \notin DriversOf(g)
    <3>1. h # g
      BY <1>3, DriverFacts
    <3>2. pc'[h] = pc[h] /\ snap'[h] = snap[h] /\ cancelled' = cancelled
      BY <1>0, <1>3, <2>2, <3>1 DEF SpawnDrivers, memVars
    <3> QED BY <3>2 DEF Active, Live, Cancelled, CtxOf
  <2> QED BY <2>1, <2>2
<1>4. ASSUME NEW g \in Goro, g[2] = "call", Register(g) PROVE Active(h) /\ CtxOf(h)' = CtxOf(h)
  <2>1. g = <<g[1], "call">> /\ g[1] \in Launch
    BY <1>4, GoroFacts
  <2> QED BY <1>4, <2>1, RegisterActive
<1>5. ASSUME NEW g \in Goro, g[2] = "watch", RebindWatcher(g), g # h
      PROVE  Active(h) /\ CtxOf(h)' = CtxOf(h)
  <2>1. pc'[h] = pc[h] /\ snap'[h] = snap[h] /\ cancelled \subseteq cancelled'
    BY <1>0, <1>5 DEF RebindWatcher, TypeInv, TypeOK
  <2> QED BY <2>1 DEF Active, Live, Cancelled, CtxOf
<1>6. ASSUME NEW b \in Boots, Crash(b) PROVE FALSE
  BY <1>6, CrashActive DEF Active
<1> QED BY <1>1, <1>2, <1>3, <1>4, <1>5, <1>6, MovesNext

(* Two calls, or a call and an auto-complete, are not both under way.      *)
LEMMA SoloCalls ==
  ASSUME Solo, NEW g \in Launch \X {"call", "auto"}, NEW h \in Launch \X {"call", "auto"},
         Live(g), Live(h)
  PROVE  g = h
BY DEF Solo

LEMMA CallIsSolo == ASSUME NEW l \in Launch PROVE <<l, "call">> \in Launch \X {"call", "auto"}
OBVIOUS

(* A call under way that stays where it is keeps its row.                  *)
LEMMA SnapKept ==
  ASSUME TypeInv, HandleInv, [Next]_vars, NEW l \in Launch,
         pc[<<l, "call">>] \in Launching \cup {"register"},
         pc'[<<l, "call">>] = pc[<<l, "call">>]
  PROVE  snap'[<<l, "call">>] = snap[<<l, "call">>]
<1> DEFINE k == <<l, "call">>
<1>0. k \in Goro /\ pc[k] \notin {"idle", "done", "watching", "setPhase", "rebind", "polling", "pollHarvest"}
  BY CallFacts DEF Launching
<1> USE DEF TypeInv, TypeOK, Goto, GotoWith, GotoStop, Return, At
<1>1. CASE UNCHANGED vars
  BY <1>1 DEF vars
<1>2. ASSUME NEW c \in Calls, Call(c) PROVE snap'[k] = snap[k]
  <2>1. <<c, "call">> # k
    BY <1>0, <1>2 DEF Call, StartRun, ResumeRun, PauseRun, StopCall, BeginLaunch, Accepts
  <2> QED
    BY <1>0, <1>2, <2>1 DEF Call, StartRun, ResumeRun, PauseRun, StopCall, BeginLaunch
<1>3. ASSUME NEW c \in Calls, Disconnect(c) PROVE snap'[k] = snap[k]
  BY <1>3 DEF Disconnect
<1>4. ASSUME NEW b \in Boots, Crash(b) PROVE FALSE
  BY <1>0, <1>4 DEF Crash, Live
<1>5. ASSUME NEW a \in Attack, AttackEnds(a) PROVE snap'[k] = snap[k]
  BY <1>5 DEF AttackEnds
<1>6. ASSUME NEW g \in Goro, Step(g) \/ AdvancePhase(g) \/ PollDeadline(g) PROVE snap'[k] = snap[k]
  <2>1. CASE SpawnDrivers(g)
    <3>1. k \notin DriversOf(g)
      BY DEF DriversOf
    <3> QED BY <1>0, <2>1, <3>1 DEF SpawnDrivers
  <2>2. CASE Register(g)
    <3>1. g # k
      BY <1>0, <2>2 DEF Register
    <3> QED BY <1>0, <2>2, <3>1 DEF Register
  <2>3. CASE g # k /\ ~SpawnDrivers(g) /\ ~Register(g)
    BY <1>0, <1>6, <2>3 DEF Step, AdvancePhase, PollDeadline, LoadRules, PushRules, SetRunning,
       AppendRunAttackID, StartAttack, SaveAttackIDs, PauseLock, PauseAttacks, SetPaused, StopLock,
       StopGet, StopClear, StopAndHarvest, Finalize, WatchExit, SetPhase, RebindWatcher, PollExit,
       PollTick, PollHarvest, Recover, RecoverFail
  <2>4. CASE g = k /\ ~SpawnDrivers(g) /\ ~Register(g)
    <3>1. CASE StartAttack(k)
      BY <1>0, <3>1 DEF StartAttack
    <3>2. CASE Recover(k)
      BY <1>0, <3>2 DEF Recover
    <3>3. CASE LoadRules(k) \/ PushRules(k) \/ SetRunning(k) \/ AppendRunAttackID(k) \/ SaveAttackIDs(k)
      BY <1>0, <3>3 DEF LoadRules, PushRules, SetRunning, AppendRunAttackID, SaveAttackIDs
    <3>4. CASE ~(\/ StartAttack(k) \/ Recover(k) \/ LoadRules(k) \/ PushRules(k) \/ SetRunning(k)
                 \/ AppendRunAttackID(k) \/ SaveAttackIDs(k))
      BY <1>0, <1>6, <2>4, <3>4 DEF Launching, Step, AdvancePhase, PollDeadline, PauseLock,
         PauseAttacks, SetPaused, StopLock, StopGet, StopClear, StopAndHarvest, Finalize, WatchExit,
         SetPhase, RebindWatcher, PollExit, PollTick, PollHarvest, RecoverFail
    <3> QED BY <3>1, <3>2, <3>3, <3>4
  <2> QED BY <2>1, <2>2, <2>3, <2>4
<1> QED BY <1>1, <1>2, <1>3, <1>4, <1>5, <1>6 DEF Next

(* The row's writer, as a call under way sees it: itself or a driver that  *)
(* can act.                                                                *)
LEMMA RowKept ==
  ASSUME FsmInv, [Next]_vars, NEW l \in Launch, Live(<<l, "call">>),
         pc'[<<l, "call">>] \notin {"append", "spawn", "done"} \/ pc[<<l, "call">>] # "setRunning",
         pc'[<<l, "call">>] # "done"
  PROVE  \/ UNCHANGED <<status, phase>>
         \/ /\ status' = "running"
            /\ \E i \in Launch : Active(<<i, "watch">>) /\ pc[<<i, "watch">>] = "setPhase"
         \/ /\ status' \in Terminal
            /\ \E h \in Drivers : Active(h) /\ pc[h] = "finalize"
<1> DEFINE k == <<l, "call">>
<1> USE DEF FsmInv, LeakInv
<1>1. ASSUME NEW i \in Launch, Live(<<i, "call">>) PROVE i = l
  BY <1>1, SoloCalls, CallIsSolo
<1>2. ASSUME NEW i \in Launch, pc[<<i, "call">>] = "setRunning", pc'[<<i, "call">>] \in {"append", "spawn"}
      PROVE  FALSE
  <2>1. i = l
    BY <1>1, <1>2 DEF Live
  <2> QED BY <1>2, <2>1
<1>3. ASSUME NEW i \in Launch, pc[<<i, "call">>] \in {"setPaused", "recoverFail"}, pc'[<<i, "call">>] = "done"
      PROVE  FALSE
  <2>1. i = l
    BY <1>1, <1>3 DEF Live
  <2> QED BY <1>3, <2>1
<1>4. ASSUME NEW g \in Goro, pc[g] = "finalize", pc'[g] = "done", ~Cancelled(g)
      PROVE  g \in Drivers /\ Active(g)
  <2>1. CASE g \in Drivers
    BY <1>4, <2>1 DEF Active, Live
  <2>2. CASE g \notin Drivers
    <3>1. g \in Launch \X {"call", "auto"}
      BY <2>2 DEF Goro, Drivers, Kind
    <3>2. g = k
      BY <1>4, <3>1, SoloCalls, CallIsSolo DEF Live
    <3> QED BY <1>4, <3>2
  <2> QED BY <2>1, <2>2
<1>5. ASSUME NEW i \in Launch, pc[<<i, "watch">>] = "setPhase", ~Cancelled(<<i, "watch">>)
      PROVE  Active(<<i, "watch">>)
  BY <1>5 DEF Active, Live
<1> QED BY <1>2, <1>3, <1>4, <1>5, RowStep

(* Once quiet, a run stays so while a call is under way, unless that call  *)
(* itself spawns or registers drivers.                                     *)
LEMMA QuietKept ==
  ASSUME FsmInv, [Next]_vars, Quiet, NEW g \in Launch \X {"call", "auto"}, Live(g),
         pc[g] \notin {"spawn", "register"}
  PROVE  Quiet'
<1> USE DEF FsmInv, LeakInv
<1>1. ASSUME NEW l \in Launch, SpawnDrivers(<<l, "call">>) \/ Register(<<l, "call">>)
      PROVE  FALSE
  <2>1. pc[<<l, "call">>] \in {"spawn", "register"} /\ Live(<<l, "call">>)
    BY <1>1, LaunchMoves DEF Live
  <2> QED BY <2>1, SoloCalls, CallIsSolo
<1> QED BY <1>1, QuietStep

LEMMA CallInvStep ==
  ASSUME Serial, FsmInv, [Next]_vars
  PROVE  CallInv'
<1> USE DEF FsmInv, LeakInv
<1>0. \A i \in Launch : <<i, "watch">> \in Drivers /\ <<i, "call">> \in Goro
  BY CallFacts DEF Drivers
<1>1. ASSUME NEW l \in Launch
      PROVE  LET k == <<l, "call">> IN
             /\ SpawnDrivers(k) => pc[k] = "spawn" /\ pc'[k] = "register"
             /\ StopLock(k) => pc'[k] = "stopGet"
  BY <1>0 DEF SpawnDrivers, StopLock, At, TypeInv, TypeOK
<1>2. ASSUME NEW l \in Launch, Quiet, Live(<<l, "call">>), pc'[<<l, "call">>] # "done",
             pc'[<<l, "call">>] \notin {"append", "spawn"} \/ pc[<<l, "call">>] # "setRunning"
      PROVE  UNCHANGED <<status, phase>>
  BY <1>0, <1>2, RowKept DEF Quiet
<1>3. ASSUME NEW l \in Launch, pc'[<<l, "call">>] \in {"load", "push", "setRunning"}
      PROVE  status' \in {"pending", "paused"}
  <2> DEFINE k == <<l, "call">>
  <2>1. CASE pc[k] \in {"load", "push", "setRunning"}
    <3>1. Live(k) /\ status \in {"pending", "paused"} /\ Quiet
      BY <2>1 DEF CallInv, Live, QuietInv
    <3> QED BY <1>2, <1>3, <3>1
  <2>2. CASE pc[k] \notin {"load", "push", "setRunning"}
    BY <1>1, <1>3, <2>2, CallPath DEF Stopping
  <2> QED BY <2>1, <2>2
<1>4. ASSUME NEW l \in Launch, pc'[<<l, "call">>] \in {"pauseLock", "pauseStop", "setPaused"}
      PROVE  status' \notin {"pending", "paused"}
  <2> DEFINE k == <<l, "call">>
  <2>1. CASE pc[k] \in {"pauseLock", "pauseStop", "setPaused"}
    <3>1. Live(k) /\ status \notin {"pending", "paused"}
      BY <2>1 DEF CallInv, Live
    <3>2. status' = status \/ status' = "running" \/ status' \in Terminal
      BY <1>4, <2>1, <3>1, RowKept
    <3> QED BY <3>1, <3>2 DEF Terminal
  <2>2. CASE pc[k] \notin {"pauseLock", "pauseStop", "setPaused"}
    BY <1>1, <1>4, <2>2, CallPath DEF Stopping
  <2> QED BY <2>1, <2>2
<1>5. ASSUME NEW l \in Launch, pc'[<<l, "call">>] = "recoverFail" PROVE status' = "running"
  <2> DEFINE k == <<l, "call">>
  <2>1. CASE pc[k] = "recoverFail"
    <3>1. Live(k) /\ status = "running" /\ Quiet
      BY <2>1, CallIsSolo DEF CallInv, Live
    <3> QED BY <1>2, <1>5, <2>1, <3>1
  <2>2. CASE pc[k] # "recoverFail"
    BY <1>1, <1>5, <2>2, CallPath DEF Stopping
  <2> QED BY <2>1, <2>2
<1>6. ASSUME NEW l \in Launch, pc'[<<l, "call">>] \in Launching \ {"recover", "recoverFail"}
      PROVE  snap'[<<l, "call">>].phase = phase'
  <2> DEFINE k == <<l, "call">>
             L == Launching \ {"recover", "recoverFail"}
  <2>1. CASE pc[k] \in L
    <3>1. Live(k) /\ Quiet /\ snap[k].phase = phase
      BY <2>1 DEF CallInv, Launching, Live, QuietInv, Preparing
    <3>2. phase' = phase
      <4>1. CASE pc[k] = "setRunning" /\ pc'[k] # "setRunning"
        BY <1>1, <1>6, <4>1, CallPath DEF Launching, Stopping
      <4>2. CASE ~(pc[k] = "setRunning" /\ pc'[k] # "setRunning")
        BY <1>2, <1>6, <3>1, <4>2 DEF Launching
      <4> QED BY <4>1, <4>2
    <3>3. CASE pc'[k] = pc[k]
      BY <2>1, <3>1, <3>2, <3>3, SnapKept
    <3>4. CASE pc'[k] # pc[k]
      BY <1>1, <1>6, <2>1, <3>1, <3>2, <3>4, CallPath DEF Launching, Stopping
    <3> QED BY <3>3, <3>4
  <2>2. CASE pc[k] \notin L
    BY <1>1, <1>6, <2>2, CallPath DEF Launching, Stopping
  <2> QED BY <2>1, <2>2
<1>7. ASSUME NEW g \in Launch \X {"call", "auto"}, pc'[g] \in Stopping \cup {"recoverFail"}
      PROVE  Quiet'
  <2>0. g \in Goro /\ Live(g)'
    BY <1>7 DEF Goro, Kind, Stopping, Live
  <2>1. CASE pc[g] \in Stopping \cup {"recoverFail"}
    BY <2>1, QuietKept DEF CallInv, Live, Stopping
  <2>2. CASE StopLock(g)
    <3>1. pc[g] = "stopLock" /\ handles \subseteq cancelled' /\ registered' = FALSE
      BY <2>2 DEF StopLock, DropHandles, At
    <3> SUFFICES ASSUME NEW h \in Drivers, Active(h)' PROVE FALSE
      BY <3>1 DEF Quiet
    <3>2. h \in Goro /\ h # g
      BY DriverFacts
    <3>3. Active(h) /\ CtxOf(h)' = CtxOf(h)
      <4>1. pc'[h] = pc[h] /\ snap' = snap /\ cancelled \subseteq cancelled'
        BY <2>0, <2>2, <3>2 DEF StopLock, DropHandles, TypeInv, TypeOK
      <4> QED BY <4>1 DEF Active, Live, Cancelled, CtxOf
    <3>4. CtxOf(h) \notin handles
      BY <3>1, <3>3 DEF Active, Cancelled
    <3>5. pc[<<h[1], "call">>] = "register" /\ h[1] \in Launch
      BY <3>3, <3>4, DriverFacts DEF NoLeakedGoroutine, Active, At
    <3>6. <<h[1], "call">> = g
      BY <3>1, <3>5, SoloCalls, CallIsSolo DEF Live
    <3> QED BY <3>1, <3>5, <3>6
  <2>3. CASE pc'[g] = "recoverFail" /\ pc[g] # "recoverFail"
    <3>1. g[2] = "call" /\ g = <<g[1], "call">> /\ g[1] \in Launch
      <4>1. g[2] \in {"call", "auto"} /\ g = <<g[1], g[2]>> /\ g[1] \in Launch
        OBVIOUS
      <4>2. pc'[g] \notin StopLocations
        BY <2>3 DEF StopLocations
      <4>3. HandleInv'
        BY HandleStep
      <4> QED BY <2>0, <4>1, <4>2, <4>3 DEF HandleInv, KindOK
    <3>2. pc[g] = "recover"
      BY <1>1, <2>3, <3>1, CallPath DEF Stopping
    <3>3. Quiet
      BY <3>1, <3>2 DEF QuietInv, Preparing
    <3> QED BY <3>2, <3>3, QuietKept DEF Live
  <2> QED BY <1>7, <2>1, <2>2, <2>3, StopPath
<1> QED BY <1>3, <1>4, <1>5, <1>6, <1>7 DEF CallInv

LEMMA OrderInvStep ==
  ASSUME Serial, FsmInv, [Next]_vars
  PROVE  OrderInv'
<1> USE DEF FsmInv, LeakInv
<1> SUFFICES ASSUME "early" \notin lapses'
             PROVE  /\ status' # "running" => Quiet'
                    /\ \A l \in Launch : pc'[<<l, "call">>] \in OnRunning => status' = "running"
                    /\ \A h \in Drivers : pc'[h] \in Stopping => Cancelled(h)'
                    /\ \A l \in Launch : pc'[<<l, "call">>] = "register" =>
                         \A h \in Drivers : Active(h)' => pc'[h] \in {"watching", "polling"}
  BY DEF OrderInv
<1>0. "early" \notin lapses
  BY LapseStep
<1>1. ASSUME status' # "running" PROVE Quiet'
  <2>1. ASSUME NEW l \in Launch, SpawnDrivers(<<l, "call">>) \/ Register(<<l, "call">>)
        PROVE  FALSE
    <3>1. pc[<<l, "call">>] \in {"spawn", "register"} /\ status' = status
      BY <2>1, LaunchMoves
    <3> QED BY <1>0, <1>1, <3>1 DEF OrderInv, OnRunning, MidLaunch
  <2>2. CASE status # "running"
    BY <1>0, <2>1, <2>2, QuietStep DEF OrderInv
  <2>3. CASE status = "running"
    <3>1. ASSUME NEW l \in Launch, pc[<<l, "call">>] \in {"setPaused", "recoverFail"} PROVE Quiet
      BY <3>1, CallIsSolo DEF CallInv, QuietInv, Preparing
    <3>2. ASSUME NEW g \in Goro, pc[g] = "finalize", ~Cancelled(g) PROVE Quiet
      <4>1. g \notin Drivers
        BY <1>0, <3>2 DEF OrderInv, Stopping
      <4>2. g \in Launch \X {"call", "auto"}
        BY <4>1 DEF Goro, Drivers, Kind
      <4> QED BY <3>2, <4>2 DEF CallInv, Stopping
    <3>3. Quiet
      BY <1>1, <2>3, <3>1, <3>2, RowStep
    <3> QED BY <2>1, <3>3, QuietStep
  <2> QED BY <2>2, <2>3
<1>2. ASSUME NEW l \in Launch, pc'[<<l, "call">>] \in OnRunning PROVE status' = "running"
  <2> DEFINE k == <<l, "call">>
  <2>1. CASE pc[k] \in OnRunning
    <3>1. Live(k) /\ status = "running" /\ pc'[k] # "done" /\ pc[k] # "setRunning"
      BY <1>0, <1>2, <2>1 DEF OnRunning, MidLaunch, OrderInv, Live
    <3>2. \A h \in Drivers : ~(Active(h) /\ pc[h] = "finalize")
      BY <1>0 DEF OrderInv, Active, Stopping
    <3> QED BY <3>1, <3>2, RowKept
  <2>2. CASE pc[k] \notin OnRunning
    <3>1. pc'[k] # pc[k] /\ ~SpawnDrivers(k) /\ ~StopLock(k)
      <4>1. SpawnDrivers(k) => pc[k] = "spawn"
        BY DEF SpawnDrivers, At
      <4>2. StopLock(k) => pc'[k] = "stopGet"
        BY CallFacts DEF StopLock, TypeInv, TypeOK
      <4> QED BY <1>2, <2>2, <4>1, <4>2 DEF OnRunning, MidLaunch
    <3> QED BY <1>2, <2>2, <3>1, CallPath DEF OnRunning, MidLaunch, Stopping
  <2> QED BY <2>1, <2>2
<1>3. ASSUME NEW h \in Drivers, Active(h)', pc'[h] \notin {"watching", "polling"}
      PROVE  /\ Active(h) /\ CtxOf(h)' = CtxOf(h)
             /\ ~RebindWatcher(h)
             /\ ~(SpawnDrivers(<<h[1], "call">>) /\ h \in DriversOf(<<h[1], "call">>))
  <2>1. h \in Goro /\ h # <<h[1], "call">>
    BY DriverFacts
  <2>2. ~(SpawnDrivers(<<h[1], "call">>) /\ h \in DriversOf(<<h[1], "call">>))
    BY <1>3, <2>1 DEF SpawnDrivers
  <2>3. RebindWatcher(h) => pc'[h] = "watching"
    BY <2>1 DEF RebindWatcher, TypeInv, TypeOK
  <2> QED BY <1>3, <2>2, <2>3, ActiveStep
<1>4. ASSUME NEW h \in Drivers, pc'[h] \in Stopping, ~Cancelled(h)' PROVE FALSE
  <2>0. h \in Goro /\ Active(h)' /\ Live(h)' /\ pc'[h] \notin {"watching", "polling"}
    BY <1>4, DriverFacts DEF Stopping, Active, Live
  <2>1. /\ Active(h) /\ CtxOf(h)' = CtxOf(h) /\ ~RebindWatcher(h)
        /\ ~(SpawnDrivers(<<h[1], "call">>) /\ h \in DriversOf(<<h[1], "call">>))
    BY <1>3, <2>0
  <2>2. pc[h] \notin Stopping
    BY <1>0, <2>1 DEF OrderInv, Active
  <2>3. StopLock(h)
    BY <1>4, <2>0, <2>1, <2>2, DriverPath DEF Stopping
  <2>4. pc[h] = "stopLock" /\ handles \subseteq cancelled'
    BY <2>3 DEF StopLock, DropHandles, At
  <2>5. CtxOf(h) \notin handles
    BY <1>4, <2>1, <2>4 DEF Cancelled
  <2>6. pc[<<h[1], "call">>] = "register" /\ h[1] \in Launch
    BY <2>1, <2>5, DriverFacts DEF NoLeakedGoroutine, Active, At
  <2> QED BY <1>0, <2>1, <2>4, <2>6 DEF OrderInv
<1>5. ASSUME NEW l \in Launch, pc'[<<l, "call">>] = "register",
             NEW h \in Drivers, Active(h)', pc'[h] \notin {"watching", "polling"}
      PROVE  FALSE
  <2> DEFINE k == <<l, "call">>
  <2>0. h \in Goro /\ Live(h)'
    BY <1>5, DriverFacts DEF Active
  <2>1. /\ Active(h) /\ CtxOf(h)' = CtxOf(h) /\ ~RebindWatcher(h)
        /\ ~(SpawnDrivers(<<h[1], "call">>) /\ h \in DriversOf(<<h[1], "call">>))
    BY <1>3, <1>5
  <2>2. pc[k] = "register"
    <3>1. CASE SpawnDrivers(k)
      <4>1. Quiet
        BY <3>1 DEF SpawnDrivers, At, QuietInv, Preparing
      <4> QED BY <2>1, <4>1 DEF Quiet
    <3>2. StopLock(k) => pc'[k] = "stopGet"
      BY CallFacts DEF StopLock, TypeInv, TypeOK
    <3> QED BY <1>5, <3>1, <3>2, CallPath DEF Stopping
  <2>3. pc[h] \in {"watching", "polling"} /\ h[1] = l
    BY <1>0, <2>1, <2>2 DEF OrderInv, QuietInv, Registers, DriversOf
  <2> QED
    BY <1>5, <2>0, <2>1, <2>2, <2>3, DriverPath DEF SetPhase, StopLock, At, Stopping
<1> QED BY <1>1, <1>2, <1>4, <1>5

(* No two watchers can act at the same time.                               *)
LEMMA OneActiveWatch ==
  ASSUME FsmInv, NEW i \in Launch, NEW j \in Launch,
         Active(<<i, "watch">>), Active(<<j, "watch">>)
  PROVE  i = j
<1> USE DEF FsmInv, LeakInv
<1>1. <<i, "watch">> \in Drivers /\ <<j, "watch">> \in Drivers
  BY DEF Drivers
<1>2. CASE At(<<i, "call">>, "register") \/ At(<<j, "call">>, "register")
  BY <1>1, <1>2 DEF QuietInv, Registers, DriversOf, At
<1>3. CASE ~(At(<<i, "call">>, "register") \/ At(<<j, "call">>, "register"))
  <2>1. CtxOf(<<i, "watch">>) \in handles /\ CtxOf(<<j, "watch">>) \in handles
    BY <1>1, <1>3 DEF NoLeakedGoroutine, Active
  <2>2. CtxOf(<<i, "watch">>) = CtxOf(<<j, "watch">>)
    BY <2>1 DEF WatchInv, CtxOf
  <2> QED BY <2>2 DEF CtxOf
<1> QED BY <1>2, <1>3

LEMMA WatchInvStep ==
  ASSUME Serial, FsmInv, [Next]_vars
  PROVE  WatchInv'
<1> USE DEF FsmInv, LeakInv
<1>0. \A i \in Launch : <<i, "watch">> \in Drivers /\ <<i, "call">> \in Goro
  BY CallFacts DEF Drivers
<1>1. ASSUME NEW x \in handles', NEW y \in handles', x[2] = "watch", y[2] = "watch" PROVE x = y
  <2>1. CASE handles' \subseteq handles
    BY <1>1, <2>1 DEF WatchInv
  <2>2. ASSUME NEW g \in Goro, g[2] = "call", SpawnDrivers(g) \/ Register(g) PROVE x = y
    <3>1. CASE SpawnDrivers(g)
      BY <2>1, <3>1 DEF SpawnDrivers, memVars
    <3>2. CASE Register(g)
      <4>1. \A z \in handles' : z[2] = "watch" => z = <<g[1], "watch", snap[g].phase>>
        BY <3>2 DEF Register, DriversOf
      <4> QED BY <1>1, <4>1
    <3> QED BY <2>2, <3>1, <3>2
  <2>3. ASSUME NEW g \in Goro, g[2] = "watch", RebindWatcher(g) PROVE x = y
    <3> DEFINE new == <<g[1], "watch", Entering(g)>>
               old == {z \in handles : z[2] = "watch"}
    <3>1. CASE handles' = (handles \ old) \cup {new}
      BY <1>1, <3>1
    <3>2. CASE handles' = handles
      BY <2>1, <3>2
    <3> QED BY <2>3, <3>1, <3>2 DEF RebindWatcher
  <2>4. ASSUME NEW g \in Goro, MovesOnly(g) PROVE x = y
    BY <2>1, <2>4 DEF MovesOnly
  <2>5. ASSUME NEW b \in Boots, Crash(b) PROVE x = y
    BY <2>1, <2>5 DEF Crash
  <2> QED BY <2>1, <2>2, <2>3, <2>4, <2>5, MovesNext
<1>2. ASSUME "takeover" \notin lapses', NEW l \in Launch, Active(<<l, "watch">>)'
      PROVE  LET h == <<l, "watch">> IN
             /\ pc'[h] \in {"watching", "load", "push", "setPhase"} => snap'[h].phase = phase'
             /\ pc'[h] = "rebind" => phase' = snap'[h].phase + 1
  <2> DEFINE h == <<l, "watch">>
             W == /\ pc'[h] \in {"watching", "load", "push", "setPhase"} => snap'[h].phase = phase'
                  /\ pc'[h] = "rebind" => phase' = snap'[h].phase + 1
  <2> SUFFICES W
    OBVIOUS
  <2>0. /\ h \in Drivers /\ h \in Goro /\ Live(h)' /\ ~Cancelled(h)' /\ h[1] = l /\ h[2] = "watch"
        /\ "takeover" \notin lapses
    BY <1>0, <1>2, DriverFacts, LapseStep DEF Active
  <2>1. CASE SpawnDrivers(<<l, "call">>) /\ h \in DriversOf(<<l, "call">>)
    <3>1. /\ pc[<<l, "call">>] = "spawn" /\ phase' = phase
          /\ snap[<<l, "call">>].phase = phase
      BY <2>1 DEF SpawnDrivers, At, rowVars, CallInv, Launching
    <3>2. pc'[h] = "watching" /\ snap'[h] = snap[<<l, "call">>]
      BY <2>0, <2>1 DEF SpawnDrivers
    <3> QED BY <3>1, <3>2
  <2>2. CASE RebindWatcher(h)
    <3>1. pc[h] = "rebind" /\ pc'[h] = "watching" /\ phase' = phase
      BY <2>0, <2>2 DEF RebindWatcher, At, rowVars, TypeInv, TypeOK
    <3>2. Entering(h) = snap[h].phase + 1
      BY <2>0 DEF Entering
    <3>3. snap'[h].phase = Entering(h)
      <4>1. snap'[h] = [snap[h] EXCEPT !.phase = Entering(h)] /\ snap[h] \in Snapshot
        BY <2>0, <2>2 DEF RebindWatcher, TypeInv, TypeOK
      <4> QED BY <4>1 DEF Snapshot
    <3>4. registered
      <4>1. ASSUME ~registered PROVE FALSE
        <5>1. <<l, "watch", Entering(h)>> \in cancelled'
          BY <2>0, <2>2, <4>1 DEF RebindWatcher
        <5> QED BY <2>0, <3>3, <5>1 DEF Cancelled, CtxOf
      <4> QED BY <4>1
    <3>5. ~Cancelled(h)
      BY <1>2, <2>2, <3>4 DEF RebindWatcher
    <3>6. phase = snap[h].phase + 1
      BY <2>0, <3>1, <3>5 DEF WatchInv, Active, Live
    <3> QED BY <3>1, <3>2, <3>3, <3>6
  <2>3. CASE ~(SpawnDrivers(<<l, "call">>) /\ h \in DriversOf(<<l, "call">>)) /\ ~RebindWatcher(h)
    <3>1. Active(h) /\ CtxOf(h)' = CtxOf(h)
      BY <1>2, <2>0, <2>3, ActiveStep
    <3>2. snap'[h].phase = snap[h].phase
      BY <2>0, <3>1 DEF CtxOf
    <3>3. phase' = phase \/ (pc[h] = "setPhase" /\ pc'[h] # "setPhase")
      <4>1. ASSUME NEW i \in Launch, pc[<<i, "watch">>] = "setPhase", pc'[<<i, "watch">>] # "setPhase",
                   ~Cancelled(<<i, "watch">>)
            PROVE  pc[h] = "setPhase" /\ pc'[h] # "setPhase"
        <5>1. Active(<<i, "watch">>)
          BY <4>1 DEF Active, Live
        <5>2. i = l
          BY <3>1, <5>1, OneActiveWatch
        <5> QED BY <4>1, <5>2
      <4> QED BY <4>1, RowStep
    <3>4. CASE pc'[h] = pc[h]
      BY <2>0, <3>1, <3>2, <3>3, <3>4 DEF WatchInv
    <3>5. CASE SetPhase(h) /\ pc'[h] = "rebind"
      <4>1. phase' = snap[h].phase + 1
        BY <2>0, <3>1, <3>5 DEF SetPhase, Entering, Active
      <4> QED BY <3>2, <3>5, <4>1
    <3>6. pc[h] \notin {"polling", "pollHarvest"}
      BY <2>0 DEF HandleInv, KindOK, StopLocations
    <3>7. StopLock(h) => pc'[h] = "stopGet"
      BY <2>0 DEF StopLock, TypeInv, TypeOK
    <3>8. CASE \/ pc[h] \in {"watching", "polling"} /\ pc'[h] \in {"load", "stopLock", "pollHarvest"}
               \/ pc[h] \in {"load", "push", "pollHarvest"} /\ pc'[h] \in {"push", "setPhase", "stopLock"}
      BY <2>0, <3>1, <3>2, <3>3, <3>6, <3>8 DEF WatchInv
    <3> QED BY <2>0, <2>3, <3>4, <3>5, <3>7, <3>8, DriverPath DEF Stopping
  <2> QED BY <2>1, <2>2, <2>3
<1> QED BY <1>1, <1>2 DEF WatchInv

LEMMA FsmInvariant == ASSUME Serial PROVE Spec => []FsmInv
<1>1. Init => CallInv /\ OrderInv /\ WatchInv
  <2> SUFFICES ASSUME Init PROVE CallInv /\ OrderInv /\ WatchInv
    OBVIOUS
  <2>1. registered = FALSE /\ handles = {} /\ \A g \in Goro : pc[g] = "idle"
    BY DEF Init
  <2>2. /\ \A h \in Drivers : pc[h] = "idle"
        /\ \A l \in Launch : pc[<<l, "call">>] = "idle" /\ pc[<<l, "watch">>] = "idle"
        /\ \A g \in Launch \X {"call", "auto"} : pc[g] = "idle"
    BY <2>1 DEF Goro, Drivers, Kind
  <2>3. CallInv
    BY <2>2 DEF CallInv, Launching, Stopping
  <2>4. OrderInv
    BY <2>1, <2>2 DEF OrderInv, Quiet, Active, Live, OnRunning, MidLaunch, Stopping
  <2>5. WatchInv
    BY <2>1, <2>2 DEF WatchInv, Active, Live
  <2> QED BY <2>3, <2>4, <2>5
<1>2. FsmInv /\ [Next]_vars => (CallInv /\ OrderInv /\ WatchInv)'
  BY CallInvStep, OrderInvStep, WatchInvStep
<1>3. LeakInv /\ CallInv /\ OrderInv /\ WatchInv => FsmInv
  BY DEF FsmInv
<1> QED BY <1>1, <1>2, <1>3, LeakInvariant, PTL DEF Spec, FsmInv

(* A step of the run is a step of the documented state machine, or none.   *)
LEMMA FSMStep ==
  ASSUME Serial, FsmInv, [Next]_vars
  PROVE  [FSM!Next]_<<status, phase, lapses>>
<1> USE DEF FsmInv, LeakInv
<1>0. /\ lapses \subseteq lapses'
      /\ UNCHANGED <<status, phase>> \/ UNCHANGED lapses
  BY LapseStep
<1>1. CASE UNCHANGED <<status, phase>>
  BY <1>0, <1>1 DEF FSM!Next, FSM!Lapse
<1>2. ASSUME NEW l \in Launch, pc[<<l, "call">>] = "setRunning",
             status' = "running", phase' = phase, UNCHANGED lapses
      PROVE  FSM!Begin
  BY <1>2 DEF CallInv, FSM!Begin
<1>3. ASSUME NEW l \in Launch, pc[<<l, "call">>] = "setPaused",
             status' = "paused", phase' = phase, UNCHANGED lapses
      PROVE  FSM!Pause \/ FSM!Revive
  <2>1. status \notin {"pending", "paused"} /\ status \in Status
    BY <1>3 DEF CallInv, TypeInv, TypeOK
  <2>2. CASE status = "running"
    BY <1>3, <2>2 DEF FSM!Pause
  <2>3. CASE status # "running"
    <3>1. "early" \in lapses
      BY <1>3, <2>3 DEF OrderInv, OnRunning
    <3> QED BY <1>3, <2>1, <2>3, <3>1 DEF FSM!Revive, FSM!Terminal, Status, Terminal
  <2> QED BY <2>2, <2>3
<1>4. ASSUME NEW l \in Launch, LET h == <<l, "watch">> IN
             /\ pc[h] = "setPhase" /\ ~Cancelled(h)
             /\ status' = "running" /\ phase' = snap[h].phase + 1 /\ UNCHANGED lapses
      PROVE  FSM!NextPhase \/ FSM!Revive
  <2> DEFINE h == <<l, "watch">>
  <2>0. h \in Drivers /\ h \in Goro /\ h[2] = "watch"
    BY DriverFacts DEF Drivers
  <2>1. Active(h)
    BY <1>4 DEF Active, Live
  <2>2. FSM!EnterPhase
    <3>1. snap[h].phase \in Nat /\ snap[h].phase + 1 < NumPhases
      BY <1>4, <2>0 DEF TypeInv, TypeOK, WatchHasNext, Snapshot, Phases
    <3>2. CASE "takeover" \in lapses
      BY <1>4, <3>1, <3>2 DEF FSM!EnterPhase
    <3>3. CASE "takeover" \notin lapses
      <4>1. snap[h].phase = phase
        BY <1>4, <2>1, <3>3 DEF WatchInv
      <4> QED BY <1>4, <3>1, <4>1 DEF FSM!EnterPhase
    <3> QED BY <3>2, <3>3
  <2>3. CASE status = "running"
    BY <1>4, <2>2, <2>3 DEF FSM!NextPhase
  <2>4. CASE status # "running"
    <3>1. status \in Terminal /\ "early" \in lapses
      <4>1. ~Quiet
        BY <2>0, <2>1 DEF Quiet
      <4> QED BY <2>4, <4>1 DEF OrderInv, QuietInv, TypeInv, TypeOK, Status
    <3> QED BY <1>4, <2>2, <3>1 DEF FSM!Revive, FSM!Terminal, Terminal
  <2> QED BY <2>3, <2>4
<1>5. ASSUME status \notin Terminal, status' \in Terminal, phase' = phase, UNCHANGED lapses
      PROVE  FSM!End
  BY <1>5 DEF FSM!End, FSM!Terminal, Terminal
<1>6. ASSUME NEW l \in Launch, pc[<<l, "call">>] = "recoverFail",
             status' = "failed", phase' = phase, UNCHANGED lapses
      PROVE  FSM!End
  BY <1>6 DEF CallInv, FSM!End, FSM!Terminal
<1> QED BY <1>0, <1>1, <1>2, <1>3, <1>4, <1>5, <1>6, RowStep DEF FSM!Next

(* The run implements the documented state machine, one phase at a time    *)
(* and with a terminal status that is final, across pauses, resumptions    *)
(* and restarts and whatever fails on the way, for calls that do not       *)
(* overlap; after a driver has been early or a cancelled watcher has taken *)
(* over, with just the deviations that RunFSM allows then.                 *)
THEOREM ImplementsRunFSMHolds ==
  ASSUME Serial
  PROVE  Spec => ImplementsRunFSM
<1>1. Init => FSM!Init
  BY DEF Init, FSM!Init
<1>2. FsmInv /\ [Next]_vars => [FSM!Next]_<<status, phase, lapses>>
  BY FSMStep
<1> QED BY <1>1, <1>2, FsmInvariant, PTL DEF Spec, ImplementsRunFSM, FSM!Spec
=============================================================================
