---------------------------- MODULE RunLifecycle ----------------------------
(***************************************************************************)
(* The life of one experiment run under the orchestrator                   *)
(* (internal/orchestrator).  The run is a database row; StartRun, PauseRun,*)
(* ResumeRun and StopRun read it, act on Zeus and on the rule intent of the*)
(* run's services, and write it back, each call a separate SQL statement.  *)
(* A started run is driven by a watcher goroutine (watchPhase, moves the   *)
(* run through its phases) and a poller goroutine (pollZeusStatus, ends the*)
(* run when its attacks end); a run with neither is stopped at once by an  *)
(* auto-complete goroutine.  Their cancel functions are kept in o.running. *)
(*                                                                         *)
(* A goroutine is a pair <<launch, kind>>: the API call (or the boot) that *)
(* launched it and what it is.  Its contexts are <<launch, kind, n>>; only *)
(* a watcher has more than one, made at phase n by advancePhase.  A        *)
(* statement on a cancelled context fails (database/sql returns ctx.Err()).*)
(***************************************************************************)
EXTENDS Integers, FiniteSets

CONSTANTS
  Calls,      \* API calls on the run; each happens at most once (bound)
  Boots,      \* process crashes, each followed by Recover (bound)
  NumPhases,  \* len(run.PhaseRules); every phase lists at least one rule
  HasCond,    \* run.TransitionCond != nil
  HasTarget,  \* Zeus is configured and exp.TargetURL != ""
  Serial,     \* TRUE: no call while another, Recover or an auto-complete runs
  Prompt,     \* TRUE: a launch registers its drivers before their first tick
  MaxRows,    \* result rows counted per attack (bound)
  Faults      \* which of the environment's failures may happen

FaultKinds == {"load", "zeusStart", "zeusID", "zeusStop", "zeusGet", "zeusFail",
               "zeusResult", "disconnect"}

ASSUME LaunchAssumption == Calls \cap Boots = {}
ASSUME PhasesAssumption == NumPhases \in Nat \ {0}
ASSUME RowsAssumption   == MaxRows \in Nat
ASSUME FlagAssumption   == HasCond \in BOOLEAN /\ HasTarget \in BOOLEAN
                             /\ Serial \in BOOLEAN /\ Prompt \in BOOLEAN
ASSUME FaultAssumption  == Faults \subseteq FaultKinds

Launch   == Calls \cup Boots
Kind     == {"call", "watch", "poll", "auto"}
Goro     == Launch \X Kind
Drivers  == Launch \X {"watch", "poll"}
Phases   == 0 .. NumPhases - 1
Ctx      == Launch \X Kind \X Phases
Attack   == Launch \X {"client", "zeus"}  \* the ID sent, or another one Zeus made up
Terminal == {"completed", "failed"}
Status   == {"pending", "running", "paused"} \cup Terminal
(* A runaway attack is still running after a StopAttack that has failed.   *)
ZeusState == {"none", "running", "runaway", "completed", "stopped", "failed"}
NoRules  == -1

(* What may go out of order: a driver acts before its launch has registered*)
(* it; a cancelled watcher takes the place of its run's present one.       *)
LapseKinds == {"early", "takeover"}

Locations == {"idle", "load", "push", "setRunning", "append", "zeusStart", "saveIDs",
              "spawn", "register", "pauseLock", "pauseStop", "setPaused",
              "stopLock", "stopGet", "stopClear", "stopAttacks", "finalize",
              "watching", "setPhase", "rebind", "polling", "pollHarvest",
              "recover", "recoverFail", "done"}

VARIABLES
  \* the experiment_runs row and its workflow_run_results
  status, phase, attackIDs, results,
  \* outside the process: attack states in Zeus; the phase whose rules the
  \* controller intends for the run's frozen services
  zeus, rules,
  \* o.running[runID] (present?, its cancel functions) and cancelled contexts
  registered, handles, cancelled,
  \* goroutines: where each is, its copy of the row, the status it stops with
  pc, snap, want,
  \* history: what has gone out of order so far (no code reads it)
  lapses

rowVars == <<status, phase, attackIDs, results>>
envVars == <<zeus, rules, lapses>>
mapVars == <<registered, handles>>
memVars == <<registered, handles, cancelled>>
vars    == <<status, phase, attackIDs, results, zeus, rules,
             registered, handles, cancelled, pc, snap, want, lapses>>

Row      == [phase |-> phase, attacks |-> attackIDs]
Snapshot == [phase : Phases, attacks : SUBSET Attack]
NoRow    == [phase |-> 0, attacks |-> {}]

(* One type invariant: also, a run is never past its last phase, so the    *)
(* watcher's snapshot always leaves a next phase to enter.                  *)
TypeOK ==
  /\ status \in Status
  /\ phase \in Phases
  /\ attackIDs \subseteq Attack
  /\ results \in [Attack -> 0 .. MaxRows]
  /\ zeus \in [Attack -> ZeusState]
  /\ rules \in Phases \cup {NoRules}
  /\ registered \in BOOLEAN
  /\ handles \subseteq Ctx
  /\ cancelled \subseteq Ctx
  /\ pc \in [Goro -> Locations]
  /\ snap \in [Goro -> Snapshot]
  /\ want \in [Goro -> Terminal]
  /\ lapses \subseteq LapseKinds

Init ==
  /\ status = "pending"
  /\ phase = 0
  /\ attackIDs = {}
  /\ results = [a \in Attack |-> 0]
  /\ zeus = [a \in Attack |-> "none"]
  /\ rules = NoRules
  /\ registered = FALSE
  /\ handles = {}
  /\ cancelled = {}
  /\ pc = [g \in Goro |-> "idle"]
  /\ snap = [g \in Goro |-> NoRow]
  /\ want = [g \in Goro |-> "completed"]
  /\ lapses = {}

-----------------------------------------------------------------------------
Live(g)      == pc[g] \notin {"idle", "done"}
CtxOf(g)     == <<g[1], g[2], IF g[2] = "watch" THEN snap[g].phase ELSE 0>>
Cancelled(g) == CtxOf(g) \in cancelled
At(g, l)     == pc[g] = l

(* Goroutine g moves on to l, with a new row in its hands, or to stop the  *)
(* run with status s; or it returns: its locals and contexts are gone.     *)
Goto(g, l) == pc' = [pc EXCEPT ![g] = l] /\ UNCHANGED <<cancelled, snap, want>>

GotoWith(g, l, row) ==
  /\ pc' = [pc EXCEPT ![g] = l]
  /\ snap' = [snap EXCEPT ![g] = row]
  /\ UNCHANGED <<cancelled, want>>

GotoStop(g, s) ==
  /\ pc' = [pc EXCEPT ![g] = "stopLock"]
  /\ want' = [want EXCEPT ![g] = s]
  /\ UNCHANGED <<cancelled, snap>>

Return(g) ==
  /\ pc' = [pc EXCEPT ![g] = "done"]
  /\ snap' = [snap EXCEPT ![g] = NoRow]
  /\ want' = [want EXCEPT ![g] = "completed"]
  /\ cancelled' = {x \in cancelled : <<x[1], x[2]>> # g}

(* A driver's ticker may fire (every 10 or 15 seconds, 30 minutes for the  *)
(* deadline).                                                              *)
TickDue(g) == Prompt => ~At(<<g[1], "call">>, "register")

(* History: the driver acts before its launch has registered it.           *)
NoteEarly(g) ==
  lapses' = IF At(<<g[1], "call">>, "register") THEN lapses \cup {"early"} ELSE lapses

(* The API serves calls only when no Recover is in progress.               *)
Accepts(c) ==
  /\ At(<<c, "call">>, "idle")
  /\ \A b \in Boots : ~Live(<<b, "call">>)
  /\ Serial => \A l \in Launch : ~Live(<<l, "call">>) /\ ~Live(<<l, "auto">>)

-----------------------------------------------------------------------------
(* StartRun and ResumeRun: check the status, re-enter the current phase,   *)
(* mark the run running, start its attack, spawn and register the drivers. *)

BeginLaunch(c, from) ==
  LET g == <<c, "call">> IN
  /\ Accepts(c)
  /\ \/ status = from /\ GotoWith(g, "load", Row)
     \/ status # from /\ Return(g)
  /\ UNCHANGED <<rowVars, envVars, mapVars>>

StartRun(c)  == BeginLaunch(c, "pending")
ResumeRun(c) == BeginLaunch(c, "paused")

(* The phase enterPhase is about to enter: the current one on start and    *)
(* resume (0 for a pending run), the next one in advancePhase.             *)
Entering(g) == IF g[2] = "watch" THEN snap[g].phase + 1 ELSE snap[g].phase

(* enterPhase, first half: loadCompiledRules reads the database.           *)
LoadRules(g) ==
  /\ At(g, "load")
  /\ \/ ~Cancelled(g) /\ Goto(g, "push")
     \/ /\ Cancelled(g) \/ "load" \in Faults
        /\ IF g[2] = "watch" THEN GotoStop(g, "failed") ELSE Return(g)
  /\ UNCHANGED <<rowVars, envVars, mapVars>>

(* enterPhase, second half: PushRules records the intent whatever becomes  *)
(* of the context; failed deliveries are only logged.                      *)
PushRules(g) ==
  /\ At(g, "push")
  /\ rules' = Entering(g)
  /\ Goto(g, IF g[2] = "watch" THEN "setPhase" ELSE "setRunning")
  /\ UNCHANGED <<rowVars, zeus, lapses, mapVars>>

(* UpdateRunStatus: writes the status whatever the row holds.              *)
UpdateRunStatus(old, new) == new

SetRunning(g) ==
  /\ At(g, "setRunning")
  /\ \/ /\ ~Cancelled(g)
        /\ status' = UpdateRunStatus(status, "running")
        /\ Goto(g, IF HasTarget THEN "append" ELSE "spawn")
     \/ /\ Cancelled(g)
        /\ Return(g)
        /\ UNCHANGED status
  /\ UNCHANGED <<phase, attackIDs, results, envVars, mapVars>>

(* Mutant: the attack is started without its ID in the row.                *)
AppendNoAttackID(g) ==
  /\ At(g, "append")
  /\ Goto(g, "zeusStart")
  /\ UNCHANGED <<rowVars, envVars, mapVars>>

(* AppendRunAttackID: the attack's ID is in the row before Zeus hears of   *)
(* it.  On an error the launch goes on without an attack.                  *)
AppendRunAttackID(g) ==
  /\ At(g, "append")
  /\ \/ /\ ~Cancelled(g)
        /\ attackIDs' = attackIDs \cup {<<g[1], "client">>}
        /\ Goto(g, "zeusStart")
     \/ /\ Cancelled(g)
        /\ Goto(g, "spawn")
        /\ UNCHANGED attackIDs
  /\ UNCHANGED <<status, phase, results, envVars, mapVars>>

(* zeus.StartAttack: accepted under our ID or (an old Zeus) under its own; *)
(* refused; or accepted with the answer lost.                              *)
StartAttack(g) ==
  LET started(id) == zeus' = [zeus EXCEPT ![id] = "running"]
      known(id)   == GotoWith(g, "saveIDs", [snap[g] EXCEPT !.attacks = {id}])
      own         == <<g[1], "client">>
      other       == <<g[1], "zeus">>
  IN
  /\ At(g, "zeusStart")
  /\ \/ ~Cancelled(g) /\ started(own) /\ known(own)
     \/ ~Cancelled(g) /\ "zeusID" \in Faults /\ started(other) /\ known(other)
     \/ "zeusStart" \in Faults /\ started(own) /\ Goto(g, "spawn")
     \/ (Cancelled(g) \/ "zeusStart" \in Faults) /\ UNCHANGED zeus /\ Goto(g, "spawn")
  /\ UNCHANGED <<rowVars, rules, lapses, mapVars>>

(* UpdateRunZeusAttacks replaces the row's list by this launch's attacks.  *)
UpdateRunZeusAttacks(old, new) == new

SaveAttackIDs(g) ==
  /\ At(g, "saveIDs")
  /\ attackIDs' = IF Cancelled(g) THEN attackIDs
                  ELSE UpdateRunZeusAttacks(attackIDs, snap[g].attacks)
  /\ Goto(g, "spawn")
  /\ UNCHANGED <<status, phase, results, envVars, mapVars>>

NeedsWatcher(run) == HasCond /\ run.phase + 1 < NumPhases
NeedsPoller(run)  == run.attacks # {}

DriversOf(g) ==
  (IF NeedsWatcher(snap[g]) THEN {<<g[1], "watch">>} ELSE {})
    \cup (IF NeedsPoller(snap[g]) THEN {<<g[1], "poll">>} ELSE {})

(* The go statements run before the handles are registered.                *)
SpawnDrivers(g) ==
  /\ At(g, "spawn")
  /\ pc' = [h \in Goro |-> IF h = g THEN "register"
                           ELSE IF h \in DriversOf(g) THEN (IF h[2] = "watch" THEN "watching" ELSE "polling") ELSE pc[h]]
  /\ snap' = [h \in Goro |-> IF h \in DriversOf(g) THEN snap[g] ELSE snap[h]]
  /\ UNCHANGED <<rowVars, envVars, memVars, want>>

(* Mutant: no auto-complete for a run without drivers.                     *)
RegisterOnly(g) ==
  /\ At(g, "register")
  /\ registered' = TRUE
  /\ handles' = {<<h[1], h[2], IF h[2] = "watch" THEN snap[g].phase ELSE 0>> : h \in DriversOf(g)}
  /\ Return(g)
  /\ UNCHANGED <<rowVars, envVars>>

(* o.running[runID] = handles, whatever was there; with no driver, a       *)
(* goroutine running StopRun(context.Background(), runID, "completed").    *)
Register(g) ==
  /\ At(g, "register")
  /\ registered' = TRUE
  /\ handles' = {<<h[1], h[2], IF h[2] = "watch" THEN snap[g].phase ELSE 0>> : h \in DriversOf(g)}
  /\ IF DriversOf(g) # {} THEN Return(g)
     ELSE /\ pc' = [pc EXCEPT ![g] = "done", ![<<g[1], "auto">>] = "stopLock"]
          /\ snap' = [snap EXCEPT ![g] = NoRow]
          /\ UNCHANGED <<cancelled, want>>
  /\ UNCHANGED <<rowVars, envVars>>

-----------------------------------------------------------------------------
(* Mutants: an entry cancelled and left in o.running; one only removed.    *)
DropHandlesKeepingEntry ==
  /\ cancelled' = cancelled \cup handles
  /\ UNCHANGED <<handles, registered>>

DropHandlesUncancelled ==
  /\ handles' = {}
  /\ registered' = FALSE
  /\ UNCHANGED cancelled

(* cancelAll and delete, under o.mu.                                       *)
DropHandles ==
  /\ cancelled' = cancelled \cup handles
  /\ handles' = {}
  /\ registered' = FALSE

(* Zeus is generating the load of attack a.                                *)
Going(a) == zeus[a] \in {"running", "runaway"}

(* StopAttack on each attack of the snapshot: the running ones stop; with  *)
(* the context cancelled none does.  A failure is only logged: an attack   *)
(* Zeus was asked in vain to stop becomes a runaway.                       *)
StopAttacks(g) ==
  LET live == {a \in snap[g].attacks : Going(a) /\ ~Cancelled(g)}
  IN  \E S \in SUBSET live :
        /\ S = live \/ "zeusStop" \in Faults
        /\ zeus' = [a \in Attack |-> IF a \in S THEN "stopped"
                                     ELSE IF a \in live THEN "runaway" ELSE zeus[a]]

(* HarvestResults on attacks A, with Zeus in state z: one more row for     *)
(* every ended attack whose result can be had.                             *)
HarvestResults(g, A, z) ==
  LET ready == {a \in A : ~Cancelled(g) /\ z[a] \in {"completed", "stopped"}}
  IN  \E S \in SUBSET ready :
        /\ S = ready \/ "zeusResult" \in Faults
        /\ results' = [a \in Attack |-> IF a \in S /\ results[a] < MaxRows
                                        THEN results[a] + 1 ELSE results[a]]

PauseRun(c) ==
  LET g == <<c, "call">> IN
  /\ Accepts(c)
  /\ \/ status = "running" /\ GotoWith(g, "pauseLock", Row)
     \/ status # "running" /\ Return(g)
  /\ UNCHANGED <<rowVars, envVars, mapVars>>

PauseLock(g) ==
  /\ At(g, "pauseLock")
  /\ DropHandles
  /\ pc' = [pc EXCEPT ![g] = "pauseStop"]
  /\ UNCHANGED <<rowVars, envVars, snap, want>>

PauseAttacks(g) ==
  /\ At(g, "pauseStop")
  /\ StopAttacks(g)
  /\ Goto(g, "setPaused")
  /\ UNCHANGED <<rowVars, rules, lapses, mapVars>>

SetPaused(g) ==
  /\ At(g, "setPaused")
  /\ status' = IF Cancelled(g) THEN status ELSE UpdateRunStatus(status, "paused")
  /\ Return(g)
  /\ UNCHANGED <<phase, attackIDs, results, envVars, mapVars>>

-----------------------------------------------------------------------------
(* StopRun(ctx, runID, want): called by an API call ("completed"), by the  *)
(* auto-complete goroutine, and by the watcher and the poller on their own *)
(* contexts.                                                               *)

StopCall(c) ==
  /\ Accepts(c)
  /\ GotoStop(<<c, "call">>, "completed")
  /\ UNCHANGED <<rowVars, envVars, mapVars>>

StopLock(g) ==
  /\ At(g, "stopLock")
  /\ DropHandles
  /\ pc' = [pc EXCEPT ![g] = "stopGet"]
  /\ UNCHANGED <<rowVars, envVars, snap, want>>

(* GetRun fails on a cancelled context; a terminal run is left alone.      *)
StopGet(g) ==
  /\ At(g, "stopGet")
  /\ \/ /\ ~Cancelled(g)
        /\ status \notin Terminal
        /\ GotoWith(g, "stopClear", [snap[g] EXCEPT !.attacks = attackIDs])
     \/ (Cancelled(g) \/ status \in Terminal) /\ Return(g)
  /\ UNCHANGED <<rowVars, envVars, mapVars>>

StopClear(g) ==
  /\ At(g, "stopClear")
  /\ rules' = NoRules
  /\ Goto(g, "stopAttacks")
  /\ UNCHANGED <<rowVars, zeus, lapses, mapVars>>

StopAndHarvest(g) ==
  /\ At(g, "stopAttacks")
  /\ StopAttacks(g)
  /\ \/ want[g] = "completed" /\ HarvestResults(g, snap[g].attacks, zeus')
     \/ want[g] = "failed" /\ UNCHANGED results
  /\ Goto(g, "finalize")
  /\ UNCHANGED <<status, phase, attackIDs, rules, lapses, mapVars>>

(* Mutant: the UPDATE without its WHERE on the status.                     *)
FinalizeAnyStatus(old, new) == new

(* UPDATE ... WHERE status NOT IN ('completed','failed').                  *)
FinalizeRunStatus(old, new) == IF old \in Terminal THEN old ELSE new

(* A transition also starts advanceExperiment: module ExperimentDAG.       *)
Finalize(g) ==
  /\ At(g, "finalize")
  /\ status' = IF Cancelled(g) THEN status ELSE FinalizeRunStatus(status, want[g])
  /\ Return(g)
  /\ UNCHANGED <<phase, attackIDs, results, envVars, mapVars>>

-----------------------------------------------------------------------------
(* watchPhase and advancePhase.  The held window of the condition is left  *)
(* to chance here: the condition may be found to have held at any tick.    *)

WatchExit(g) ==
  /\ At(g, "watching")
  /\ Cancelled(g)
  /\ Return(g)
  /\ UNCHANGED <<rowVars, envVars, mapVars>>

(* A query on a cancelled context fails, so a cancelled watcher never      *)
(* advances.  Past the last phase advancePhase would stop the run.         *)
AdvancePhase(g) ==
  /\ At(g, "watching")
  /\ TickDue(g)
  /\ ~Cancelled(g)
  /\ Goto(g, IF Entering(g) >= NumPhases THEN "stopLock" ELSE "load")
  /\ NoteEarly(g)
  /\ UNCHANGED <<rowVars, zeus, rules, mapVars>>

(* UpdateRunPhase(ctx, runID, next, "running"), its error ignored.         *)
SetPhase(g) ==
  /\ At(g, "setPhase")
  /\ \/ ~Cancelled(g) /\ phase' = Entering(g) /\ status' = UpdateRunStatus(status, "running")
     \/ Cancelled(g) /\ UNCHANGED <<phase, status>>
  /\ IF Entering(g) + 1 < NumPhases THEN Goto(g, "rebind") ELSE Return(g)
  /\ UNCHANGED <<attackIDs, results, envVars, mapVars>>

(* Mutant: the next watcher goes on although the run was unregistered.     *)
RebindUnregistered(g) ==
  LET new == <<g[1], "watch", Entering(g)>>
      old == {x \in handles : x[2] = "watch"}
  IN
  /\ At(g, "rebind")
  /\ cancelled' = cancelled \cup old
  /\ handles' = IF registered THEN (handles \ old) \cup {new} ELSE handles
  /\ snap' = [snap EXCEPT ![g] = [@ EXCEPT !.phase = Entering(g)]]
  /\ pc' = [pc EXCEPT ![g] = "watching"]
  /\ UNCHANGED <<rowVars, envVars, registered, want>>

(* The next watcher, on a context of its own, replaces the registered one; *)
(* if the run is no longer registered it starts out cancelled.             *)
RebindWatcher(g) ==
  LET new == <<g[1], "watch", Entering(g)>>
      old == {x \in handles : x[2] = "watch"}
  IN
  /\ At(g, "rebind")
  /\ \/ /\ registered
        /\ cancelled' = cancelled \cup old
        /\ handles' = (handles \ old) \cup {new}
     \/ /\ ~registered
        /\ cancelled' = cancelled \cup {new}
        /\ UNCHANGED handles
  /\ snap' = [snap EXCEPT ![g] = [@ EXCEPT !.phase = Entering(g)]]
  /\ pc' = [pc EXCEPT ![g] = "watching"]
  /\ lapses' = IF registered /\ Cancelled(g) THEN lapses \cup {"takeover"} ELSE lapses
  /\ UNCHANGED <<rowVars, zeus, rules, registered, want>>

-----------------------------------------------------------------------------
(* pollZeusStatus.  The select takes any ready case, so the deadline may be*)
(* taken by a poller that is already cancelled.                            *)

PollExit(g) ==
  /\ At(g, "polling")
  /\ Cancelled(g)
  /\ Return(g)
  /\ UNCHANGED <<rowVars, envVars, mapVars>>

PollDeadline(g) ==
  /\ At(g, "polling")
  /\ TickDue(g)
  /\ GotoStop(g, "failed")
  /\ NoteEarly(g)
  /\ UNCHANGED <<rowVars, zeus, rules, mapVars>>

AnyFailed(A) == \E a \in A : zeus[a] = "failed"
AllDone(A)   == \A a \in A : zeus[a] \in {"completed", "stopped"}

(* checkAttackStatuses at a tick that has an outcome.                      *)
PollTick(g) ==
  /\ At(g, "polling")
  /\ TickDue(g)
  /\ ~Cancelled(g)
  /\ \/ AnyFailed(snap[g].attacks) /\ GotoStop(g, "failed")
     \/ AllDone(snap[g].attacks) /\ Goto(g, "pollHarvest")
  /\ NoteEarly(g)
  /\ UNCHANGED <<rowVars, zeus, rules, mapVars>>

(* Harvest with the row's latest attack IDs, then StopRun(ctx,"completed").*)
PollHarvest(g) ==
  /\ At(g, "pollHarvest")
  /\ HarvestResults(g, attackIDs, zeus)
  /\ GotoStop(g, "completed")
  /\ UNCHANGED <<status, phase, attackIDs, envVars, mapVars>>

-----------------------------------------------------------------------------
(* A crash ends every goroutine; the row and Zeus stay.  The next process  *)
(* runs Recover before it serves the API.                                  *)
Crash(b) ==
  /\ At(<<b, "call">>, "idle")
  /\ pc' = [g \in Goro |-> IF g = <<b, "call">> THEN "recover"
                           ELSE IF Live(g) THEN "done" ELSE pc[g]]
  /\ snap' = [g \in Goro |-> NoRow]
  /\ want' = [g \in Goro |-> "completed"]
  /\ registered' = FALSE
  /\ handles' = {}
  /\ cancelled' = {}
  /\ UNCHANGED <<rowVars, envVars>>

(* Mutant: the watcher respawns at phase 0.                                *)
RecoverAtFirstPhase(g) ==
  /\ At(g, "recover")
  /\ \/ status # "running" /\ Return(g)
     \/ status = "running" /\ GotoWith(g, "spawn", [Row EXCEPT !.phase = 0])
  /\ UNCHANGED <<rowVars, envVars, mapVars>>

(* reconcileAttacks asks Zeus for each attack, three times: one that Zeus  *)
(* does not know, or cannot be asked about, is lost.                       *)
Unknown(A) == {a \in A : zeus[a] = "none"}
MayBeLost(A) == {L \in SUBSET A : L = Unknown(A) \/ ("zeusGet" \in Faults /\ Unknown(A) \subseteq L)}

(* Recover, for this run: only a running one is touched.  With all its     *)
(* attacks lost it fails; else its drivers respawn.                        *)
Recover(g) ==
  /\ At(g, "recover")
  /\ \/ status # "running" /\ Return(g)
     \/ /\ status = "running"
        /\ \E lost \in MayBeLost(attackIDs) :
             GotoWith(g, IF lost = attackIDs /\ attackIDs # {} THEN "recoverFail" ELSE "spawn", Row)
  /\ UNCHANGED <<rowVars, envVars, mapVars>>

RecoverFail(g) ==
  /\ At(g, "recoverFail")
  /\ status' = UpdateRunStatus(status, "failed")
  /\ Return(g)
  /\ UNCHANGED <<phase, attackIDs, results, envVars, mapVars>>

-----------------------------------------------------------------------------
(* The environment: an attack ends; a client hangs up during its call.     *)
AttackEnds(a) ==
  /\ Going(a)
  /\ \E s \in {"completed"} \cup (IF "zeusFail" \in Faults THEN {"failed"} ELSE {}) :
       zeus' = [zeus EXCEPT ![a] = s]
  /\ UNCHANGED <<rowVars, rules, lapses, memVars, pc, snap, want>>

Disconnect(c) ==
  /\ "disconnect" \in Faults
  /\ Live(<<c, "call">>)
  /\ ~Cancelled(<<c, "call">>)
  /\ cancelled' = cancelled \cup {CtxOf(<<c, "call">>)}
  /\ UNCHANGED <<rowVars, envVars, registered, handles, pc, snap, want>>

Call(c) == StartRun(c) \/ ResumeRun(c) \/ PauseRun(c) \/ StopCall(c)

(* What goroutine g does next once it runs, timers and conditions aside.   *)
Step(g) ==
  \/ LoadRules(g) \/ PushRules(g) \/ SetRunning(g) \/ AppendRunAttackID(g)
  \/ StartAttack(g) \/ SaveAttackIDs(g) \/ SpawnDrivers(g) \/ Register(g)
  \/ PauseLock(g) \/ PauseAttacks(g) \/ SetPaused(g)
  \/ StopLock(g) \/ StopGet(g) \/ StopClear(g) \/ StopAndHarvest(g) \/ Finalize(g)
  \/ WatchExit(g) \/ SetPhase(g) \/ RebindWatcher(g)
  \/ PollExit(g) \/ PollTick(g) \/ PollHarvest(g)
  \/ Recover(g) \/ RecoverFail(g)

Next ==
  \/ \E c \in Calls : Call(c) \/ Disconnect(c)
  \/ \E g \in Goro : Step(g) \/ AdvancePhase(g) \/ PollDeadline(g)
  \/ \E b \in Boots : Crash(b)
  \/ \E a \in Attack : AttackEnds(a)

Spec == Init /\ [][Next]_vars

(* The scheduler runs every goroutine, tickers tick, and an attack, which  *)
(* has a fixed duration, ends.  No call, phase condition, deadline, crash  *)
(* or disconnection has to happen.                                         *)
Fairness ==
  /\ \A g \in Goro : WF_vars(Step(g))
  /\ \A a \in Attack : WF_vars(AttackEnds(a))

LiveSpec == Spec /\ Fairness

-----------------------------------------------------------------------------
(* A watcher that is advancing has a phase to advance to: the branch of    *)
(* advancePhase that stops a run past its last phase is dead code.         *)
WatchHasNext ==
  \A g \in Goro : g[2] = "watch" /\ pc[g] \in {"load", "push", "setPhase", "rebind"}
     => snap[g].phase + 1 < NumPhases

(* Properties that hold whatever calls, crashes and failures overlap.      *)

(* The cancel functions kept in o.running are all still good: StopRun and  *)
(* PauseRun drop the entry in the critical section that cancels it, and    *)
(* advancePhase replaces the watcher it cancels.  Otherwise a later        *)
(* cancelAll would leave a driver of the run going.                        *)
RegisteredIsLive == handles \cap cancelled = {}

(* "The first terminal status wins" (FinalizeRunStatus): of two StopRun    *)
(* calls that both saw the run active, the second does not change the      *)
(* outcome from failed to completed or back.                               *)
FirstTerminalWins ==
  [][(status \in Terminal /\ status' \in Terminal) => status' = status]_status

(* Properties that hold when the operator's calls do not overlap; drivers, *)
(* auto-complete goroutines, crashes and disconnections still do.          *)

(* A driver that can still act can be cancelled: its cancel function is in *)
(* o.running, or the launch that started it is about to put it there.      *)
NoLeakedGoroutine ==
  \A g \in Drivers : Live(g) /\ ~Cancelled(g) =>
     CtxOf(g) \in handles \/ At(<<g[1], "call">>, "register")

(* A paused run is at rest: no driver of it can act any more, and no       *)
(* attack of it is running that PauseRun could have stopped.  Excepted are *)
(* those whose StopAttack failed, which PauseRun only logs (runaway), and  *)
(* those that an old Zeus runs under an ID of its own which the row never  *)
(* learned; PausedHasNoLoad is the promise without the exceptions.         *)
PausedIsQuiet ==
  status = "paused" => /\ \A a \in Attack : zeus[a] = "running" => a[2] = "zeus" /\ a \notin attackIDs
                       /\ \A g \in Drivers : Live(g) => Cancelled(g)

(* Load that Zeus is generating for the run can be found from the row,     *)
(* across crashes, lost answers and hang-ups at any step of a launch:      *)
(* AppendRunAttackID comes before StartAttack, and UpdateRunZeusAttacks,   *)
(* which replaces the list, drops no attack still running except runaways. *)
(* An ID of an old Zeus's own making reaches the row only if the answer    *)
(* does: excepted too.  EveryAttackKnown has no exceptions.                *)
AttackKnown ==
  \A a \in Attack : zeus[a] = "running" => a \in attackIDs \/ a[2] = "zeus"

(* The run keeps to the documented state machine, one phase at a time, and *)
(* a terminal status is final, across pauses, resumptions and restarts,    *)
(* whatever fails; up to the two lapses that RunFSM describes.             *)
FSM == INSTANCE RunFSM
ImplementsRunFSM == FSM!Spec

(* A run the row calls running does not stay so for ever.                  *)
RunningRunEnds == (status = "running") ~> (status # "running")

(* What the code's comments say and the code does not do.                  *)

(* "A crash mid-flight leaves a known ID to reconcile against"             *)
(* (AppendRunAttackID): without the exceptions of AttackKnown.             *)
EveryAttackKnown == \A a \in Attack : Going(a) => a \in attackIDs

(* PauseRun "stops the Zeus attack and phase watcher": without the         *)
(* exceptions of PausedIsQuiet.                                            *)
PausedHasNoLoad == status = "paused" => \A a \in Attack : ~Going(a)

(* "A run that already reached completed/failed must not be transitioned   *)
(* again" (StopRun).                                                       *)
TerminalIsFinal == [][(status \in Terminal) => (status' = status)]_status

(* "StopRun halts an active run, clears rules from SDK instances": once the*)
(* run is over and nothing is running, no rules are intended for it.       *)
StoppedRunHasNoRules ==
  status \in Terminal /\ (\A g \in Goro : ~Live(g)) => rules = NoRules

(* "When PauseRun or StopRun cancels the context, both goroutines stop     *)
(* cleanly": a driver that has been cancelled never becomes able to act on *)
(* the run again.                                                          *)
CancelledStays ==
  [][\A g \in Drivers : Live(g) /\ Cancelled(g) => (Cancelled(g) \/ ~Live(g))']_vars

(* "One poller per run, never replaced mid-run" (runHandles).              *)
OnePollerPerRun ==
  \A g, h \in Launch \X {"poll"} :
     Live(g) /\ ~Cancelled(g) /\ Live(h) /\ ~Cancelled(h) => g = h

(* "One row per (run, workflow) pair" (WorkflowRunResult).                 *)
OneRowPerAttack == \A a \in Attack : results[a] <= 1
=============================================================================
