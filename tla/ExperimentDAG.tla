---------------------------- MODULE ExperimentDAG ----------------------------
(***************************************************************************)
(* How the orchestrator takes an experiment through its runs               *)
(* (StartExperiment, advanceExperiment).  A run waits for the runs it      *)
(* depends on.  Each transition of a run to a terminal status launches a   *)
(* goroutine running advanceExperiment, which reads all the runs once and  *)
(* then, statement by statement, fails the dependents of failed runs,      *)
(* starts the runs whose dependencies are completed and finalizes the      *)
(* experiment.  Nothing serializes these goroutines.                       *)
(*                                                                         *)
(* What a run does between its start and its end is the subject of         *)
(* RunLifecycle; here a started run is `driven' until it is stopped.       *)
(***************************************************************************)
EXTENDS Integers, FiniteSets

CONSTANTS
  Runs,
  DependsOn,  \* DependsOn[r]: the runs r lists
  Starts,     \* StartExperiment calls (bound)
  Ops,        \* StartRun calls through the API (bound)
  Advancers,  \* advanceExperiment goroutines alive at once (bound)
  Boots,      \* process crashes, each followed by Recover (bound)
  Operator,   \* what an operator does to single runs through the API
  Faults      \* which failures may happen

(* What ValidateRunGraph has made sure of: module RunGraph.                *)
ASSUME GraphAssumption == DependsOn \in [Runs -> SUBSET Runs]
ASSUME CallsAssumption ==
  /\ Starts \cap Ops = {} /\ Starts \cap Advancers = {} /\ Starts \cap Boots = {}
  /\ Ops \cap Advancers = {} /\ Ops \cap Boots = {} /\ Advancers \cap Boots = {}
ASSUME FaultAssumption ==
  Operator \subseteq {"stop", "pause"} /\ Faults \subseteq {"start", "disconnect", "lost"}

Goro      == Starts \cup Ops \cup Advancers \cup Boots
Terminal  == {"completed", "failed"}
RunStatus == {"pending", "running", "paused"} \cup Terminal
ExpStatus == {"planned", "running"} \cup Terminal
Locations == {"idle", "setRunning", "list", "cascade", "start", "starting",
              "recoverList", "recover", "done"}

VARIABLES
  exp, status,  \* the experiments row and the experiment_runs rows
  driven,       \* started runs: a goroutine of theirs will call StopRun
  pc, seen,     \* goroutines: where each is, its statusByID map,
  todo, cur,    \*   the runs it has yet to start or recover, the one it is starting
  reached       \* history: the terminal statuses each run has had

rows   == <<exp, status, reached>>
locals == <<pc, seen, todo, cur>>
vars   == <<exp, status, driven, pc, seen, todo, cur, reached>>

NoRun == [r \in Runs |-> "pending"]

TypeOK ==
  /\ exp \in ExpStatus
  /\ status \in [Runs -> RunStatus]
  /\ driven \subseteq Runs
  /\ pc \in [Goro -> Locations]
  /\ seen \in [Goro -> [Runs -> RunStatus]]
  /\ todo \in [Goro -> SUBSET Runs]
  /\ cur \in [Goro -> SUBSET Runs]     \* the run being started, or none
  /\ reached \in [Runs -> SUBSET Terminal]

Init ==
  /\ exp = "planned"
  /\ status = NoRun
  /\ driven = {}
  /\ pc = [g \in Goro |-> "idle"]
  /\ seen = [g \in Goro |-> NoRun]
  /\ todo = [g \in Goro |-> {}]
  /\ cur = [g \in Goro |-> {}]
  /\ reached = [r \in Runs |-> {}]

-----------------------------------------------------------------------------
Live(g) == pc[g] \notin {"idle", "done"}

Goto(g, l) == pc' = [pc EXCEPT ![g] = l] /\ UNCHANGED <<seen, todo, cur>>

(* An API call happens once, an advance goroutine's slot is free again.    *)
Ended(g) == IF g \in Advancers THEN "idle" ELSE "done"

Return(g) ==
  /\ pc' = [pc EXCEPT ![g] = Ended(g)]
  /\ seen' = [seen EXCEPT ![g] = NoRun]
  /\ todo' = [todo EXCEPT ![g] = {}]
  /\ cur' = [cur EXCEPT ![g] = {}]

(* The API is served once Recover has returned.                            *)
Served == \A b \in Boots : ~Live(b)

(* Run r's row gets status s.                                              *)
SetRunStatus(r, s) ==
  /\ status' = [status EXCEPT ![r] = s]
  /\ reached' = [reached EXCEPT ![r] = @ \cup ({s} \cap Terminal)]

-----------------------------------------------------------------------------
(* StartExperiment, then advanceExperiment in the same call.               *)
StartExperiment(g) ==
  /\ g \in Starts
  /\ pc[g] = "idle"
  /\ Served
  /\ IF exp = "planned" THEN Goto(g, "setRunning") ELSE Return(g)
  /\ UNCHANGED <<rows, driven>>

SetExperimentRunning(g) ==
  /\ pc[g] = "setRunning"
  /\ exp' = "running"
  /\ Goto(g, "list")
  /\ UNCHANGED <<status, reached, driven>>

(* The caller of StartExperiment hangs up: every later statement fails.    *)
Disconnect(g) ==
  /\ "disconnect" \in Faults
  /\ g \in Starts
  /\ Live(g)
  /\ Return(g)
  /\ UNCHANGED <<rows, driven>>

-----------------------------------------------------------------------------
(* advanceExperiment.  Runs are taken in the order of run_index, which may *)
(* tie: any order here.                                                    *)

ListRuns(g) ==
  /\ pc[g] = "list"
  /\ pc' = [pc EXCEPT ![g] = "cascade"]
  /\ seen' = [seen EXCEPT ![g] = status]
  /\ UNCHANGED <<rows, driven, todo, cur>>

(* The decisions, on a statusByID map s.                                   *)
Doomed(s)   == {r \in Runs : s[r] = "pending" /\ \E d \in DependsOn[r] : s[d] = "failed"}
(* Mutants: a dependency need only have started; an experiment is over     *)
(* when no run is running, or never when a run has failed.                 *)
ReadyWhenStarted(s)  == {r \in Runs : s[r] = "pending" /\ \A d \in DependsOn[r] : s[d] # "pending"}
NothingRunning(s)    == \A r \in Runs : s[r] # "running"
AllCompleted(s)      == \A r \in Runs : s[r] = "completed"

Ready(s)    == {r \in Runs : s[r] = "pending" /\ \A d \in DependsOn[r] : s[d] = "completed"}
Finished(s) == \A r \in Runs : s[r] \in Terminal
Verdict(s)  == IF \E r \in Runs : s[r] = "failed" THEN "failed" ELSE "completed"

(* One UpdateRunStatus of the fixpoint loop; it writes "failed" whatever   *)
(* the row holds by now.                                                   *)
Cascade(g) ==
  /\ pc[g] = "cascade"
  /\ \E r \in Doomed(seen[g]) :
       /\ SetRunStatus(r, "failed")
       /\ seen' = [seen EXCEPT ![g][r] = "failed"]
  /\ UNCHANGED <<exp, driven, pc, todo, cur>>

CascadeDone(g) ==
  /\ pc[g] = "cascade"
  /\ Doomed(seen[g]) = {}
  /\ pc' = [pc EXCEPT ![g] = "start"]
  /\ todo' = [todo EXCEPT ![g] = Ready(seen[g])]
  /\ UNCHANGED <<rows, driven, seen, cur>>

(* StartRun reads the row, enters phase 0 and writes "running".            *)
StartGet(g) ==
  /\ pc[g] = "start"
  /\ \E r \in todo[g] :
       /\ todo' = [todo EXCEPT ![g] = @ \ {r}]
       /\ IF status[r] = "pending"
          THEN pc' = [pc EXCEPT ![g] = "starting"] /\ cur' = [cur EXCEPT ![g] = {r}]
          ELSE UNCHANGED <<pc, cur>>
  /\ UNCHANGED <<rows, driven, seen>>

AfterStart(g) ==
  /\ pc' = [pc EXCEPT ![g] = IF g \in Ops THEN "done" ELSE "start"]
  /\ cur' = [cur EXCEPT ![g] = {}]
  /\ UNCHANGED <<seen, todo>>

StartWrite(g) ==
  /\ pc[g] = "starting"
  /\ \E r \in cur[g] : SetRunStatus(r, "running")
  /\ driven' = driven \cup cur[g]
  /\ AfterStart(g)
  /\ UNCHANGED exp

(* enterPhase fails: the run stays as it is, the error is logged.          *)
StartFails(g) ==
  /\ "start" \in Faults
  /\ pc[g] = "starting"
  /\ AfterStart(g)
  /\ UNCHANGED <<rows, driven>>

(* With no run left to start: finalize if nothing is in flight in the map. *)
FinalizeExperiment(g) ==
  /\ pc[g] = "start"
  /\ todo[g] = {}
  /\ exp' = IF Finished(seen[g]) THEN Verdict(seen[g]) ELSE exp
  /\ Return(g)
  /\ UNCHANGED <<status, reached, driven>>

-----------------------------------------------------------------------------
(* Mutant: the scheduler is told of completed runs only.                   *)
StopRunQuietly(r, s) ==
  /\ status[r] \notin Terminal
  /\ SetRunStatus(r, s)
  /\ driven' = driven \ {r}
  /\ IF s = "completed"
     THEN \E a \in Advancers : pc[a] = "idle" /\ Goto(a, "list")
     ELSE UNCHANGED locals
  /\ UNCHANGED exp

(* StopRun(r, s): FinalizeRunStatus lets one caller through, and that one  *)
(* launches advanceExperiment.                                             *)
StopRun(r, s) ==
  /\ status[r] \notin Terminal
  /\ SetRunStatus(r, s)
  /\ driven' = driven \ {r}
  /\ \E a \in Advancers : pc[a] = "idle" /\ Goto(a, "list")
  /\ UNCHANGED exp

(* A driven run ends, as completed or failed ...                           *)
RunEnds(r) ==
  /\ r \in driven
  /\ \E s \in Terminal : StopRun(r, s)

(* ... or finds that its row is terminal already.                          *)
RunEndsAgain(r) ==
  /\ r \in driven
  /\ status[r] \in Terminal
  /\ driven' = driven \ {r}
  /\ UNCHANGED <<rows, locals>>

(* The operator's calls on one run.  StartRun looks at the run's own status*)
(* only.  PauseRun and ResumeRun are atomic here.                          *)
OperatorStart(g) ==
  /\ g \in Ops
  /\ pc[g] = "idle"
  /\ Served
  /\ \E r \in Runs :
       /\ status[r] = "pending"
       /\ cur' = [cur EXCEPT ![g] = {r}]
  /\ pc' = [pc EXCEPT ![g] = "starting"]
  /\ UNCHANGED <<rows, driven, seen, todo>>

OperatorStop(r) == "stop" \in Operator /\ Served /\ StopRun(r, "completed")

Pause(r) ==
  /\ "pause" \in Operator
  /\ Served
  /\ status[r] = "running"
  /\ SetRunStatus(r, "paused")
  /\ driven' = driven \ {r}
  /\ UNCHANGED <<exp, locals>>

Resume(r) ==
  /\ "pause" \in Operator
  /\ Served
  /\ status[r] = "paused"
  /\ SetRunStatus(r, "running")
  /\ driven' = driven \cup {r}
  /\ UNCHANGED <<exp, locals>>

-----------------------------------------------------------------------------
(* A crash, then Recover: the running runs get their drivers back, but one *)
(* whose Zeus attacks are all lost is marked failed.                       *)
Crash(b) ==
  /\ b \in Boots
  /\ pc[b] = "idle"
  /\ driven' = {}
  /\ pc' = [g \in Goro |-> IF g = b THEN "recoverList" ELSE IF Live(g) THEN Ended(g) ELSE pc[g]]
  /\ seen' = [g \in Goro |-> NoRun]
  /\ todo' = [g \in Goro |-> {}]
  /\ cur' = [g \in Goro |-> {}]
  /\ UNCHANGED rows

(* Mutant: Recover takes up every run that is not over.                    *)
RecoverListAll(b) ==
  /\ pc[b] = "recoverList"
  /\ pc' = [pc EXCEPT ![b] = "recover"]
  /\ todo' = [todo EXCEPT ![b] = {r \in Runs : status[r] \notin Terminal}]
  /\ UNCHANGED <<rows, driven, seen, cur>>

RecoverList(b) ==
  /\ pc[b] = "recoverList"
  /\ pc' = [pc EXCEPT ![b] = "recover"]
  /\ todo' = [todo EXCEPT ![b] = {r \in Runs : status[r] = "running"}]
  /\ UNCHANGED <<rows, driven, seen, cur>>

RecoverRun(b) ==
  /\ pc[b] = "recover"
  /\ \E r \in todo[b] :
       /\ todo' = [todo EXCEPT ![b] = @ \ {r}]
       /\ \/ driven' = driven \cup {r} /\ UNCHANGED <<status, reached>>
          \/ "lost" \in Faults /\ SetRunStatus(r, "failed") /\ UNCHANGED driven
  /\ UNCHANGED <<exp, pc, seen, cur>>

RecoverDone(b) ==
  /\ pc[b] = "recover"
  /\ todo[b] = {}
  /\ Return(b)
  /\ UNCHANGED <<rows, driven>>

-----------------------------------------------------------------------------
Step(g) ==
  \/ SetExperimentRunning(g) \/ ListRuns(g) \/ Cascade(g) \/ CascadeDone(g)
  \/ StartGet(g) \/ StartWrite(g) \/ FinalizeExperiment(g)
  \/ RecoverList(g) \/ RecoverRun(g) \/ RecoverDone(g)

Next ==
  \/ \E g \in Goro : Step(g) \/ StartExperiment(g) \/ OperatorStart(g)
                       \/ StartFails(g) \/ Disconnect(g) \/ Crash(g)
  \/ \E r \in Runs : RunEnds(r) \/ RunEndsAgain(r) \/ OperatorStop(r) \/ Pause(r) \/ Resume(r)

Spec == Init /\ [][Next]_vars

(* Goroutines run.  Nothing else has to happen: no run has to end (one     *)
(* that is polled does not, RunLifecycle, RunningRunEnds; one without a    *)
(* target has no driver after its last phase), and no operator has to call.*)
Fairness == \A g \in Goro : WF_vars(Step(g))

LiveSpec == Spec /\ Fairness

-----------------------------------------------------------------------------
(* "A run only starts when every run ID it lists has reached               *)
(* status='completed'" (ExperimentRun): of the scheduler, whatever advance *)
(* goroutines overlap and wherever the process crashes, and of every run   *)
(* that no StartRun call of the API is about to start.                     *)
StartsAfterDependencies ==
  [][\A r \in Runs :
       status[r] = "pending" /\ status'[r] = "running" /\ (\A g \in Ops : r \notin cur[g])
        => \A d \in DependsOn[r] : "completed" \in reached[d]]_vars

(* The scheduler fails a run that has not started only if a run it depends *)
(* on has failed.                                                          *)
FailsAfterDependency ==
  [][\A r \in Runs : status[r] = "pending" /\ status'[r] = "failed"
        => \E d \in DependsOn[r] : "failed" \in reached[d]]_vars

(* An experiment is finalized once every run of it has ended, and as       *)
(* "completed" only if each of them has completed.                         *)
VerdictIsEarned ==
  /\ exp \in Terminal => \A r \in Runs : reached[r] # {}
  /\ exp = "completed" => \A r \in Runs : "completed" \in reached[r]
  /\ exp = "failed" => \E r \in Runs : "failed" \in reached[r]

Quiescent == \A g \in Goro : ~Live(g)

(* No wake-up is lost: when no goroutine of the scheduler is active, a run *)
(* that is still pending waits for one that has not ended.                 *)
NoReadyRunWaits ==
  exp = "running" /\ Quiescent =>
     \A r \in Runs : status[r] = "pending" => \E d \in DependsOn[r] : status[d] \notin Terminal

(* A running experiment moves on whenever its runs allow it, although any  *)
(* of them may go on for ever: what can start starts, what must fail fails,*)
(* also after an operator's StartRun calls, and once all have ended it     *)
(* ends, but for such a call, whose run may end unseen by any advance.     *)
ExperimentMovesOn ==
  (exp = "running") ~>
    \/ exp \in Terminal
    \/ /\ Ready(status) = {} /\ Doomed(status) = {}
       /\ (\A r \in Runs : status[r] \in Terminal) => \E g \in Ops : pc[g] # "idle"

(* What the code's comments say and the code does not do.                  *)

(* advanceExperiment "finalizes the experiment status when no runs remain  *)
(* in flight or runnable".                                                 *)
FinalizedWhenOver ==
  exp = "running" /\ Quiescent => \E r \in Runs : status[r] \notin Terminal

(* advanceExperiment is "idempotent - safe to call repeatedly": no two     *)
(* goroutines start the same run.                                          *)
StartedByOne == \A g, h \in Goro : cur[g] \cap cur[h] # {} => g = h

(* "If any run fails, the experiment aborts" (ExperimentRun): no further   *)
(* run leaves pending for running after one has failed and the failure has *)
(* been acted upon.                                                        *)
AbortsOnFailure ==
  [][\A g \in Goro, r \in Runs :
       ListRuns(g) /\ status[r] = "failed" => Ready(seen'[g]) = {}]_vars

(* Entry-point runs are "started by StartExperiment": while the experiment *)
(* is planned, only the operator's own StartRun calls start runs.          *)
PlannedStartsNothing ==
  [][\A g \in Goro : exp = "planned" /\ StartWrite(g) => g \in Ops]_vars
=============================================================================
