------------------------ MODULE ExperimentDAGProofs ------------------------
(* Proofs about ExperimentDAG, for every run graph and every number of     *)
(* calls, goroutines and crashes.                                          *)
EXTENDS ExperimentDAG, TLAPS

USE GraphAssumption, CallsAssumption, FaultAssumption

LEMMA NoRunType == NoRun \in [Runs -> RunStatus]
BY DEF NoRun, RunStatus

LEMMA SetRunStatusFacts ==
  ASSUME TypeOK, NEW r \in Runs, NEW s \in RunStatus, SetRunStatus(r, s)
  PROVE  /\ status' \in [Runs -> RunStatus]
         /\ reached' \in [Runs -> SUBSET Terminal]
         /\ status'[r] = s /\ \A q \in Runs \ {r} : status'[q] = status[q]
         /\ \A q \in Runs : reached[q] \subseteq reached'[q]
         /\ s \in Terminal => s \in reached'[r]
BY DEF TypeOK, SetRunStatus

LEMMA ReturnType ==
  ASSUME TypeOK, NEW g \in Goro, Return(g)
  PROVE  /\ pc' \in [Goro -> Locations] /\ seen' \in [Goro -> [Runs -> RunStatus]]
         /\ todo' \in [Goro -> SUBSET Runs] /\ cur' \in [Goro -> SUBSET Runs]
BY NoRunType DEF TypeOK, Return, Ended, Locations

LEMMA StopRunType ==
  ASSUME TypeOK, NEW r \in Runs, NEW s \in Terminal, StopRun(r, s)
  PROVE  TypeOK'
<1>1. s \in RunStatus
  BY DEF RunStatus
<1>2. PICK a \in Advancers : Goto(a, "list")
  BY DEF StopRun
<1>3. pc' \in [Goro -> Locations] /\ UNCHANGED <<seen, todo, cur>>
  BY <1>2 DEF Goto, TypeOK, Locations, Goro
<1> QED BY <1>1, <1>3, SetRunStatusFacts DEF StopRun, TypeOK

LEMMA TypeStep == TypeOK /\ [Next]_vars => TypeOK'
<1> SUFFICES ASSUME TypeOK, [Next]_vars PROVE TypeOK'
  OBVIOUS
<1> USE DEF rows, locals, Goto, Locations
<1>1. CASE UNCHANGED vars
  BY <1>1 DEF vars, TypeOK
<1>2. ASSUME NEW g \in Goro, StartExperiment(g) \/ Disconnect(g) \/ RecoverDone(g)
      PROVE  TypeOK'
  <2>1. Return(g) \/ Goto(g, "setRunning")
    BY <1>2 DEF StartExperiment, Disconnect, RecoverDone
  <2>2. /\ pc' \in [Goro -> Locations] /\ seen' \in [Goro -> [Runs -> RunStatus]]
        /\ todo' \in [Goro -> SUBSET Runs] /\ cur' \in [Goro -> SUBSET Runs]
    BY <2>1, ReturnType DEF TypeOK
  <2> QED BY <1>2, <2>2 DEF StartExperiment, Disconnect, RecoverDone, TypeOK
<1>3. ASSUME NEW g \in Goro, SetExperimentRunning(g) \/ ListRuns(g) \/ CascadeDone(g)
      PROVE  TypeOK'
  <2>1. CASE SetExperimentRunning(g)
    BY <2>1 DEF SetExperimentRunning, TypeOK, ExpStatus
  <2>2. CASE ListRuns(g)
    BY <2>2 DEF ListRuns, TypeOK
  <2>3. CASE CascadeDone(g)
    <3>1. Ready(seen[g]) \subseteq Runs
      BY DEF Ready
    <3> QED BY <2>3, <3>1 DEF CascadeDone, TypeOK
  <2> QED BY <1>3, <2>1, <2>2, <2>3
<1>4. ASSUME NEW g \in Goro, Cascade(g) PROVE TypeOK'
  <2>1. PICK r \in Runs : SetRunStatus(r, "failed") /\ seen' = [seen EXCEPT ![g][r] = "failed"]
    BY <1>4 DEF Cascade, Doomed
  <2>2. "failed" \in RunStatus
    BY DEF RunStatus, Terminal
  <2>3. seen' \in [Goro -> [Runs -> RunStatus]]
    BY <2>1, <2>2 DEF TypeOK
  <2> QED BY <1>4, <2>1, <2>2, <2>3, SetRunStatusFacts DEF Cascade, TypeOK
<1>5. ASSUME NEW g \in Goro, StartGet(g) \/ StartFails(g) \/ OperatorStart(g) PROVE TypeOK'
  <2>1. CASE StartGet(g)
    <3>1. PICK r \in todo[g] :
             /\ todo' = [todo EXCEPT ![g] = @ \ {r}]
             /\ \/ pc' = [pc EXCEPT ![g] = "starting"] /\ cur' = [cur EXCEPT ![g] = {r}]
                \/ UNCHANGED <<pc, cur>>
      BY <2>1 DEF StartGet
    <3>2. r \in Runs
      BY DEF TypeOK
    <3> QED BY <2>1, <3>1, <3>2 DEF StartGet, TypeOK
  <2>2. CASE StartFails(g)
    BY <2>2 DEF StartFails, AfterStart, TypeOK
  <2>3. CASE OperatorStart(g)
    BY <2>3 DEF OperatorStart, TypeOK
  <2> QED BY <1>5, <2>1, <2>2, <2>3
<1>6. ASSUME NEW g \in Goro, StartWrite(g) PROVE TypeOK'
  <2>1. PICK r \in cur[g] : SetRunStatus(r, "running")
    BY <1>6 DEF StartWrite
  <2>2. r \in Runs /\ "running" \in RunStatus
    BY DEF TypeOK, RunStatus
  <2> QED BY <1>6, <2>1, <2>2, SetRunStatusFacts DEF StartWrite, AfterStart, TypeOK
<1>7. ASSUME NEW g \in Goro, FinalizeExperiment(g) PROVE TypeOK'
  BY <1>7, ReturnType DEF FinalizeExperiment, Verdict, TypeOK, ExpStatus, Terminal
<1>8. ASSUME NEW r \in Runs, RunEnds(r) \/ OperatorStop(r) PROVE TypeOK'
  BY <1>8, StopRunType DEF RunEnds, OperatorStop, Terminal
<1>9. ASSUME NEW r \in Runs, RunEndsAgain(r) \/ Pause(r) \/ Resume(r) PROVE TypeOK'
  <2>1. {"paused", "running"} \subseteq RunStatus
    BY DEF RunStatus
  <2> QED BY <1>9, <2>1, SetRunStatusFacts DEF RunEndsAgain, Pause, Resume, TypeOK
<1>10. ASSUME NEW g \in Goro, Crash(g) PROVE TypeOK'
  BY <1>10, NoRunType DEF Crash, Ended, TypeOK
<1>11. ASSUME NEW g \in Goro, RecoverList(g) \/ RecoverRun(g) PROVE TypeOK'
  <2>1. "failed" \in RunStatus
    BY DEF RunStatus, Terminal
  <2>2. CASE RecoverList(g)
    BY <2>2 DEF RecoverList, TypeOK
  <2>3. CASE RecoverRun(g)
    <3>1. PICK r \in todo[g] :
             /\ todo' = [todo EXCEPT ![g] = @ \ {r}]
             /\ \/ driven' = driven \cup {r} /\ UNCHANGED <<status, reached>>
                \/ SetRunStatus(r, "failed") /\ UNCHANGED driven
      BY <2>3 DEF RecoverRun
    <3>2. r \in Runs
      BY DEF TypeOK
    <3>3. status' \in [Runs -> RunStatus] /\ reached' \in [Runs -> SUBSET Terminal]
      BY <2>1, <3>1, <3>2, SetRunStatusFacts DEF TypeOK
    <3> QED BY <2>3, <3>1, <3>2, <3>3 DEF RecoverRun, TypeOK
  <2> QED BY <1>11, <2>2, <2>3
<1> QED BY <1>1, <1>2, <1>3, <1>4, <1>5, <1>6, <1>7, <1>8, <1>9, <1>10, <1>11 DEF Next, Step

-----------------------------------------------------------------------------
(* What the history says of the present, and what the goroutines hold.     *)

StatusReached == \A r \in Runs : status[r] \in Terminal => status[r] \in reached[r]

(* A statusByID map is never wrong about an ending, however old it is.     *)
SeenReached ==
  \A g \in Goro, r \in Runs : seen[g][r] \in Terminal => seen[g][r] \in reached[r]

Startable(r) == \A d \in DependsOn[r] : "completed" \in reached[d]

(* Runs picked by the scheduler are startable, and stay so.  The runs in   *)
(* Recover's hands, and the operator's choice, are another matter.         *)
PickedStartable ==
  \A g \in Goro \ (Boots \cup Ops) : \A r \in todo[g] \cup cur[g] : Startable(r)

(* Drivers and Recover only know of runs that have started.                *)
KnownStarted ==
  /\ \A r \in driven : status[r] # "pending"
  /\ \A b \in Boots : \A r \in todo[b] : status[r] # "pending"

Boundaries ==
  /\ \A b \in Boots : pc[b] \in {"idle", "done", "recoverList", "recover"} /\ cur[b] = {}
  /\ \A g \in Goro \ Boots : pc[g] \notin {"recoverList", "recover"}
  /\ \A g \in Goro : \A r, q \in cur[g] : r = q

IInv ==
  TypeOK /\ StatusReached /\ SeenReached /\ PickedStartable /\ KnownStarted /\ Boundaries
    /\ VerdictIsEarned

(* Every step writes each row by SetRunStatus or leaves it.                *)
LEMMA RowSteps ==
  ASSUME TypeOK, [Next]_vars
  PROVE  \/ UNCHANGED <<status, reached>>
         \/ \E r \in Runs, s \in RunStatus \ {"pending"} : SetRunStatus(r, s)
<1> USE DEF rows, locals, RunStatus, Terminal
<1>1. CASE UNCHANGED vars
  BY <1>1 DEF vars
<1>2. ASSUME NEW g \in Goro, Step(g) \/ StartExperiment(g) \/ OperatorStart(g)
                               \/ StartFails(g) \/ Disconnect(g) \/ Crash(g)
      PROVE  \/ UNCHANGED <<status, reached>>
             \/ \E r \in Runs, s \in RunStatus \ {"pending"} : SetRunStatus(r, s)
  <2>1. CASE Cascade(g) \/ StartWrite(g) \/ RecoverRun(g)
    <3>1. todo[g] \subseteq Runs /\ cur[g] \subseteq Runs /\ Doomed(seen[g]) \subseteq Runs
      BY DEF TypeOK, Doomed
    <3> QED BY <2>1, <3>1 DEF Cascade, StartWrite, RecoverRun
  <2>2. CASE ~(Cascade(g) \/ StartWrite(g) \/ RecoverRun(g))
    BY <1>2, <2>2 DEF Step, StartExperiment, OperatorStart, StartFails, Disconnect, Crash,
       SetExperimentRunning, ListRuns, CascadeDone, StartGet, FinalizeExperiment,
       RecoverList, RecoverDone
  <2> QED BY <2>1, <2>2
<1>3. ASSUME NEW r \in Runs,
             RunEnds(r) \/ RunEndsAgain(r) \/ OperatorStop(r) \/ Pause(r) \/ Resume(r)
      PROVE  \/ UNCHANGED <<status, reached>>
             \/ \E q \in Runs, s \in RunStatus \ {"pending"} : SetRunStatus(q, s)
  BY <1>3 DEF RunEnds, RunEndsAgain, OperatorStop, Pause, Resume, StopRun
<1> QED BY <1>1, <1>2, <1>3 DEF Next

(* What has been reached stays so, and a run never goes back to pending    *)
(* (no code path writes "pending").                                        *)
LEMMA Growth ==
  ASSUME TypeOK, [Next]_vars
  PROVE  \A r \in Runs : /\ reached[r] \subseteq reached'[r]
                         /\ status[r] # "pending" => status'[r] # "pending"
BY RowSteps, SetRunStatusFacts

LEMMA StatusReachedStep ==
  ASSUME TypeOK, StatusReached, [Next]_vars
  PROVE  StatusReached'
<1>1. CASE UNCHANGED <<status, reached>>
  BY <1>1 DEF StatusReached
<1>2. CASE \E r \in Runs, s \in RunStatus : SetRunStatus(r, s)
  <2>1. PICK r \in Runs, s \in RunStatus : SetRunStatus(r, s)
    BY <1>2
  <2> QED BY <2>1, SetRunStatusFacts DEF StatusReached
<1> QED BY <1>1, <1>2, RowSteps

(* How the locals of a goroutine h can change.                             *)
LEMMA LocalSteps ==
  ASSUME TypeOK, Boundaries, [Next]_vars, NEW h \in Goro
  PROVE  /\ \/ seen'[h] \in {seen[h], NoRun}
            \/ seen'[h] = status /\ UNCHANGED <<status, reached>>
            \/ \E r \in Runs : /\ seen'[h] = [seen[h] EXCEPT ![r] = "failed"]
                               /\ "failed" \in reached'[r]
         /\ h \notin Boots => todo'[h] \subseteq todo[h] \cup Ready(seen[h])
         /\ h \in Boots => \A r \in todo'[h] : r \in todo[h] \/ status[r] = "running"
         /\ h \notin Ops => cur'[h] \subseteq cur[h] \cup todo[h]
         /\ h \in Boots => cur'[h] = {} /\ pc'[h] \in {"idle", "done", "recoverList", "recover"}
         /\ h \notin Boots => pc'[h] \notin {"recoverList", "recover"}
         /\ \A r, q \in cur'[h] : r = q
<1> DEFINE P == /\ \/ seen'[h] \in {seen[h], NoRun}
                   \/ seen'[h] = status /\ UNCHANGED <<status, reached>>
                   \/ \E r \in Runs : /\ seen'[h] = [seen[h] EXCEPT ![r] = "failed"]
                                      /\ "failed" \in reached'[r]
                /\ h \notin Boots => todo'[h] \subseteq todo[h] \cup Ready(seen[h])
                /\ h \in Boots => \A r \in todo'[h] : r \in todo[h] \/ status[r] = "running"
                /\ h \notin Ops => cur'[h] \subseteq cur[h] \cup todo[h]
                /\ h \in Boots => cur'[h] = {} /\ pc'[h] \in {"idle", "done", "recoverList", "recover"}
                /\ h \notin Boots => pc'[h] \notin {"recoverList", "recover"}
                /\ \A r, q \in cur'[h] : r = q
<1> SUFFICES P
  OBVIOUS
<1> USE DEF rows, locals, Boundaries, TypeOK, Goro
<1>1. CASE UNCHANGED vars
  BY <1>1 DEF vars
<1>2. ASSUME NEW g \in Goro, StartExperiment(g) \/ Disconnect(g) \/ RecoverDone(g)
                                 \/ FinalizeExperiment(g)
      PROVE  P
  BY <1>2 DEF StartExperiment, Disconnect, RecoverDone, FinalizeExperiment, Return, Ended, Goto
<1>3. ASSUME NEW g \in Goro, SetExperimentRunning(g) \/ ListRuns(g) \/ CascadeDone(g)
      PROVE  P
  BY <1>3 DEF SetExperimentRunning, ListRuns, CascadeDone, Goto
<1>4. ASSUME NEW g \in Goro, Cascade(g) PROVE P
  <2>1. PICK r \in Runs : SetRunStatus(r, "failed") /\ seen' = [seen EXCEPT ![g][r] = "failed"]
    BY <1>4 DEF Cascade, Doomed
  <2>2. "failed" \in reached'[r]
    BY <2>1, SetRunStatusFacts DEF RunStatus, Terminal
  <2> QED BY <1>4, <2>1, <2>2 DEF Cascade
<1>5. ASSUME NEW g \in Goro, StartGet(g) PROVE P
  BY <1>5 DEF StartGet
<1>6. ASSUME NEW g \in Goro, OperatorStart(g) PROVE P
  BY <1>6 DEF OperatorStart
<1>7. ASSUME NEW g \in Goro, StartWrite(g) \/ StartFails(g) PROVE P
  BY <1>7 DEF StartWrite, StartFails, AfterStart
<1>8. ASSUME NEW r \in Runs, RunEnds(r) \/ OperatorStop(r) \/ RunEndsAgain(r) \/ Pause(r) \/ Resume(r)
      PROVE  P
  BY <1>8 DEF RunEnds, OperatorStop, StopRun, Goto, RunEndsAgain, Pause, Resume
<1>9. ASSUME NEW g \in Goro, Crash(g) PROVE P
  BY <1>9 DEF Crash, Ended, Live
<1>10. ASSUME NEW g \in Goro, RecoverList(g) \/ RecoverRun(g) PROVE P
  BY <1>10 DEF RecoverList, RecoverRun
<1> QED BY <1>1, <1>2, <1>3, <1>4, <1>5, <1>6, <1>7, <1>8, <1>9, <1>10 DEF Next, Step

LEMMA SeenReachedStep ==
  ASSUME TypeOK, StatusReached, SeenReached, Boundaries, [Next]_vars
  PROVE  SeenReached'
<1> SUFFICES ASSUME NEW g \in Goro, NEW r \in Runs, seen'[g][r] \in Terminal
             PROVE  seen'[g][r] \in reached'[r]
  BY DEF SeenReached
<1>1. reached[r] \subseteq reached'[r]
  BY Growth
<1>2. CASE seen'[g] = seen[g]
  BY <1>1, <1>2 DEF SeenReached
<1>3. CASE seen'[g] = NoRun
  BY <1>3 DEF NoRun, Terminal
<1>4. CASE seen'[g] = status /\ UNCHANGED <<status, reached>>
  BY <1>4 DEF StatusReached
<1>5. ASSUME NEW q \in Runs, seen'[g] = [seen[g] EXCEPT ![q] = "failed"], "failed" \in reached'[q]
      PROVE  seen'[g][r] \in reached'[r]
  <2>1. seen[g] \in [Runs -> RunStatus]
    BY DEF TypeOK
  <2>2. CASE r = q
    BY <1>5, <2>1, <2>2
  <2>3. CASE r # q
    BY <1>1, <1>5, <2>1, <2>3 DEF SeenReached
  <2> QED BY <2>2, <2>3
<1> QED BY <1>2, <1>3, <1>4, <1>5, LocalSteps

LEMMA ReadyStartable ==
  ASSUME TypeOK, SeenReached, NEW g \in Goro, NEW r \in Ready(seen[g])
  PROVE  Startable(r)
<1>1. DependsOn[r] \subseteq Runs /\ \A d \in DependsOn[r] : seen[g][d] = "completed"
  BY DEF Ready
<1> QED BY <1>1 DEF SeenReached, Startable, Terminal

LEMMA PickedStartableStep ==
  ASSUME TypeOK, SeenReached, PickedStartable, Boundaries, [Next]_vars
  PROVE  PickedStartable'
<1> SUFFICES ASSUME NEW g \in Goro \ (Boots \cup Ops), NEW r \in todo'[g] \cup cur'[g]
             PROVE  Startable(r)'
  BY DEF PickedStartable
<1>1. r \in todo[g] \cup cur[g] \cup Ready(seen[g])
  BY LocalSteps
<1>2. r \in Runs /\ Startable(r)
  BY <1>1, ReadyStartable DEF PickedStartable, TypeOK, Ready
<1>3. DependsOn[r] \subseteq Runs
  BY <1>2
<1> QED BY <1>2, <1>3, Growth DEF Startable

(* The runs with a driver are those that had one, or have just started or  *)
(* resumed, or are recovered.                                              *)
LEMMA DrivenSteps ==
  ASSUME TypeOK, KnownStarted, Boundaries, [Next]_vars
  PROVE  \A r \in driven' : status'[r] # "pending"
<1> USE DEF rows, locals
<1>1. CASE driven' \subseteq driven
  BY <1>1, Growth DEF KnownStarted, TypeOK
<1>2. ASSUME NEW g \in Goro, StartWrite(g) PROVE \A r \in driven' : status'[r] # "pending"
  <2>1. PICK q \in cur[g] : SetRunStatus(q, "running")
    BY <1>2 DEF StartWrite
  <2>2. cur[g] = {q} /\ q \in Runs /\ driven' = driven \cup {q}
    BY <1>2, <2>1 DEF Boundaries, StartWrite, TypeOK
  <2>3. status'[q] = "running"
    BY <2>1, <2>2 DEF SetRunStatus, TypeOK
  <2> QED BY <2>2, <2>3, Growth DEF KnownStarted, TypeOK
<1>3. ASSUME NEW r \in Runs, Resume(r) PROVE \A q \in driven' : status'[q] # "pending"
  <2>1. driven' = driven \cup {r} /\ status[r] # "pending"
    BY <1>3 DEF Resume
  <2> QED BY <2>1, Growth DEF KnownStarted, TypeOK
<1>4. ASSUME NEW b \in Goro, RecoverRun(b) PROVE \A r \in driven' : status'[r] # "pending"
  <2>1. b \in Boots
    BY <1>4 DEF RecoverRun, Boundaries
  <2>2. PICK r \in todo[b] : driven' \subseteq driven \cup {r}
    BY <1>4 DEF RecoverRun
  <2>3. r \in Runs /\ status[r] # "pending"
    BY <2>1 DEF KnownStarted, TypeOK
  <2> QED BY <2>2, <2>3, Growth DEF KnownStarted, TypeOK
<1>5. \/ driven' \subseteq driven
      \/ \E g \in Goro : StartWrite(g) \/ RecoverRun(g)
      \/ \E r \in Runs : Resume(r)
  BY DEF Next, Step, vars, StartExperiment, SetExperimentRunning, Disconnect, ListRuns, Cascade,
         CascadeDone, StartGet, StartFails, FinalizeExperiment, RunEnds, StopRun, RunEndsAgain,
         OperatorStart, OperatorStop, Pause, Crash, RecoverList, RecoverDone
<1> QED BY <1>1, <1>2, <1>3, <1>4, <1>5

LEMMA KnownStartedStep ==
  ASSUME TypeOK, KnownStarted, Boundaries, [Next]_vars
  PROVE  KnownStarted'
<1>1. ASSUME NEW b \in Boots, NEW r \in todo'[b] PROVE status'[r] # "pending"
  <2>1. b \in Goro
    BY DEF Goro
  <2>2. (r \in todo[b] \/ status[r] = "running") /\ r \in Runs
    BY <2>1, LocalSteps, TypeStep DEF TypeOK
  <2> QED BY <2>2, Growth DEF KnownStarted
<1> QED BY <1>1, DrivenSteps DEF KnownStarted

LEMMA BoundariesStep ==
  ASSUME TypeOK, Boundaries, [Next]_vars
  PROVE  Boundaries'
BY LocalSteps DEF Boundaries, Goro

LEMMA VerdictStep ==
  ASSUME TypeOK, SeenReached, VerdictIsEarned, [Next]_vars
  PROVE  VerdictIsEarned'
<1> USE DEF rows, locals
<1>1. CASE exp' = exp \/ exp' = "running"
  BY <1>1, Growth DEF VerdictIsEarned, Terminal
<1>2. ASSUME NEW g \in Goro, FinalizeExperiment(g), exp' # exp PROVE VerdictIsEarned'
  <2>1. Finished(seen[g]) /\ exp' = Verdict(seen[g]) /\ UNCHANGED reached
    BY <1>2 DEF FinalizeExperiment
  <2>2. \A r \in Runs : seen[g][r] \in Terminal /\ seen[g][r] \in reached[r]
    BY <2>1 DEF Finished, SeenReached
  <2> QED BY <2>1, <2>2 DEF Verdict, VerdictIsEarned, Terminal
<1>3. \/ exp' = exp \/ exp' = "running"
      \/ \E g \in Goro : FinalizeExperiment(g)
  BY DEF Next, Step, vars, StartExperiment, SetExperimentRunning, Disconnect, ListRuns, Cascade,
         CascadeDone, StartGet, StartWrite, StartFails, RunEnds, StopRun, RunEndsAgain,
         OperatorStart, OperatorStop, Pause, Resume, Crash, RecoverList, RecoverRun, RecoverDone
<1> QED BY <1>1, <1>2, <1>3

LEMMA IInvInit == Init => IInv
BY NoRunType DEF Init, IInv, TypeOK, StatusReached, SeenReached, PickedStartable, KnownStarted,
                 Boundaries, VerdictIsEarned, NoRun, Terminal, ExpStatus, Locations, Goro

LEMMA IInvStep == IInv /\ [Next]_vars => IInv'
BY TypeStep, StatusReachedStep, SeenReachedStep, PickedStartableStep, KnownStartedStep,
   BoundariesStep, VerdictStep DEF IInv

(* The types of the rows and of what each goroutine has read of them.      *)
THEOREM TypeCorrect == Spec => []TypeOK
<1>1. IInv => TypeOK
  BY DEF IInv
<1> QED BY IInvInit, IInvStep, <1>1, PTL DEF Spec

(* An experiment is never finalized with a run that has not ended, nor as  *)
(* completed with one that has not completed: for any run graph and any    *)
(* overlap of advance goroutines, operator calls, crashes and failures.    *)
THEOREM VerdictIsEarnedHolds == Spec => []VerdictIsEarned
<1>1. IInv => VerdictIsEarned
  BY DEF IInv
<1> QED BY IInvInit, IInvStep, <1>1, PTL DEF Spec

(* A run that leaves pending for running is in the hands of StartRun.      *)
LEMMA StartStep ==
  ASSUME IInv, [Next]_vars, NEW r \in Runs, status[r] = "pending", status'[r] = "running"
  PROVE  \E g \in Goro : StartWrite(g) /\ r \in cur[g]
<1> USE DEF IInv, rows, locals, TypeOK, SetRunStatus
<1>1. ASSUME NEW g \in Goro, Step(g), ~StartWrite(g) PROVE FALSE
  <2>1. CASE Cascade(g)
    BY <2>1 DEF Cascade, Doomed
  <2>2. CASE RecoverRun(g)
    BY <2>2 DEF RecoverRun
  <2>3. CASE ~(Cascade(g) \/ RecoverRun(g))
    BY <1>1, <2>3 DEF Step, SetExperimentRunning, ListRuns, CascadeDone, StartGet,
                      FinalizeExperiment, RecoverList, RecoverDone
  <2> QED BY <2>1, <2>2, <2>3
<1>2. ASSUME NEW g \in Goro,
             StartExperiment(g) \/ OperatorStart(g) \/ StartFails(g) \/ Disconnect(g) \/ Crash(g)
      PROVE  FALSE
  BY <1>2 DEF StartExperiment, OperatorStart, StartFails, Disconnect, Crash
<1>3. ASSUME NEW q \in Runs,
             RunEnds(q) \/ RunEndsAgain(q) \/ OperatorStop(q) \/ Pause(q) \/ Resume(q)
      PROVE  FALSE
  BY <1>3 DEF RunEnds, StopRun, RunEndsAgain, OperatorStop, Pause, Resume, Terminal
<1>4. PICK g \in Goro : StartWrite(g)
  BY <1>1, <1>2, <1>3 DEF Next, vars
<1>5. PICK q \in cur[g] : SetRunStatus(q, "running")
  BY <1>4 DEF StartWrite
<1>6. q = r
  BY <1>5
<1> QED BY <1>4, <1>5, <1>6

(* The orchestrator starts a run only after every run it depends on has    *)
(* completed, but for the runs an operator starts through the API: for any *)
(* run graph, any overlap of advance goroutines, crashes and failures.     *)
THEOREM StartsAfterDependenciesHolds == Spec => StartsAfterDependencies
<1>1. IInv /\ [Next]_vars
        => [\A r \in Runs :
              status[r] = "pending" /\ status'[r] = "running" /\ (\A g \in Ops : r \notin cur[g])
                => \A d \in DependsOn[r] : "completed" \in reached[d]]_vars
  <2> SUFFICES ASSUME IInv, [Next]_vars, NEW r \in Runs,
                      status[r] = "pending", status'[r] = "running",
                      \A g \in Ops : r \notin cur[g]
               PROVE  \A d \in DependsOn[r] : "completed" \in reached[d]
    OBVIOUS
  <2>1. PICK g \in Goro : StartWrite(g) /\ r \in cur[g]
    BY StartStep
  <2>2. g \notin Boots \cup Ops
    BY <2>1 DEF IInv, Boundaries
  <2> QED BY <2>1, <2>2 DEF IInv, PickedStartable, Startable
<1> QED BY IInvInit, IInvStep, <1>1, PTL DEF Spec, StartsAfterDependencies

(* A run that leaves pending for failed does so in a cascade.              *)
LEMMA FailStep ==
  ASSUME IInv, [Next]_vars, NEW r \in Runs, status[r] = "pending", status'[r] = "failed"
  PROVE  \E d \in DependsOn[r] : "failed" \in reached[d]
<1> USE DEF IInv, rows, locals, TypeOK, SetRunStatus
<1>1. ASSUME NEW g \in Goro, Step(g), ~Cascade(g) PROVE FALSE
  <2>1. CASE StartWrite(g)
    BY <2>1 DEF StartWrite
  <2>2. CASE RecoverRun(g)
    <3>1. g \in Boots
      BY <2>2 DEF RecoverRun, Boundaries
    <3>2. \A q \in todo[g] : status[q] # "pending"
      BY <3>1 DEF KnownStarted
    <3> QED BY <2>2, <3>2 DEF RecoverRun
  <2>3. CASE ~(StartWrite(g) \/ RecoverRun(g))
    BY <1>1, <2>3 DEF Step, SetExperimentRunning, ListRuns, CascadeDone, StartGet,
                      FinalizeExperiment, RecoverList, RecoverDone
  <2> QED BY <2>1, <2>2, <2>3
<1>2. ASSUME NEW g \in Goro,
             StartExperiment(g) \/ OperatorStart(g) \/ StartFails(g) \/ Disconnect(g) \/ Crash(g)
      PROVE  FALSE
  BY <1>2 DEF StartExperiment, OperatorStart, StartFails, Disconnect, Crash
<1>3. ASSUME NEW q \in Runs,
             RunEnds(q) \/ RunEndsAgain(q) \/ OperatorStop(q) \/ Pause(q) \/ Resume(q)
      PROVE  FALSE
  BY <1>3 DEF RunEnds, StopRun, RunEndsAgain, OperatorStop, Pause, Resume, KnownStarted
<1>4. PICK g \in Goro : Cascade(g)
  BY <1>1, <1>2, <1>3 DEF Next, vars
<1>5. PICK q \in Doomed(seen[g]) : SetRunStatus(q, "failed")
  BY <1>4 DEF Cascade
<1>6. q = r
  BY <1>5 DEF Doomed
<1>7. PICK d \in DependsOn[r] : seen[g][d] = "failed"
  BY <1>5, <1>6 DEF Doomed
<1>8. d \in Runs
  BY <1>7
<1> QED BY <1>7, <1>8 DEF SeenReached, Terminal

(* A run that has not started is failed only because of a run it depends   *)
(* on: Recover fails only runs that were running.                          *)
THEOREM FailsAfterDependencyHolds == Spec => FailsAfterDependency
<1>1. IInv /\ [Next]_vars
        => [\A r \in Runs : status[r] = "pending" /\ status'[r] = "failed"
              => \E d \in DependsOn[r] : "failed" \in reached[d]]_vars
  BY FailStep
<1> QED BY IInvInit, IInvStep, <1>1, PTL DEF Spec, FailsAfterDependency

-----------------------------------------------------------------------------
(* No wake-up is lost.  A pending run whose dependencies have all ended    *)
(* is covered: some goroutine of the scheduler has yet to read the rows,   *)
(* or has read them so that it will fail the run or start it.              *)
Ripe(r) == status[r] = "pending" /\ \A d \in DependsOn[r] : status[d] \in Terminal

Decides(s, r) ==
  /\ s[r] = "pending"
  /\ \/ \A d \in DependsOn[r] : s[d] \in Terminal
     \/ \E d \in DependsOn[r] : s[d] = "failed"

Covers(g, r) ==
  \/ pc[g] = "list"
  \/ pc[g] = "cascade" /\ Decides(seen[g], r)
  \/ pc[g] \in {"start", "starting"} /\ r \in todo[g] \cup cur[g]

RipeCovered == exp = "running" => \A r \in Runs : Ripe(r) => \E g \in Goro : Covers(g, r)

(* What a goroutine has in hand is told by where it is; and it knows a     *)
(* pending run as pending.                                                 *)
HandOf(g) ==
  /\ pc[g] # "starting" => cur[g] = {}
  /\ pc[g] = "cascade" => \A r \in Runs : status[r] = "pending" => seen[g][r] = "pending"
  /\ g \in Ops => pc[g] \in {"idle", "starting", "done"} /\ todo[g] = {}

InHand == \A g \in Goro : HandOf(g)

(* There is no crash, no start fails, and nobody hangs up.                 *)
Calm == Boots = {} /\ "start" \notin Faults /\ "disconnect" \notin Faults

WakeInv == IInv /\ InHand /\ RipeCovered

LEMMA InHandStep ==
  ASSUME IInv, InHand, [Next]_vars
  PROVE  InHand'
<1> SUFFICES ASSUME NEW h \in Goro PROVE HandOf(h)'
  BY DEF InHand
<1>0. /\ TypeOK /\ HandOf(h)
      /\ \A r \in Runs : status'[r] = "pending" => status[r] = "pending"
  BY Growth DEF IInv, InHand
<1> USE DEF rows, locals, TypeOK, Goto
<1>1. ASSUME pc'[h] = pc[h], seen'[h] = seen[h], todo'[h] = todo[h], cur'[h] = cur[h]
      PROVE  HandOf(h)'
  BY <1>0, <1>1 DEF HandOf
<1>2. CASE UNCHANGED vars
  BY <1>1, <1>2 DEF vars
<1>3. ASSUME NEW g \in Goro, g # h, Step(g), ~Cascade(g) PROVE HandOf(h)'
  BY <1>0, <1>1, <1>3 DEF Step, SetExperimentRunning, ListRuns, CascadeDone, StartGet, StartWrite,
     AfterStart, FinalizeExperiment, RecoverList, RecoverRun, RecoverDone, Return
<1>4. ASSUME NEW g \in Goro, g # h,
             StartExperiment(g) \/ OperatorStart(g) \/ StartFails(g) \/ Disconnect(g)
      PROVE  HandOf(h)'
  BY <1>0, <1>1, <1>4 DEF StartExperiment, OperatorStart, StartFails, AfterStart, Disconnect, Return
<1>5. CASE StartExperiment(h) \/ Disconnect(h) \/ RecoverDone(h) \/ FinalizeExperiment(h)
  <2>1. h \notin Ops \/ HandOf(h)' \/ (pc'[h] = "done" /\ todo'[h] = {} /\ cur'[h] = {})
    BY <1>0, <1>5 DEF StartExperiment, Disconnect, RecoverDone, FinalizeExperiment, Return, Ended
  <2>2. pc'[h] \notin {"starting", "cascade"} /\ cur'[h] = {}
    BY <1>0, <1>5 DEF StartExperiment, Disconnect, RecoverDone, FinalizeExperiment, Return, Ended,
                      HandOf
  <2> QED BY <2>1, <2>2 DEF HandOf
<1>6. CASE SetExperimentRunning(h) \/ ListRuns(h) \/ CascadeDone(h) \/ RecoverList(h)
  <2>1. h \notin Ops /\ cur[h] = {} /\ cur'[h] = {}
    BY <1>0, <1>6 DEF SetExperimentRunning, ListRuns, CascadeDone, RecoverList, HandOf
  <2>2. pc'[h] \in {"list", "start", "recover"} \/ (pc'[h] = "cascade" /\ seen'[h] = status)
    BY <1>0, <1>6 DEF SetExperimentRunning, ListRuns, CascadeDone, RecoverList
  <2> QED BY <1>0, <2>1, <2>2 DEF HandOf
<1>7. ASSUME NEW g \in Goro, Cascade(g) PROVE HandOf(h)'
  <2>1. PICK q \in Runs : /\ SetRunStatus(q, "failed")
                          /\ seen' = [seen EXCEPT ![g][q] = "failed"]
    BY <1>7 DEF Cascade, Doomed
  <2>2. status'[q] = "failed" /\ UNCHANGED <<pc, cur, todo>>
    BY <1>0, <1>7, <2>1 DEF Cascade, SetRunStatus
  <2>3. \A r \in Runs \ {q} : seen'[h][r] = seen[h][r]
    BY <1>0, <2>1
  <2> QED BY <1>0, <2>2, <2>3 DEF HandOf
<1>8. CASE StartGet(h) \/ OperatorStart(h) \/ StartWrite(h) \/ StartFails(h) \/ RecoverRun(h)
  <2>1. h \in Ops => pc'[h] \in {"idle", "starting", "done"} /\ todo'[h] = {}
    BY <1>0, <1>8 DEF StartGet, OperatorStart, StartWrite, StartFails, AfterStart, RecoverRun, HandOf
  <2>2. pc'[h] # "cascade"
    BY <1>0, <1>8 DEF StartGet, OperatorStart, StartWrite, StartFails, AfterStart, RecoverRun
  <2>3. pc'[h] # "starting" => cur'[h] = {}
    <3>1. CASE StartGet(h)
      BY <1>0, <3>1 DEF StartGet, HandOf
    <3>2. CASE OperatorStart(h) \/ StartWrite(h) \/ StartFails(h) \/ RecoverRun(h)
      BY <1>0, <3>2 DEF OperatorStart, StartWrite, StartFails, AfterStart, RecoverRun, HandOf
    <3> QED BY <1>8, <3>1, <3>2
  <2> QED BY <2>1, <2>2, <2>3 DEF HandOf
<1>9. ASSUME NEW r \in Runs, RunEnds(r) \/ OperatorStop(r) PROVE HandOf(h)'
  <2>1. PICK a \in Advancers : pc[a] = "idle" /\ Goto(a, "list")
    BY <1>9 DEF RunEnds, OperatorStop, StopRun
  <2>2. CASE a = h
    <3>1. h \notin Ops /\ pc'[h] = "list" /\ cur'[h] = {}
      BY <1>0, <2>1, <2>2 DEF HandOf, Goro
    <3> QED BY <3>1 DEF HandOf
  <2>3. CASE a # h
    BY <1>0, <1>1, <2>1, <2>3 DEF Goro
  <2> QED BY <2>2, <2>3
<1>10. ASSUME NEW r \in Runs, RunEndsAgain(r) \/ Pause(r) \/ Resume(r) PROVE HandOf(h)'
  BY <1>1, <1>10 DEF RunEndsAgain, Pause, Resume
<1>11. ASSUME NEW g \in Goro, Crash(g) PROVE HandOf(h)'
  <2>1. cur'[h] = {} /\ todo'[h] = {} /\ pc'[h] \in {"recoverList", Ended(h), pc[h]}
    BY <1>0, <1>11 DEF Crash
  <2>2. pc'[h] \in {"recoverList", "idle", "done"} /\ (h \in Ops => pc'[h] # "recoverList")
    BY <1>0, <1>11 DEF Crash, Live, Ended
  <2> QED BY <2>1, <2>2 DEF HandOf
<1> QED
  BY <1>2, <1>3, <1>4, <1>5, <1>6, <1>7, <1>8, <1>9, <1>10, <1>11 DEF Next, Step

(* A goroutine that covers a pending run does so until the run is not      *)
(* pending any more.                                                       *)
LEMMA CoverStays ==
  ASSUME Calm, IInv, InHand, [Next]_vars, NEW g \in Goro, NEW r \in Runs,
         Covers(g, r), Ripe(r), status'[r] = "pending"
  PROVE  Covers(g, r)'
<1> USE DEF rows, locals, TypeOK, Goto
<1>0. TypeOK
  BY DEF IInv
<1>1. ASSUME pc'[g] = pc[g], seen'[g] = seen[g], todo'[g] = todo[g], cur'[g] = cur[g]
      PROVE  Covers(g, r)'
  BY <1>1 DEF Covers, Decides
<1>2. CASE UNCHANGED vars
  BY <1>1, <1>2 DEF vars
<1>3. ASSUME NEW h \in Goro, h # g, Step(h) \/ StartExperiment(h) \/ OperatorStart(h)
      PROVE  Covers(g, r)'
  BY <1>0, <1>1, <1>3 DEF Step, StartExperiment, OperatorStart, SetExperimentRunning, ListRuns,
     Cascade, CascadeDone, StartGet, StartWrite, AfterStart, FinalizeExperiment, RecoverList,
     RecoverRun, RecoverDone, Return
<1>4. CASE StartExperiment(g) \/ OperatorStart(g) \/ SetExperimentRunning(g)
           \/ RecoverList(g) \/ RecoverRun(g) \/ RecoverDone(g)
  BY <1>4 DEF StartExperiment, OperatorStart, SetExperimentRunning, RecoverList, RecoverRun,
              RecoverDone, Covers
<1>5. CASE ListRuns(g)
  <2>1. pc'[g] = "cascade" /\ seen'[g] = status
    BY <1>0, <1>5 DEF ListRuns
  <2> QED BY <2>1 DEF Covers, Decides, Ripe
<1>6. CASE Cascade(g)
  <2>1. PICK q \in Runs : /\ SetRunStatus(q, "failed")
                          /\ seen' = [seen EXCEPT ![g][q] = "failed"]
    BY <1>6 DEF Cascade, Doomed
  <2>2. q # r
    BY <1>0, <2>1 DEF SetRunStatus
  <2>3. pc'[g] = "cascade" /\ Decides(seen[g], r)
    BY <1>6 DEF Cascade, Covers
  <2>4. seen'[g] = [seen[g] EXCEPT ![q] = "failed"] /\ seen[g] \in [Runs -> RunStatus]
    BY <1>0, <2>1
  <2>5. Decides(seen'[g], r)
    BY <2>2, <2>3, <2>4 DEF Decides, Terminal
  <2> QED BY <2>3, <2>5 DEF Covers, Decides
<1>7. CASE CascadeDone(g)
  <2>1. Decides(seen[g], r) /\ Doomed(seen[g]) = {}
    BY <1>7 DEF CascadeDone, Covers
  <2>2. r \in Ready(seen[g])
    BY <2>1 DEF Decides, Doomed, Ready, Terminal
  <2>3. pc'[g] = "start" /\ todo'[g] = Ready(seen[g])
    BY <1>0, <1>7 DEF CascadeDone
  <2> QED BY <2>2, <2>3 DEF Covers
<1>8. CASE StartGet(g)
  <2>1. pc[g] = "start" /\ cur[g] = {}
    BY <1>8 DEF StartGet, InHand, HandOf
  <2>2. r \in todo[g]
    BY <2>1 DEF Covers
  <2>3. PICK q \in todo[g] :
          /\ todo' = [todo EXCEPT ![g] = @ \ {q}]
          /\ IF status[q] = "pending"
             THEN pc' = [pc EXCEPT ![g] = "starting"] /\ cur' = [cur EXCEPT ![g] = {q}]
             ELSE UNCHANGED <<pc, cur>>
    BY <1>8 DEF StartGet
  <2>4. pc'[g] \in {"start", "starting"} /\ r \in todo'[g] \cup cur'[g]
    BY <1>0, <2>1, <2>2, <2>3 DEF Ripe
  <2> QED BY <2>4 DEF Covers
<1>9. CASE StartWrite(g)
  <2>1. PICK q \in cur[g] : SetRunStatus(q, "running")
    BY <1>9 DEF StartWrite
  <2>2. cur[g] = {q} /\ q # r
    BY <1>0, <2>1 DEF SetRunStatus, IInv, Boundaries
  <2>3. r \in todo[g]
    BY <1>9, <2>2 DEF StartWrite, Covers
  <2>4. todo[g] # {} /\ todo'[g] = todo[g] /\ pc'[g] = IF g \in Ops THEN "done" ELSE "start"
    BY <1>0, <1>9, <2>3 DEF StartWrite, AfterStart
  <2>5. g \notin Ops
    BY <2>3 DEF InHand, HandOf
  <2> QED BY <2>3, <2>4, <2>5 DEF Covers
<1>10. CASE FinalizeExperiment(g)
  BY <1>10 DEF FinalizeExperiment, Covers, InHand, HandOf
<1>11. ASSUME NEW q \in Runs, RunEnds(q) \/ OperatorStop(q) PROVE Covers(g, r)'
  <2>1. PICK a \in Advancers : pc[a] = "idle" /\ Goto(a, "list")
    BY <1>11 DEF RunEnds, OperatorStop, StopRun
  <2>2. g # a
    BY <2>1 DEF Covers
  <2> QED BY <1>0, <1>1, <2>1, <2>2 DEF Goro
<1>12. ASSUME NEW q \in Runs, RunEndsAgain(q) \/ Pause(q) \/ Resume(q) PROVE Covers(g, r)'
  BY <1>1, <1>12 DEF RunEndsAgain, Pause, Resume
<1>13. \A h \in Goro : ~StartFails(h) /\ ~Disconnect(h) /\ ~Crash(h)
  BY DEF Calm, StartFails, Disconnect, Crash
<1> QED BY <1>2, <1>3, <1>4, <1>5, <1>6, <1>7, <1>8, <1>9, <1>10, <1>11, <1>12, <1>13 DEF Next, Step

(* When the last of its dependencies ends, or the experiment begins,       *)
(* somebody is about to read the rows, or to act upon that very failure.   *)
LEMMA CoverBegins ==
  ASSUME Calm, IInv, InHand, [Next]_vars, NEW r \in Runs, status[r] = "pending",
         exp' = "running", Ripe(r)', ~(exp = "running" /\ Ripe(r))
  PROVE  \E g \in Goro : Covers(g, r)'
<1> USE DEF rows, locals, TypeOK, Goto
<1>0. TypeOK /\ DependsOn[r] \subseteq Runs
  BY DEF IInv
<1>1. ASSUME UNCHANGED <<exp, status>> PROVE FALSE
  BY <1>1 DEF Ripe
<1>2. ASSUME \A d \in Runs : status'[d] \in Terminal => status[d] \in Terminal, exp' = exp
      PROVE FALSE
  BY <1>0, <1>2 DEF Ripe
<1>3. CASE UNCHANGED vars
  BY <1>1, <1>3 DEF vars
<1>4. ASSUME NEW g \in Goro, SetExperimentRunning(g) PROVE \E h \in Goro : Covers(h, r)'
  BY <1>0, <1>4 DEF SetExperimentRunning, Covers
<1>5. ASSUME NEW g \in Goro, Cascade(g) PROVE \E h \in Goro : Covers(h, r)'
  <2>1. PICK q \in Runs : /\ SetRunStatus(q, "failed")
                          /\ seen' = [seen EXCEPT ![g][q] = "failed"]
    BY <1>5 DEF Cascade, Doomed
  <2>2. exp' = exp /\ pc' = pc /\ pc[g] = "cascade"
    BY <1>5 DEF Cascade
  <2>3. q \in DependsOn[r]
    BY <1>0, <2>1, <2>2 DEF Ripe, SetRunStatus
  <2>4. q # r
    BY <1>0, <2>1 DEF SetRunStatus, Ripe
  <2>5. seen[g] \in [Runs -> RunStatus] /\ seen[g][r] = "pending"
    BY <1>0, <2>2 DEF InHand, HandOf
  <2>6. seen'[g] = [seen[g] EXCEPT ![q] = "failed"]
    BY <1>0, <2>1
  <2>7. Decides(seen'[g], r)
    BY <2>3, <2>4, <2>5, <2>6 DEF Decides
  <2> QED BY <2>2, <2>7 DEF Covers, Decides
<1>6. ASSUME NEW g \in Goro, StartWrite(g) PROVE FALSE
  <2>1. PICK q \in Runs : SetRunStatus(q, "running")
    BY <1>0, <1>6 DEF StartWrite
  <2> QED BY <1>0, <1>2, <1>6, <2>1 DEF StartWrite, SetRunStatus, Terminal
<1>7. ASSUME NEW g \in Goro, FinalizeExperiment(g) PROVE FALSE
  BY <1>1, <1>7 DEF FinalizeExperiment, Verdict
<1>8. ASSUME NEW g \in Goro,
             StartExperiment(g) \/ OperatorStart(g) \/ ListRuns(g) \/ CascadeDone(g)
               \/ StartGet(g) \/ RecoverList(g) \/ RecoverDone(g)
      PROVE  FALSE
  BY <1>1, <1>8 DEF StartExperiment, OperatorStart, ListRuns, CascadeDone, StartGet,
                    RecoverList, RecoverDone
<1>9. ASSUME NEW g \in Goro, RecoverRun(g) \/ StartFails(g) \/ Disconnect(g) \/ Crash(g) PROVE FALSE
  BY <1>9 DEF Calm, IInv, Boundaries, RecoverRun, StartFails, Disconnect, Crash
<1>10. ASSUME NEW q \in Runs, RunEnds(q) \/ OperatorStop(q) PROVE \E h \in Goro : Covers(h, r)'
  <2>1. PICK a \in Advancers : Goto(a, "list")
    BY <1>10 DEF RunEnds, OperatorStop, StopRun
  <2>2. a \in Goro /\ pc'[a] = "list"
    BY <1>0, <2>1 DEF Goro
  <2> QED BY <2>2 DEF Covers
<1>11. ASSUME NEW q \in Runs, RunEndsAgain(q) \/ Pause(q) \/ Resume(q) PROVE FALSE
  BY <1>0, <1>2, <1>11 DEF RunEndsAgain, Pause, Resume, SetRunStatus, Terminal
<1> QED BY <1>3, <1>4, <1>5, <1>6, <1>7, <1>8, <1>9, <1>10, <1>11 DEF Next, Step

LEMMA WakeStep ==
  ASSUME Calm, WakeInv, [Next]_vars
  PROVE  WakeInv'
<1>1. IInv' /\ InHand'
  BY IInvStep, InHandStep DEF WakeInv
<1>2. ASSUME NEW r \in Runs, exp' = "running", Ripe(r)' PROVE \E g \in Goro : Covers(g, r)'
  <2>1. status[r] = "pending" /\ status'[r] = "pending"
    BY <1>2, Growth DEF WakeInv, IInv, Ripe
  <2>2. CASE exp = "running" /\ Ripe(r)
    <3>1. PICK g \in Goro : Covers(g, r)
      BY <2>2 DEF WakeInv, RipeCovered
    <3> QED BY <2>1, <2>2, <3>1, CoverStays DEF WakeInv
  <2>3. CASE ~(exp = "running" /\ Ripe(r))
    BY <1>2, <2>1, <2>3, CoverBegins DEF WakeInv
  <2> QED BY <2>2, <2>3
<1> QED BY <1>1, <1>2 DEF WakeInv, RipeCovered

(* While an experiment is running, a run whose dependencies have all ended *)
(* is never forgotten: for any run graph, any number of overlapping        *)
(* StartExperiment calls and advance goroutines, and whatever an operator  *)
(* starts, stops, pauses and resumes meanwhile, as long as no start fails, *)
(* no caller hangs up and the process does not crash.                      *)
THEOREM NoReadyRunWaitsHolds ==
  ASSUME Boots = {}, "start" \notin Faults, "disconnect" \notin Faults
  PROVE  Spec => []NoReadyRunWaits
<1>1. Calm
  BY DEF Calm
<1>2. Init => WakeInv
  BY IInvInit DEF Init, WakeInv, InHand, HandOf, RipeCovered, Goro
<1>3. WakeInv /\ [Next]_vars => WakeInv'
  BY <1>1, WakeStep
<1>4. WakeInv => NoReadyRunWaits
  <2> SUFFICES ASSUME WakeInv, exp = "running", Quiescent, NEW r \in Runs, status[r] = "pending",
                      \A d \in DependsOn[r] : status[d] \in Terminal
               PROVE  FALSE
    BY DEF NoReadyRunWaits
  <2>1. PICK g \in Goro : Covers(g, r)
    BY DEF WakeInv, RipeCovered, Ripe
  <2> QED BY <2>1 DEF Covers, Quiescent, Live
<1> QED BY <1>2, <1>3, <1>4, PTL DEF Spec
=============================================================================
