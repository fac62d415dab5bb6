------------------------------ MODULE Services ------------------------------
(* Four components beside each other: the event broker, the policy engine, *)
(* a run's phase watcher and the servers' processes.  They do not meet     *)
(* here; each has constants and variables of its own.                      *)
EXTENDS EventBroker

CONSTANTS
  Policies, Cooldown, Kind, Flaky, MaxBoots, TickInterval, PolicyFaults,
  WatchInterval, Window, WatchFaults,
  Servers, Last, Repeatable, Requests, Long, MaxFailures, ProcessFaults

VARIABLES
  stored, enabled, met, pTimer, pPending, grace, pAge, pPc, pTodo, cur, boots, pSince, up,
  metric, wTimer, wPending, wPc, wHeld, wSince, cancelled, broken, read,
  applied, committed, sPc, m, wrote, sConn, by, failures

policyVars  == <<stored, enabled, met, pTimer, pPending, grace, pAge, pPc, pTodo, cur, boots, pSince, up>>
watchVars   == <<metric, wTimer, wPending, wPc, wHeld, wSince, cancelled, broken, read>>
processVars == <<applied, committed, sPc, m, wrote, sConn, by, failures>>

Policy == INSTANCE PolicyEngine WITH
  Interval <- TickInterval, Faults <- PolicyFaults,
  timer <- pTimer, pending <- pPending, age <- pAge, pc <- pPc, todo <- pTodo, since <- pSince

Watch == INSTANCE PhaseWatch WITH
  Interval <- WatchInterval, Faults <- WatchFaults,
  timer <- wTimer, pending <- wPending, pc <- wPc, held <- wHeld, since <- wSince

Process == INSTANCE ServerProcess WITH
  Faults <- ProcessFaults, pc <- sPc, conn <- sConn

-----------------------------------------------------------------------------
(* What each part promises, under the name it has there.                   *)

(* The cooldown of a policy holds across restarts (policy/engine.go).      *)
CooldownHeld == Policy!CooldownHeld

(* A failing policy does not keep another from acting (policy/engine.go).  *)
HealthyPolicyActs == Policy!HealthyPolicyActs

(* A condition holds over its whole window before it advances a phase      *)
(* (runner.go).                                                            *)
AdvanceIsEarned == Watch!AdvanceIsEarned

(* A cancelled watcher stops, and a condition that holds does advance the  *)
(* phase (runner.go).                                                      *)
WatcherEnds == Watch!WatcherEnds

(* The migrations are applied once, in their order, and before a server    *)
(* serves (db/migrations.go, main.go).                                     *)
SchemaIsWhole == Process!SchemaIsWhole
=============================================================================
