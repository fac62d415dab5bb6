------------------------------ MODULE RulePush ------------------------------
(***************************************************************************)
(* The controller that reaches the SDK instances of one service            *)
(* (internal/atrocontrol): an operation records the service's intent in    *)
(* memory, lists the instances that are alive and calls them, a bounded    *)
(* number at a time and each with a timeout.  Instances that register      *)
(* later (api/sdk_handler.go) are told the intent in the reply.            *)
(***************************************************************************)
EXTENDS Integers, FiniteSets

CONSTANTS
  Instances,   \* the instance IDs of the service
  Ops,         \* controller operations; each happens at most once (bound)
  Concurrency, \* operations of a fan-out in flight at a time: 16 in the code
  Hung,        \* instances that accept a connection and never answer
  Starts,      \* how often an instance's process starts (bound)
  Faults       \* "resolve": the instances cannot be listed;
               \*   "silent": instances miss polls; "crash": the server restarts

ASSUME PushAssumption ==
  /\ Concurrency \in Nat \ {0} /\ Starts \in Nat
  /\ Hung \subseteq Instances /\ IsFiniteSet(Instances)
  /\ Faults \subseteq {"resolve", "silent", "crash"}

NoOp == "none"
ASSUME NoOpAssumption == NoOp \notin Ops

VARIABLES
  intent,    \* the operation whose payload is the service's intent
  row, age,  \* sdk_instances: its rows; time since last_poll_at, in classes
  proc,      \* what each instance's process does: down, its registration, up
  told,      \* the intent its registration was answered with
  left,      \* starts left
  pc,        \* where each operation is
  todo,      \* its targets not yet spawned
  inflight,  \* its goroutines
  seen       \* history: rows listed by the operation whose intent stands, less
             \*   those whose instance has registered since

store == <<row, age>>
inst  == <<proc, told, left>>
calls == <<pc, todo, inflight>>
vars  == <<intent, row, age, proc, told, left, pc, todo, inflight, seen>>

(* alive; stale or dead; dead for longer than the reaper's grace.          *)
Ages == 0 .. 2

(* Also: no fan-out ever has more than Concurrency calls in flight.        *)
TypeOK ==
  /\ intent \in Ops \cup {NoOp}
  /\ row \subseteq Instances /\ age \in [Instances -> Ages]
  /\ proc \in [Instances -> {"down", "request", "row", "up"}]
  /\ told \in [Instances -> Ops \cup {NoOp}] /\ left \in [Instances -> 0 .. Starts]
  /\ pc \in [Ops -> {"idle", "resolve", "fanout", "failed", "done"}]
  /\ seen \subseteq Instances
  /\ todo \in [Ops -> SUBSET Instances] /\ inflight \in [Ops -> SUBSET Instances]
  /\ \A o \in Ops :
       /\ todo[o] \cap inflight[o] = {}
       /\ Cardinality(inflight[o]) <= Concurrency

Init ==
  /\ intent = NoOp
  /\ row = {} /\ age = [i \in Instances |-> 0]
  /\ proc = [i \in Instances |-> "down"]
  /\ told = [i \in Instances |-> NoOp] /\ left = [i \in Instances |-> Starts]
  /\ pc = [o \in Ops |-> "idle"]
  /\ todo = [o \in Ops |-> {}] /\ inflight = [o \in Ops |-> {}]
  /\ seen = {}

-----------------------------------------------------------------------------
(* PushRules, with rules or (StopRun, clear_rules) with none: the intent   *)
(* first, then the targets.  InjectFault and FreezeService differ in what  *)
(* they record and send; ClearFault and ClearService record nothing.       *)
PushRules(o) ==
  /\ pc[o] = "idle"
  /\ intent' = o
  /\ pc' = [pc EXCEPT ![o] = "resolve"]
  /\ seen' = {}
  /\ UNCHANGED <<store, inst, todo, inflight>>

(* statusExpr and FilterAliveOrSuspect: of the rows, those that are alive. *)
Targets == {i \in row : age[i] = 0}

(* resolveTargets; with no target the operation returns an error.          *)
Resolve(o) ==
  /\ pc[o] = "resolve"
  /\ \/ /\ Targets # {}
        /\ todo' = [todo EXCEPT ![o] = Targets]
        /\ seen' = IF intent = o THEN row ELSE seen
        /\ pc' = [pc EXCEPT ![o] = "fanout"]
     \/ /\ Targets = {} \/ "resolve" \in Faults
        /\ pc' = [pc EXCEPT ![o] = "failed"]
        /\ UNCHANGED <<todo, seen>>
  /\ UNCHANGED <<intent, store, inst, inflight>>

(* sem <- struct{}{}, then the goroutine.                                  *)
Spawn(o, i) ==
  /\ pc[o] = "fanout" /\ i \in todo[o]
  /\ Cardinality(inflight[o]) < Concurrency
  /\ todo' = [todo EXCEPT ![o] = @ \ {i}]
  /\ inflight' = [inflight EXCEPT ![o] = @ \cup {i}]
  /\ UNCHANGED <<intent, store, inst, pc, seen>>

(* Mutant: no context.WithTimeout.                                         *)
CallEndsWithoutTimeout(o, i) ==
  /\ i \in inflight[o] /\ (proc[i] = "down" \/ i \notin Hung)
  /\ inflight' = [inflight EXCEPT ![o] = @ \ {i}]
  /\ UNCHANGED <<intent, store, inst, pc, todo, seen>>

(* The call is answered or refused, or its timeout passes.  Either way the *)
(* instance is counted and not called again.                               *)
CallEnds(o, i) ==
  /\ i \in inflight[o]
  /\ inflight' = [inflight EXCEPT ![o] = @ \ {i}]
  /\ UNCHANGED <<intent, store, inst, pc, todo, seen>>

(* wg.Wait returns.                                                        *)
Return(o) ==
  /\ pc[o] = "fanout" /\ todo[o] = {} /\ inflight[o] = {}
  /\ pc' = [pc EXCEPT ![o] = "done"]
  /\ UNCHANGED <<intent, store, inst, todo, inflight, seen>>

-----------------------------------------------------------------------------
(* The instances.  A process starts, registers under its ID and polls.     *)
Start(i) ==
  /\ proc[i] = "down" /\ left[i] > 0
  /\ proc' = [proc EXCEPT ![i] = "request"]
  /\ left' = [left EXCEPT ![i] = @ - 1]
  /\ told' = [told EXCEPT ![i] = NoOp]
  /\ UNCHANGED <<intent, store, calls, seen>>

(* Mutant: the intent is read before the row is written.                   *)
RegisterReadFirst(i) ==
  \/ /\ proc[i] = "request"
     /\ told' = [told EXCEPT ![i] = intent]
     /\ proc' = [proc EXCEPT ![i] = "read"]
     /\ UNCHANGED <<intent, store, left, calls, seen>>
  \/ /\ proc[i] = "read"
     /\ row' = row \cup {i} /\ age' = [age EXCEPT ![i] = 0]
     /\ seen' = seen \ {i}
     /\ proc' = [proc EXCEPT ![i] = "up"]
     /\ UNCHANGED <<intent, told, left, pc, todo, inflight>>

(* handleRegister: the row is inserted or refreshed, then the intent read. *)
RegisterRow(i) ==
  /\ proc[i] = "request"
  /\ row' = row \cup {i} /\ age' = [age EXCEPT ![i] = 0]
  /\ seen' = seen \ {i}
  /\ proc' = [proc EXCEPT ![i] = "row"]
  /\ UNCHANGED <<intent, told, left, pc, todo, inflight>>

(* The intent is looked up twice: for its rules (handleRegister), then for *)
(* its fault and freeze (activeFaultsForService).  An operation records one*)
(* of them, for which one of the two lookups counts: this step is that one.*)
RegisterIntent(i) ==
  /\ proc[i] = "row"
  /\ told' = [told EXCEPT ![i] = intent]
  /\ proc' = [proc EXCEPT ![i] = "up"]
  /\ UNCHANGED <<intent, store, left, calls, seen>>

(* The reply is lost and the process registers again.                      *)
LoseReply(i) ==
  /\ proc[i] = "row"
  /\ proc' = [proc EXCEPT ![i] = "request"]
  /\ UNCHANGED <<intent, store, told, left, calls, seen>>

(* A process dies, at any moment; or leaves (handleDeregister).            *)
Die(i) ==
  /\ proc[i] # "down"
  /\ proc' = [proc EXCEPT ![i] = "down"]
  /\ UNCHANGED <<intent, store, told, left, calls, seen>>

Deregister(i) ==
  /\ proc[i] = "up" /\ proc' = [proc EXCEPT ![i] = "down"]
  /\ row' = row \ {i}
  /\ UNCHANGED <<intent, age, told, left, calls, seen>>

(* handlePollRules touches the row, if it is still there.                  *)
TouchPoll(i) ==
  /\ proc[i] = "up" /\ i \in row
  /\ age' = [age EXCEPT ![i] = 0]
  /\ UNCHANGED <<intent, row, inst, calls, seen>>

(* Time passes with no poll of i: a process that is up keeps polling,      *)
(* unless instances may miss polls.                                        *)
Ageing(i) ==
  /\ proc[i] # "up" \/ "silent" \in Faults
  /\ i \in row /\ age[i] < 2
  /\ age' = [age EXCEPT ![i] = @ + 1]
  /\ UNCHANGED <<intent, row, inst, calls, seen>>

(* The reaper of main (if enabled).  A purged instance may still poll.     *)
PurgeDead ==
  /\ \E i \in row : age[i] = 2
  /\ row' = {i \in row : age[i] < 2}
  /\ UNCHANGED <<intent, age, inst, calls, seen>>

(* The server dies: its operations, registrations and intent are gone.     *)
Crash ==
  /\ "crash" \in Faults
  /\ intent' = NoOp
  /\ pc' = [o \in Ops |-> IF pc[o] \in {"resolve", "fanout"} THEN "failed" ELSE pc[o]]
  /\ todo' = [o \in Ops |-> {}] /\ inflight' = [o \in Ops |-> {}]
  /\ seen' = {}
  /\ proc' = [i \in Instances |-> IF proc[i] = "row" THEN "request" ELSE proc[i]]
  /\ UNCHANGED <<store, told, left>>

Proceed(o) ==
  \/ Resolve(o) \/ Return(o)
  \/ \E i \in Instances : Spawn(o, i) \/ CallEnds(o, i)

Instance(i) ==
  \/ Start(i) \/ RegisterRow(i) \/ RegisterIntent(i) \/ LoseReply(i) \/ Die(i) \/ Deregister(i)
  \/ TouchPoll(i) \/ Ageing(i)

Next ==
  \/ \E o \in Ops : PushRules(o) \/ Proceed(o)
  \/ \E i \in Instances : Instance(i)
  \/ PurgeDead \/ Crash

Spec == Init /\ [][Next]_vars

(* The goroutines of an operation run, and timeouts pass.                  *)
LiveSpec == Spec /\ \A o \in Ops : WF_vars(Proceed(o))

-----------------------------------------------------------------------------
(* Once an operation has come back from its fan-out, and as long as its    *)
(* intent stands, every instance that has a row was in the list it worked  *)
(* on or has been told the intent, by the registration of its present      *)
(* process ("Write intent before fan-out so late-joining registrations see *)
(* target state").                                                         *)
NobodyMissed ==
  \A o \in Ops : pc[o] \in {"fanout", "done"} /\ intent = o =>
    \A i \in row : i \in seen \/ told[i] = intent \/ proc[i] # "up"

(* A hung instance delays an operation, it does not hold it.               *)
OperationsReturn == \A o \in Ops : pc[o] = "resolve" ~> pc[o] \in {"failed", "done"}
=============================================================================
