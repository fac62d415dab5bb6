---------------------------- MODULE FaultDelivery ----------------------------
(***************************************************************************)
(* Long-running faults and their delivery.  An operator fires, cancels and *)
(* deletes fault configs; a reaper completes those whose duration elapsed; *)
(* SDK instances learn of it by polling.  A poll carries the version the   *)
(* instance last received and is answered 304 when rule_version has not    *)
(* moved, so every change of what an instance should apply has to be       *)
(* followed by a bump.  Handlers, reaper and polls run concurrently, each  *)
(* SQL statement a step of its own.                                        *)
(***************************************************************************)
EXTENDS Integers, FiniteSets

CONSTANTS
  Configs,    \* fault config IDs
  Finite,     \* those with duration_ms > 0
  Composite,  \* those with a fault_composition_id
  SDKs,       \* SDK instances
  Service,    \* Service[x]: the service of a config or of an instance
  Calls,      \* API requests (bound)
  Ops,        \* what the requests may ask for
  Faults      \* which failures may happen

ASSUME ConfigAssumption == Finite \subseteq Configs /\ Composite \subseteq Configs
ASSUME OpsAssumption == Ops \subseteq {"create", "fire", "cancel", "delete", "rule", "spec"}
ASSUME FaultAssumption ==
  Faults \subseteq {"disconnect", "crash", "lost", "restart", "list"}

VARIABLES
  status, expired,   \* fault_configs rows; expired: fired_at + duration_ms <= now()
  version,           \* the rule_version row
  rules, edited,     \* what rules and fault specs compile to: how often rewritten;
                     \*   the version when a spec was last edited, -1 for never
  silent,            \* history: the version when a fault was last fired, ended or
                     \*   deleted and nobody is left to bump for it, -1 for never
  pc, arg,           \* API handlers: where each is, the config it is about
  toReap, reaped,    \* the reaper: what it listed and has yet to mark, what it marked
  held,              \* SDK instance: the version it last received,
  applied, compiled, \*   the faults and the rules it applies,
  poll,              \*   its request in progress
  blind              \* history: instances whose faults could not be read for the
                     \*   last reply

rows     == <<status, expired, version, rules, edited, silent>>
handlers == <<pc, arg>>
reaper   == <<toReap, reaped>>
sdk      == <<held, applied, compiled, poll, blind>>
vars     == <<status, expired, version, rules, edited, silent, pc, arg, toReap, reaped,
              held, applied, compiled, poll, blind>>

ConfigStatus == {"ready", "active", "completed", "cancelled", "absent"}
Polls == [at: {"idle", "faults", "rules", "reply", "registering", "registered"},
          version: Nat, faults: SUBSET Configs, rules: Nat]
Reply(l, v, F, n) == [at |-> l, version |-> v, faults |-> F, rules |-> n]
NoPoll == Reply("idle", 0, {}, 0)

TypeOK ==
  /\ status \in [Configs -> ConfigStatus] /\ expired \subseteq Configs
  /\ version \in Nat /\ rules \in Nat /\ edited \in Int /\ silent \in Int
  /\ pc \in [Calls -> {"idle", "fire", "cancel", "bump", "done"}]
  /\ arg \in [Calls -> Configs]
  /\ toReap \subseteq Configs /\ reaped \subseteq Configs
  /\ held \in [SDKs -> Nat] /\ applied \in [SDKs -> SUBSET Configs]
  /\ compiled \in [SDKs -> Nat] /\ poll \in [SDKs -> Polls]
  /\ blind \subseteq SDKs

Init ==
  /\ status \in [Configs -> {"absent", "ready"}] /\ expired = {}
  /\ version = 0 /\ rules = 0 /\ edited = -1 /\ silent = -1
  /\ pc = [c \in Calls |-> "idle"] /\ arg \in [Calls -> Configs]
  /\ toReap = {} /\ reaped = {}
  /\ held = [s \in SDKs |-> 0] /\ applied = [s \in SDKs |-> {}]
  /\ compiled = [s \in SDKs |-> 0] /\ poll = [s \in SDKs |-> NoPoll]
  /\ blind = {}

(* The query of ListActiveForService.                                      *)
Active(f)   == status[f] = "active"
Of(s)       == {f \in Configs : Service[f] = Service[s]}
ActiveOf(s) == {f \in Of(s) : Active(f)}
Desired(s)  == ActiveOf(s) \ expired
CanFire(f)  == ~Active(f)

BumpVersion == version' = version + 1

-----------------------------------------------------------------------------
(* API handlers.                                                           *)

Goto(c, l) == pc' = [pc EXCEPT ![c] = l]

(* Get and the checks on what it returned; a refused request just ends.    *)
FireGet(c) ==
  /\ pc[c] = "idle" /\ "fire" \in Ops
  /\ status[arg[c]] # "absent"
  /\ CanFire(arg[c]) /\ arg[c] \notin Composite
  /\ Goto(c, "fire") /\ UNCHANGED <<rows, arg, reaper, sdk>>

CancelGet(c) ==
  /\ pc[c] = "idle" /\ "cancel" \in Ops
  /\ Active(arg[c])
  /\ Goto(c, "cancel") /\ UNCHANGED <<rows, arg, reaper, sdk>>

(* The UPDATEs test nothing but the id: a row deleted meanwhile is a 404   *)
(* that ends the handler.                                                  *)
MarkFired(c) ==
  LET f == arg[c] IN
  /\ pc[c] = "fire"
  /\ IF status[f] = "absent"
     THEN Goto(c, "done") /\ UNCHANGED <<status, expired>>
     ELSE /\ status' = [status EXCEPT ![f] = "active"]
          /\ expired' = expired \ {f}
          /\ Goto(c, "bump")
  /\ UNCHANGED <<version, rules, edited, silent, arg, reaper, sdk>>

MarkCancelled(c) ==
  LET f == arg[c] IN
  /\ pc[c] = "cancel"
  /\ IF status[f] = "absent"
     THEN Goto(c, "done") /\ UNCHANGED status
     ELSE /\ status' = [status EXCEPT ![f] = "cancelled"]
          /\ Goto(c, "bump")
  /\ UNCHANGED <<expired, version, rules, edited, silent, arg, reaper, sdk>>

HandlerBump(c) ==
  /\ pc[c] = "bump" /\ BumpVersion
  /\ Goto(c, "done") /\ UNCHANGED <<status, expired, rules, edited, silent, arg, reaper, sdk>>

(* INSERT of a ready config: nothing for an instance to apply yet.         *)
CreateConfig(c) ==
  /\ pc[c] = "idle" /\ "create" \in Ops
  /\ status[arg[c]] = "absent"
  /\ status' = [status EXCEPT ![arg[c]] = "ready"]
  /\ Goto(c, "done") /\ UNCHANGED <<expired, version, rules, edited, silent, arg, reaper, sdk>>

(* DELETE of the row, and nothing after it.                                *)
DeleteConfig(c) ==
  /\ pc[c] = "idle" /\ "delete" \in Ops
  /\ status[arg[c]] # "absent"
  /\ status' = [status EXCEPT ![arg[c]] = "absent"]
  /\ silent' = IF Active(arg[c]) THEN version ELSE silent
  /\ Goto(c, "done") /\ UNCHANGED <<expired, version, rules, edited, arg, reaper, sdk>>

(* Mutant: the rule is committed first, the version bumped afterwards.     *)
WriteRuleThenBump(c) ==
  /\ pc[c] = "idle" /\ "rule" \in Ops
  /\ rules' = rules + 1
  /\ Goto(c, "bump") /\ UNCHANGED <<status, expired, version, edited, silent, arg, reaper, sdk>>

(* RuleRepo's Create, Update and Delete: one transaction with the bump.    *)
WriteRule(c) ==
  /\ pc[c] = "idle" /\ "rule" \in Ops
  /\ rules' = rules + 1 /\ BumpVersion
  /\ Goto(c, "done") /\ UNCHANGED <<status, expired, edited, silent, arg, reaper, sdk>>

(* A spec is compiled into the rules that name it, and bumps nothing.      *)
UpdateSpec(c) ==
  /\ pc[c] = "idle" /\ "spec" \in Ops
  /\ rules > 0
  /\ rules' = rules + 1 /\ edited' = version
  /\ Goto(c, "done") /\ UNCHANGED <<status, expired, version, silent, arg, reaper, sdk>>

(* The client goes away: the next statement under the request's context    *)
(* fails, and the bump's failure is only logged.                           *)
Disconnect(c) ==
  /\ "disconnect" \in Faults
  /\ pc[c] \in {"fire", "cancel", "bump"}
  /\ silent' = IF pc[c] = "bump" THEN version ELSE silent
  /\ Goto(c, "done")
  /\ UNCHANGED <<status, expired, version, rules, edited, arg, reaper, sdk>>

-----------------------------------------------------------------------------
(* The reaper: one tick lists, marks each listed config, and bumps once if *)
(* it marked any.                                                          *)

Expire(f) ==
  /\ f \in Finite /\ Active(f) /\ f \notin expired
  /\ expired' = expired \cup {f}
  /\ UNCHANGED <<status, version, rules, edited, silent, handlers, reaper, sdk>>

ListExpired ==
  LET late == {f \in Configs : Active(f) /\ f \in expired} IN
  /\ toReap = {} /\ reaped = {} /\ late # {}
  /\ toReap' = late
  /\ UNCHANGED <<rows, handlers, reaped, sdk>>

(* Mutant: a reaper that does not bump.                                    *)
ReaperForgets ==
  /\ toReap = {} /\ reaped # {} /\ reaped' = {}
  /\ UNCHANGED <<rows, handlers, toReap, sdk>>

MarkCompleted(f) ==
  /\ f \in toReap
  /\ toReap' = toReap \ {f}
  /\ IF status[f] = "absent"
     THEN UNCHANGED <<status, reaped>>
     ELSE status' = [status EXCEPT ![f] = "completed"] /\ reaped' = reaped \cup {f}
  /\ UNCHANGED <<expired, version, rules, edited, silent, handlers, sdk>>

ReaperBump ==
  /\ toReap = {} /\ reaped # {}
  /\ BumpVersion /\ reaped' = {}
  /\ UNCHANGED <<status, expired, rules, edited, silent, handlers, toReap, sdk>>

-----------------------------------------------------------------------------
(* Polling.  The version is read first and goes into the reply; the faults *)
(* and the rules are read after it.                                        *)

Polling(s, p) == poll' = [poll EXCEPT ![s] = p]

(* At equal versions the answer is 304 and the poll is over.               *)
ReadVersion(s) ==
  /\ poll[s].at = "idle" /\ held[s] # version
  /\ Polling(s, Reply("faults", version, {}, 0))
  /\ UNCHANGED <<rows, handlers, reaper, held, applied, compiled, blind>>

(* ListActiveForService; when it fails the reply carries no faults.        *)
ActiveFaultsForService(s) ==
  /\ \E F \in {Desired(s)} \cup (IF "list" \in Faults THEN {{}} ELSE {}) :
       /\ \/ poll[s].at = "faults" /\ Polling(s, Reply("rules", poll[s].version, F, 0))
          \/ poll[s].at = "registering" /\ Polling(s, Reply("registered", 0, F, 0))
       /\ blind' = IF F = Desired(s) THEN blind \ {s} ELSE blind \cup {s}
  /\ UNCHANGED <<rows, handlers, reaper, held, applied, compiled>>

(* Mutant: the reply carries the version read last.                        *)
ReadRulesThenVersion(s) ==
  /\ poll[s].at = "rules"
  /\ Polling(s, Reply("reply", version, poll[s].faults, rules))
  /\ UNCHANGED <<rows, handlers, reaper, held, applied, compiled, blind>>

ReadRules(s) ==
  /\ poll[s].at = "rules"
  /\ Polling(s, Reply("reply", poll[s].version, poll[s].faults, rules))
  /\ UNCHANGED <<rows, handlers, reaper, held, applied, compiled, blind>>

(* The SDK takes the reply's faults for all it should apply.  The answer   *)
(* to a registration has no version and none of the stored rules.          *)
Receive(s) ==
  /\ poll[s].at \in {"reply", "registered"}
  /\ applied' = [applied EXCEPT ![s] = poll[s].faults]
  /\ IF poll[s].at = "reply"
     THEN /\ held' = [held EXCEPT ![s] = poll[s].version]
          /\ compiled' = [compiled EXCEPT ![s] = poll[s].rules]
     ELSE UNCHANGED <<held, compiled>>
  /\ Polling(s, NoPoll)
  /\ UNCHANGED <<rows, handlers, reaper, blind>>

Lose(s) ==
  /\ "lost" \in Faults /\ poll[s].at \in {"reply", "faults", "rules"}
  /\ Polling(s, NoPoll)
  /\ UNCHANGED <<rows, handlers, reaper, held, applied, compiled, blind>>

(* An instance comes back empty, and registers before its first poll,      *)
(* which names no version: 0 to ParseUint.                                 *)
Register(s) ==
  /\ "restart" \in Faults
  /\ Polling(s, Reply("registering", 0, {}, 0))
  /\ held' = [held EXCEPT ![s] = 0]
  /\ applied' = [applied EXCEPT ![s] = {}]
  /\ compiled' = [compiled EXCEPT ![s] = 0] /\ blind' = blind \ {s}
  /\ UNCHANGED <<rows, handlers, reaper>>

(* A change of the desired state that has not been bumped yet, by someone  *)
(* who still will; and all of them bumped.                                 *)
BumpPending == reaped # {} \/ \E c \in Calls : pc[c] = "bump"
Announced   == ~BumpPending /\ silent # version

(* The server dies: what its goroutines were about to do is not done.      *)
Crash ==
  /\ "crash" \in Faults
  /\ \/ \E c \in Calls : pc[c] \notin {"idle", "done"}
     \/ toReap # {} \/ reaped # {}
  /\ pc' = [c \in Calls |-> IF pc[c] = "idle" THEN "idle" ELSE "done"]
  /\ toReap' = {} /\ reaped' = {}
  /\ poll' = [s \in SDKs |-> NoPoll]
  /\ silent' = IF BumpPending THEN version ELSE silent
  /\ UNCHANGED <<status, expired, version, rules, edited, arg, held, applied, compiled, blind>>

Handler(c) == MarkFired(c) \/ MarkCancelled(c) \/ HandlerBump(c)
Call(c)    == \/ FireGet(c) \/ CancelGet(c) \/ CreateConfig(c) \/ DeleteConfig(c)
              \/ WriteRule(c) \/ UpdateSpec(c)
Reaper     == ListExpired \/ ReaperBump \/ \E f \in Configs : MarkCompleted(f)
Poll(s)    == ReadVersion(s) \/ ActiveFaultsForService(s) \/ ReadRules(s) \/ Receive(s)

Next ==
  \/ \E c \in Calls : Call(c) \/ Handler(c) \/ Disconnect(c)
  \/ \E f \in Configs : Expire(f)
  \/ Reaper
  \/ \E s \in SDKs : Poll(s) \/ Lose(s) \/ Register(s)
  \/ Crash

Spec == Init /\ [][Next]_vars

(* Handlers and the reaper keep going, time passes, and instances poll for *)
(* ever: a poll may fail at any point, but not every poll there.           *)
Fairness ==
  /\ \A c \in Calls : WF_vars(Handler(c))
  /\ \A f \in Configs : WF_vars(Expire(f))
  /\ WF_vars(Reaper)
  /\ \A s \in SDKs :
       /\ SF_vars(ReadVersion(s)) /\ SF_vars(ActiveFaultsForService(s))
       /\ SF_vars(ReadRules(s)) /\ SF_vars(Receive(s))

LiveSpec == Spec /\ Fairness

-----------------------------------------------------------------------------
(* ListActiveForService leaves out an expired fault before the reaper has  *)
(* bumped for it: an instance may apply it until then.                     *)
FaultsMatch(s, faults) == Desired(s) \subseteq faults /\ faults \subseteq ActiveOf(s)

(* An instance that will be told 304 already applies the faults it should, *)
(* as long as nobody is between a change and its bump: what the comments   *)
(* of BumpVersion and of handlePollRules promise.  What goes wrong without *)
(* a word - a fault deleted, a handler that died before its bump, a query  *)
(* of the faults that failed - is put right by the next bump, whoever's.   *)
FaultsConverged ==
  \A s \in SDKs \ blind : held[s] = version /\ Announced => FaultsMatch(s, applied[s])

(* For the rules there is no such gap, whatever fails: a rule is written   *)
(* in one transaction with its bump, and a 304 means the rules are         *)
(* current, unless a spec they name was edited after the last bump.        *)
Unannounced == edited = version

RulesConverged ==
  \A s \in SDKs : held[s] = version /\ ~Unannounced => compiled[s] = rules

(* What polling is for: once the operators are quiet, every instance comes *)
(* to apply exactly what the tables say, and keeps to it.                  *)
Converges ==
  <>[](\A s \in SDKs : applied[s] = Desired(s) /\ (Unannounced \/ compiled[s] = rules))

(* The same of the rules without that exception: what a 304 is documented  *)
(* to mean ("no rule changes since requested version").                    *)
NotModifiedMeansCurrent ==
  \A s \in SDKs : held[s] = version => compiled[s] = rules

(* A fault stays active until its duration elapses, unless it is           *)
(* cancelled: nothing else completes it.                                   *)
ReapsOnlyExpired ==
  [][\A f \in Configs :
       Active(f) /\ status'[f] = "completed" => f \in expired]_vars

(* A fault that has completed was not cancelled, and the other way round.  *)
EndsOneWay ==
  [][\A f \in Configs :
       status[f] \in {"completed", "cancelled"} => status'[f] \in {status[f], "active", "absent"}]_vars
=============================================================================
