---------------------------- MODULE PolicyEngine ----------------------------
(***************************************************************************)
(* The policy engine (internal/policy): a goroutine that wakes up at every *)
(* tick, lists the enabled policies and takes them one by one: it queries  *)
(* the policy's metric and, if the condition is met and the cooldown has   *)
(* elapsed, stamps the policy and carries out its action.  The stamps are  *)
(* in memory only; after a restart the first tick is skipped instead.      *)
(*                                                                         *)
(* Time is counted in units of Elapse and passes between any two steps.    *)
(***************************************************************************)
EXTENDS Integers, FiniteSets

CONSTANTS
  Policies,
  Cooldown,   \* Cooldown[p], in units of time
  Interval,   \* between two ticks: 10 seconds in the code
  Kind,       \* Kind[p]: "push_rules", "clear_rules" or "other"
  Flaky,      \* policies whose metric or rules may fail to be read
  MaxBoots,   \* restarts of the process (bound)
  Faults      \* "list": listing the policies may fail

ConstantsOK ==
  /\ Interval \in Nat \ {0} /\ MaxBoots \in Nat /\ Cooldown \in [Policies -> Nat]
  /\ Kind \in [Policies -> {"push_rules", "clear_rules", "other"}]
  /\ Flaky \subseteq Policies /\ Faults \subseteq {"list"}

VARIABLES
  stored, enabled, \* the policy_rules table: its rows, the enabled ones
  met,             \* policies whose condition the metric meets by now
  timer, pending,  \* the ticker: time since it last fired, a tick in its channel
  grace,           \* firstTick
  age,             \* time.Since(lastFiredAt[p]), counted up to Cooldown[p]
  pc, todo, cur,   \* the loop: where it is, the policies left, the one in hand
  boots,           \* how often the process has been restarted
  since, up        \* history: time since p was last stamped by any process,
                   \*   and since this process started (up to two intervals)

table  == <<stored, enabled>>
clock  == <<timer, pending, age, since, up>>
loop   == <<pc, todo, cur>>
vars   == <<stored, enabled, met, timer, pending, grace, age, pc, todo, cur, boots, since, up>>

Grace == 2 * Interval
Least(m, n) == IF m <= n THEN m ELSE n

TypeOK ==
  /\ stored \subseteq Policies /\ enabled \subseteq stored /\ met \subseteq Policies
  /\ timer \in 0 .. Interval - 1 /\ pending \in BOOLEAN /\ grace \in BOOLEAN
  /\ pc \in {"select", "list", "evaluate", "check", "execute", "push"}
  /\ todo \subseteq Policies /\ cur \in SUBSET Policies /\ boots \in 0 .. MaxBoots
  /\ age \in [Policies -> Nat] /\ since \in [Policies -> Nat] /\ up \in Nat

(* A policy that never fired has the zero time for its stamp: its cooldown *)
(* has elapsed, whatever it is.                                            *)
Init ==
  /\ stored \in SUBSET Policies /\ enabled = stored /\ met \in SUBSET Policies
  /\ timer = 0 /\ pending = FALSE /\ grace = TRUE
  /\ age = Cooldown /\ since = Cooldown /\ up = 0
  /\ pc = "select" /\ todo = {} /\ cur = {} /\ boots = 0

-----------------------------------------------------------------------------
(* Time passes; the ticker's channel holds one tick and drops the others.  *)
Older(t) == [p \in Policies |-> Least(t[p] + 1, Cooldown[p])]

Elapse ==
  /\ IF timer + 1 < Interval
     THEN timer' = timer + 1 /\ UNCHANGED pending
     ELSE timer' = 0 /\ pending' = TRUE
  /\ age' = Older(age) /\ since' = Older(since) /\ up' = Least(up + 1, Grace)
  /\ UNCHANGED <<table, met, grace, loop, boots>>

(* The metric moves; NaN, an infinity or a missing value meet no condition.*)
MetricMoves(p) ==
  /\ met' = IF p \in met THEN met \ {p} ELSE met \cup {p}
  /\ UNCHANGED <<table, clock, grace, loop, boots>>

(* The API on single rows.                                                 *)
Create(p) ==
  /\ p \notin stored
  /\ stored' = stored \cup {p} /\ enabled' \in {enabled, enabled \cup {p}}
  /\ UNCHANGED <<met, clock, grace, loop, boots>>

SetEnabled(p) ==
  /\ p \in stored
  /\ enabled' \in {enabled \ {p}, enabled \cup {p}}
  /\ UNCHANGED <<stored, met, clock, grace, loop, boots>>

Delete(p) ==
  /\ p \in stored
  /\ stored' = stored \ {p} /\ enabled' = enabled \ {p}
  /\ UNCHANGED <<met, clock, grace, loop, boots>>

-----------------------------------------------------------------------------
(* Mutant: no grace after a restart.                                       *)
TakeAnyTick ==
  /\ pc = "select" /\ pending /\ pending' = FALSE
  /\ grace' = FALSE
  /\ pc' = "list"
  /\ UNCHANGED <<table, met, timer, age, since, up, todo, cur, boots>>

TakeTick ==
  /\ pc = "select" /\ pending /\ pending' = FALSE
  /\ grace' = FALSE
  /\ pc' = IF grace THEN "select" ELSE "list"
  /\ UNCHANGED <<table, met, timer, age, since, up, todo, cur, boots>>

ListEnabled ==
  /\ pc = "list"
  /\ \/ pc' = "evaluate" /\ todo' = enabled
     \/ "list" \in Faults /\ pc' = "select" /\ UNCHANGED todo
  /\ UNCHANGED <<table, met, clock, grace, cur, boots>>

(* The loop goes on to l, with p in hand until its turn is over.           *)
Turn(p, l) == pc' = l /\ cur' = IF l = "evaluate" THEN {} ELSE {p}

(* Mutant: the first error ends the tick.                                  *)
EvaluateOrGiveUp(p) ==
  /\ pc = "evaluate" /\ p \in todo
  /\ \/ todo' = todo \ {p} /\ Turn(p, IF p \in met THEN "check" ELSE "evaluate")
     \/ p \in Flaky /\ todo' = {} /\ Turn(p, "evaluate")
  /\ UNCHANGED <<table, met, clock, grace, boots>>

(* QueryInstant and Met.  An error is logged, and the next policy's turn   *)
(* comes.                                                                  *)
Evaluate(p) ==
  /\ pc = "evaluate" /\ p \in todo /\ todo' = todo \ {p}
  /\ \/ Turn(p, IF p \in met THEN "check" ELSE "evaluate")
     \/ p \in Flaky /\ Turn(p, "evaluate")
  /\ UNCHANGED <<table, met, clock, grace, boots>>

(* Under e.mu: the cooldown and, before the action, the stamp.             *)
Fire(p) ==
  /\ pc = "check" /\ p \in cur /\ age[p] >= Cooldown[p]
  /\ age' = [age EXCEPT ![p] = 0] /\ since' = [since EXCEPT ![p] = 0]
  /\ Turn(p, CASE Kind[p] = "push_rules" -> "execute"
                [] Kind[p] = "clear_rules" -> "push"
                [] OTHER -> "evaluate")
  /\ UNCHANGED <<table, met, timer, pending, up, grace, todo, boots>>

CoolingDown(p) ==
  /\ pc = "check" /\ p \in cur /\ age[p] < Cooldown[p]
  /\ Turn(p, "evaluate")
  /\ UNCHANGED <<table, met, clock, grace, todo, boots>>

(* loadCompiledRules, one query per rule; if it fails the stamp stays.     *)
LoadRules(p) ==
  /\ pc = "execute" /\ p \in cur
  /\ \/ Turn(p, "push")
     \/ p \in Flaky /\ Turn(p, "evaluate")
  /\ UNCHANGED <<table, met, clock, grace, todo, boots>>

(* controller.PushRules, of the compiled rules or of none.                 *)
PushRules(p) ==
  /\ pc = "push" /\ p \in cur
  /\ Turn(p, "evaluate")
  /\ UNCHANGED <<table, met, clock, grace, todo, boots>>

TickDone ==
  /\ pc = "evaluate" /\ todo = {}
  /\ pc' = "select"
  /\ UNCHANGED <<table, met, clock, grace, todo, cur, boots>>

(* The process dies and comes up again with a new engine and a new ticker. *)
Restart ==
  /\ boots < MaxBoots /\ boots' = boots + 1
  /\ timer' = 0 /\ pending' = FALSE /\ grace' = TRUE
  /\ age' = Cooldown /\ up' = 0
  /\ pc' = "select" /\ todo' = {} /\ cur' = {}
  /\ UNCHANGED <<table, met, since>>

Handle(p) == Evaluate(p) \/ Fire(p) \/ CoolingDown(p) \/ LoadRules(p) \/ PushRules(p)
Operator(p) == MetricMoves(p) \/ Create(p) \/ SetEnabled(p) \/ Delete(p)

Next ==
  \/ Elapse \/ TakeTick \/ ListEnabled \/ TickDone \/ Restart
  \/ \E p \in Policies : Handle(p) \/ Operator(p)

Spec == Init /\ [][Next]_vars

(* Time passes and the engine runs; not every listing fails.               *)
Fairness ==
  /\ WF_vars(Elapse) /\ WF_vars(TakeTick) /\ WF_vars(TickDone)
  /\ SF_vars(ListEnabled /\ pc' = "evaluate")
  /\ \A p \in Policies : WF_vars(Handle(p))

LiveSpec == Spec /\ Fairness

-----------------------------------------------------------------------------
(* A policy does not fire again within its cooldown, restarts included, as *)
(* long as the cooldown is no longer than the two intervals that the first *)
(* tick's grace adds up to: what the comment of Run is about.              *)
CooldownHeld ==
  [][\A p \in Policies : Fire(p) => since[p] >= Least(Cooldown[p], Grace)]_vars

(* One policy's failing query or rules do not keep another from acting: it *)
(* acts again and again while it is enabled and its condition holds.       *)
HealthyPolicyActs ==
  \A p \in Policies \ Flaky :
    Kind[p] # "other" /\ <>[](p \in enabled \cap met) => []<><<PushRules(p)>>_vars

(* The whole cooldown, restarts included.                                  *)
FullCooldownHeld ==
  [][\A p \in Policies : Fire(p) => since[p] >= Cooldown[p]]_vars
=============================================================================
