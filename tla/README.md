# Manteion in TLA+

Manteion is the control server of a fault-injection platform. Operators describe
*experiments* (graphs of *runs*, each a series of phases of fault rules with load
generated by Zeus) and *long-running fault configs*. SDK instances living in the
services under test register with Manteion, poll it for their rules and faults, and
are also called directly. A policy engine reacts to Prometheus metrics.

This directory holds TLA+ modules translated from the Go code under `internal/`, the
TLC configurations that check them on small instances, and TLAPS proofs of the
properties that matter most. Every module is written from the code, statement by
statement where goroutines interleave; `PROJECT.json` ties each definition to the
lines it stands for. The short references below name files under `src/internal/`.

    tlc -workers 2 -config RunRaces.cfg MCRunLifecycle     # one run
    tlapm RunLifecycleProofs.tla                           # one proof module

## 1. The system

| component (code) | state | operations | meets the others through | module |
|---|---|---|---|---|
| run lifecycle (`orchestrator/`) | row of `experiment_runs`, `workflow_run_results`; `o.running` | StartRun, PauseRun, ResumeRun, StopRun, Recover; goroutines `watchPhase`, `pollZeusStatus`, auto-complete | SQL, HTTP to Zeus, the rule controller, goroutines calling StopRun | `RunLifecycle`, `RunFSM` |
| experiment scheduler (`orchestrator.go`) | `experiments` row, statuses of all runs | StartExperiment, `advanceExperiment` | a goroutine spawned by every terminal transition of a run | `ExperimentDAG` |
| run graph validation (`model/experiment.go`) | none (a search) | ValidateRunGraph | StartExperiment calls it first | `RunGraph` |
| long-running faults (`api/fault_config_handler.go`, reaper) | `fault_configs`, `rule_version` | create, fire, cancel, delete, reap | the version row that polls compare | `FaultDelivery` |
| SDK polling (`api/sdk_handler.go`) | version, faults and rules held by each instance | GET rules, register | three reads per poll, no transaction | `FaultDelivery` |
| rule store (`store/rule_repo.go`) | `rules`, `rule_version` | create, update, delete, with the bump | polls; events after each write | `FaultDelivery`, `EventBroker` |
| SSE broker (`api/sse_broker.go`, `sse_handler.go`) | subscribers and their channels | Subscribe, Unsubscribe, Broadcast | RWMutex and bounded channels | `EventBroker` |
| policy engine (`policy/engine.go`) | `policy_rules`; cooldown stamps in memory | tick, evaluate, execute | ticker, Prometheus, controller; API edits the table | `PolicyEngine` |
| rule push (`atrocontrol/`) | intent per service, in memory | PushRules, Clear, Freeze, InjectFault: set intent, resolve, fan out | HTTP to instances; registration replies carry the intent | `RulePush` |
| instance registry (`store/sdk_repo.go`) | `sdk_instances` | register, deregister, touch, purge | `last_poll_at` decides who is alive | `RulePush` |
| fault library, compositions, rule compilation (`model/composition_validate.go`, `ruleconv/`, `store/fault_repo.go`) | `fault_specs`, `fault_compositions` and their members | CRUD, ValidateComposition, CompileRules | foreign keys of rules and members; every poll and push compiles | `FaultLibrary`; the effect of a spec edit on polls in `FaultDelivery` |
| phase watcher (`runner.go` watchPhase) | `condHeld`, `condHeldSince`, a ticker | a reading per tick, advance | queries of Prometheus; its context | `PhaseWatch` |
| cache store (`cachestore/`, `api/cache_handler.go`) | one file per (run, service) | ingest, read, preload | a mutex per pair; the run's row; StartRun preloads | `CacheLog`, `CacheStore` |
| endpoint catalog (`api/catalog_handler.go`) | the merged endpoints, cached | GET | one mutex across the query of the live instances | `Catalog` |
| workflow definitions (`store/workflow_repo.go`, `api/workflow_handler.go`, `pagination.go`) | `workflows` | create, edit, delete, list by pages | pages are queries of their own | `Workflows` |
| server process (`cmd/manteion/main.go`, `db/migrations.go`) | `schema_migrations`; open requests | migrate, Recover, serve, shut down | two servers share the database during a rollout | `ServerProcess` |
| workload and trace repositories, API plumbing, clients | rows | CRUD, HTTP | | none |

What is hard about each of them, and what makes it correct:

* **Run lifecycle.** No two calls on a run exclude each other: each reads the status,
  talks to Zeus, and writes the status several statements later. Drivers run before
  their cancel functions are registered; StopRun cancels contexts on which its own
  caller may be running; the process may crash between any two statements. Correct
  when: the documented state machine is followed, load in Zeus can always be found
  from the row, a paused run is at rest, no driver escapes cancellation, a run ends.
* **Scheduler.** Any number of `advanceExperiment` goroutines overlap and decide on a
  list of statuses read once. Correct when: runs start after their dependencies, are
  failed only for a failed dependency, no runnable run is forgotten, the verdict is
  what the runs deserve.
* **Run graph.** Correct when accepted graphs are closed, acyclic and replayable, and
  rejected ones have the fault they are rejected for (diamonds are not cycles).
* **Fault library.** A composition is validated against tables that may change before it
  is stored, level by level of a tree whose parts were stored at other times. Correct
  when what a rule names always compiles, and faults that run at once get along.
* **Faults and polling.** A 304 must mean "you have it all". That rests on the order of
  the reads in a poll and on every change of the desired state being followed by a
  bump, in handlers which may be cut off between the two.
* **Broker.** No send on a closed channel, no writer held up by a client that does not
  read, no dropped event that leaves a client with old rules.
* **Policy engine.** The cooldown holds, also over a restart that forgets the stamps;
  one policy that cannot be evaluated does not keep the others from their turn.
* **Rule push.** An instance that registers while a push is under way is called by the
  push or told by the registration; a hung instance does not hang the operation.
* **Phase watcher.** A phase is advanced when its condition has been met at every
  reading for the whole window. Readings fail, come late, and the tick competes with the
  cancellation in one select.
* **Cache store.** A line of a file is written in more than one write, by several
  requests, and read without a lock; a crash or a full disk leaves half a line. Correct
  when no entry that was acknowledged is missing from a read that comes to the end.
* **Catalog.** A mutex is held while a query runs on the context of one client. Correct
  when nobody waits for ever, and what is shown is as old as the cache allows at most.
* **Workflow pages.** Offsets into an order that changes between the pages. Correct when
  only a deletion can hide a workflow from a client that reads all pages.
* **Server process.** Two processes migrate at once and may die between any two
  statements. Correct when each migration takes effect once and in order, nobody is
  served on an old schema, and every process comes up or, when told to, stops.

The list of hazards, each at its line, with the properties that cover it, is under
`hazards` in `PROJECT.json`.

## 2. The modules

### RunLifecycle (refines RunFSM)

One run. Its variables are the row (`status`, `phase`, `attackIDs`, `results`), the
world outside (`zeus`: the state of each attack; `rules`: the phase whose rules are
intended for the run's services), `o.running` (`registered`, `handles`), the contexts
already `cancelled`, and for each goroutine where it is (`pc`), its copy of the row
(`snap`) and the outcome it stops the run with (`want`). A goroutine is a pair of the
call (or boot) that launched it and its kind: the call itself, a watcher, a poller, an
auto-complete goroutine.

| action | code |
|---|---|
| `StartRun`, `ResumeRun` (`BeginLaunch`) | the status check of `orchestrator.go` StartRun / ResumeRun |
| `LoadRules`, `PushRules` | `enterPhase`, `rules.go` |
| `SetRunning`, `AppendRunAttackID`, `StartAttack`, `SaveAttackIDs` | the row updates and the call to Zeus, in the code's order |
| `SpawnDrivers`, `Register` | the `go` statements, then the lock around `o.running` |
| `PauseRun`, `PauseLock`, `PauseAttacks`, `SetPaused` | PauseRun |
| `StopCall`, `StopLock`, `StopGet`, `StopClear`, `StopAndHarvest`, `Finalize` | StopRun, `cancelAll`, `harvest.go`, FinalizeRunStatus |
| `WatchExit`, `AdvancePhase`, `SetPhase`, `RebindWatcher` | `runner.go` |
| `PollExit`, `PollDeadline`, `PollTick`, `PollHarvest` | `poller.go` |
| `Crash`, `Recover`, `RecoverFail` | the process, and Recover with `reconcileAttacks` |
| `AttackEnds`, `Disconnect` | the environment |

A statement that runs on a cancelled context fails, as `database/sql` and the HTTP
client make it, and the goroutine takes the error path of the code.

Six constants say which surroundings a run of TLC assumes:
* `Serial`: no call is accepted while another call, a Recover or an auto-complete
  goroutine of the run is under way (drivers, crashes and hang-ups still overlap
  everything). This is the discipline of a single operator. Several properties are
  false without it, see section 6; a theorem that needs it says so in its ASSUME. It is
  the only assumption any theorem makes of the six.
* `Prompt`: a driver's ticker (10 s, 15 s) does not fire between the `go` statement
  and the registration a few lines below. `RunSerial` has it FALSE, so that a driver may
  act before it can be cancelled; no theorem assumes it.
* `HasCond`, `HasTarget`: which drivers a run has.
* `Faults`: rules that do not load, Zeus failing at each of its calls, Zeus choosing
  its own attack ID, clients hanging up.
* `MaxRows`: how far result rows of an attack are counted; 0 where no property is about them.

PauseRun and StopRun only log a StopAttack that has failed and go on
(`orchestrator.go:315-329`). The attack it was for is `"runaway"` in `zeus` from then on:
it still runs, and `AttackKnown` and `PausedIsQuiet` say nothing of it, since the resume's
`UpdateRunZeusAttacks` replaces the row's list and so forgets it. What they promise is that
every other attack is accounted for, in particular that a hang-up or a crash between two
steps of a launch loses none. The other exception is an old Zeus that runs the attack under
an ID of its own and whose answer never reaches the row.
`EveryAttackKnown` and `PausedHasNoLoad` are the promises without the exceptions, and are
false (section 6).

`RunFSM` is the state machine documented with `model.ExperimentRun`, with the phases:
pending, running, paused and back, completed or failed for good, one phase after the
other. `ImplementsRunFSM` is the refinement, under the identity mapping. Two things take the
code off that path, and the history variable `lapses` notes them when they happen:
* `"early"`: a driver has acted while its launch was still to register it. PauseRun, or a
  watcher that is entering a phase, may then write over the end of the run (`Revive`).
* `"takeover"`: a watcher that had been cancelled has replaced the registered one (the
  finding of `RunTakeover`). From then on a phase may be entered out of turn.

`RunFSM` has `lapses` as a variable of its own and allows each deviation only after the lapse
that causes it; so the refinement says of every behaviour, those of the finding included,
what can go wrong in it and that nothing else can. When a watcher advances is left to chance
here; `PhaseWatch` says when it does.

### ExperimentDAG

All runs of an experiment. `exp` and `status` are the rows; `driven` are the started
runs, which some goroutine of theirs will stop (that part is `RunLifecycle`); each
`StartExperiment` call, `StartRun` call of the API, advance goroutine and Recover has
a `pc`, its `statusByID` map (`seen`), the runs it has still to start and the one it
is starting. `reached` is a history variable: the terminal statuses each run has had.
A terminal transition that the code follows with `go advanceExperiment` wakes an
advance goroutine in the same step; a failed attempt to finalize wakes none.

### RunGraph

`ValidateRunGraph` is a recursive depth-first search. The module writes the recursion
out as a machine with an explicit `stack`, so that every order in which the database
may list runs and dependencies is explored, and so that termination is a property and
not a matter of course. `Init` admits every graph without self-references, which
`ExperimentRun.Validate` has rejected before.

### FaultLibrary

The tables (`spec`: the type of each spec; `comp`: each composition), what `rules` name,
and the create requests under way (`pc`, `req`). `ValidateComposition` reads the tables
three times, so `ValidateDepth`, `ValidateDirections` and `ValidateIncompatibilities` are
steps of their own, and `InsertComposition` is the transaction that follows them; specs
are created, edited and deleted, compositions deleted and rules written between any two.
`ReferredTo` is what the foreign keys refuse to delete. `Within` is the code's depth
count, `Compiled` what `resolveComposition` can resolve in as many levels as it allows,
and `Leaves` the tree the other two passes collect, with inherited directions: the three
recursions of the code, each by level. `used` and `edited` are history variables.

### FaultDelivery

The tables (`status`, `expired`, `version`, `rules`, `edited`), the API requests, the
reaper (`toReap`, `reaped`: what it has listed, what it has marked and not bumped for),
and per instance the version it `held`, what it has `applied` and `compiled`, and its
`poll` in progress. `ReadVersion`, `ActiveFaultsForService`, `ReadRules` and `Receive`
are the reads of `handlePollRules` in the order of the code. Status change and
`BumpVersion` are separate steps in the fault handlers and in the reaper, one
transaction in the rule handlers. What rules compile to is a counter of rewrites. Two
history variables name what the code gives up on: `silent`, whether the faults have
changed since the last bump with none to follow (a deletion, an edited spec, a handler cut off),
and `blind`, the instances whose last reply lacked the faults because their query
failed. `FaultsConverged` exempts these and nothing else, and says that the next bump,
whoever's it is, puts them right.

### EventBroker

The lock of the broker is modelled by what it excludes: Subscribe and Unsubscribe are
single steps that wait until no broadcast is under way; a broadcast walks the
subscribers one by one, in any order, and drops the event when a channel is full.

### PolicyEngine

Time passes in units (`Elapse`) between any two steps of the loop; the ticker has the
one-place channel of `time.Ticker`. `age` is what the engine remembers of a policy's
last firing, `since` what really happened, which a restart does not forget.

### RulePush

Operations of the controller on one service: set the intent, list the instances, spawn
calls under the semaphore, wait. What is pushed is the operation's own identity, so
that the several operations, which differ in their payload only, are one. Instances
start, register (row first, then the intent is read for the reply), poll, fall silent,
are marked dead by the age of their last poll and purged.

### PhaseWatch

The loop of `watchPhase`, with the ticker's channel of one place, a query that sees the
metric at one moment and takes its time, `held` and `since` (the code's flag and time),
and the select that takes either of two ready cases. `broken` and `read` are history:
how long ago a reading was last unmet or failed, how many were met since.

### CacheStore (refines CacheLog)

Ingest from the test of the run's row (`CheckRun`) to the answer (`WriteDone`,
`WriteFails`), one request per batch, under the mutex of its pair (`LockFor`, `Lock`);
readers, which take none, for the entries handler and for the preload of StartRun. A
line goes to the file in two chunks (`WriteHead`, `WriteTail`), so that a reader, a crash
or a full disk may find one of them. A read ends in one of three ways. It may decode every
line up to the end of the file (`EndOfFile`). It may meet a line cut short, or a disk that
fails within a line: an error, and nothing is returned (`DecodeFails`). Or the disk may fail
where a line would begin: `dec.More()` (`store.go:96`) then says that there is no more, and
the entries so far are returned without an error (`ReadCut`). A crash leaves the files, or
takes them all (`CrashLosesFiles`): the container of
`kubernetes-manifests/manteion.yaml` has no volume for them.

`CacheLog` is what a file promises: entries are appended one by one, those of a batch next to
each other and in order; a read that comes to the end is of one moment, one that the disk
failed (`cut`) has the beginning of such a moment; the logs are lost together or not at all.
The refinement maps a file to the lines before the first that cannot be decoded
(`Readable`): a torn line makes every later read of the file fail, and never come to the end
with less, which is what `NoSilentLoss` adds. A read that is cut does have less, silently;
that is `ReadReturnsAll`, section 6.

### Catalog, Workflows, ServerProcess

`Catalog` has the requests of `handleListCatalogEndpoints` under its mutex, the query at one
moment of the time it takes, and instances that register, poll and leave; `age`, `ttl` and
`waited` count time. `Workflows` has the table, the clock two servers read, and clients
that go from page to page; the limit is clamped in the handler and again in the repository, as the code does.
`ServerProcess` has each statement of a migration's transaction, the order migrate, recover,
listen of `main.go`, signals, the drain and its limit of ten seconds, crashes and new starts.

### Proof modules and MC modules

`XProofs` EXTENDS `X` and TLAPS; `MCX` EXTENDS `X` with what TLC needs: model values, graphs,
symmetry sets. `Services` (`EventBroker`, `PolicyEngine`, `PhaseWatch`, `ServerProcess`) and
`Stores` (`CacheStore`, `Catalog`, `Workflows`) put components beside each other that share
nothing: the first by EXTENDS, the others as instances with constants and variables of their
own, and what each promises once more under its name. `MCServices` and `ServicesProofs`
extend the one, `MCStores` and `StoresProofs` the other, so that a theorem and a run speak of
the same definition; each theorem is about one component's specification alone. `MCValidation`
EXTENDS both `RunGraph` and `FaultLibrary`. In these three MC modules `part`, chosen in the
first state, says whose behaviour it is; the others stay as they were, and the fairness of a
part is asked of its own behaviours. Symmetry is used in runs without liveness properties
only, and only over calls, or advance goroutines, which differ in nothing but their name.

## 3. What TLC checks

| run | instance | shows |
|---|---|---|
| `RunRaces` | 2 overlapping calls, 2 phases, Zeus and rule faults | `RegisteredIsLive`: `o.running` never keeps a cancel function already used; `FirstTerminalWins`: of two racing StopRuns the first decides |
| `RunSerial` | 3 calls in turn, a crash, 3 phases, rules that do not load, a Zeus that fails to start, stop or find an attack or makes up its ID, hang-ups, early ticks | `NoLeakedGoroutine`: what can still act can be cancelled, also while the watcher replaces itself; `AttackKnown`: running load is named by the row at every moment, also across the crash, but for runaways (a StopAttack that failed) and IDs an old Zeus made up; `PausedIsQuiet`: nothing drives a paused run, and no attack of it runs, with the same exceptions; `ImplementsRunFSM`, up to its two lapses |
| `DagRaces` | two entry points and a run joining them, 2 advance goroutines, pauses, stops, a crash, failing and lost starts | `VerdictIsEarned`, `StartsAfterDependencies`, `FailsAfterDependency` |
| `DagEnds` | the same graph, an operator who may start one run, no failure; no run has to end | `NoReadyRunWaits`: no wake-up is lost; `ExperimentMovesOn`: what can start starts, what must fail fails, and an experiment whose runs have all ended is finalized (an operator's StartRun excepted, whose run may end without waking anybody) |
| `Validation` | every graph on 3 runs and a run ID that does not exist, every order | `AcceptsOnlyRunnable`, `AcceptsOnlyReplayable`, `RejectsForCause`, `LooksUpOnlyRuns`, `Terminates` |
| | 2 specs of 3 types, 3 compositions that nest one level too deep, one create request among edits and deletions | `RulesCompile`; `ParallelFaultsCoexist`; nothing refers to what is not there (`LibraryTypeOK`) |
| `FaultRules` | 3 requests of every kind, every failure | `RulesConverged`: whoever is told 304 has the current rules; `FaultsConverged`: the same of the faults |
| `FaultConverges` | 3 requests, 2 services, lost replies | `Converges`: polling brings every instance to the desired state |
| `Services` | broker: 2 connections, one stalled, 2 writers, capacity 1 | `NoSendOnClosed`, `DropsAreHarmless`, `WritersFinish`, `LeaversAreForgotten` |
| | policies: cooldowns below and above the grace, a failing query, a restart | `CooldownHeld`, `HealthyPolicyActs` |
| | a phase watcher, a window longer than two ticks, failing and late queries | `AdvanceIsEarned`: no gap in the readings is overlooked; `WatcherEnds`: nor does a late tick start the window again |
| | two servers, three migrations, two of which cannot run twice, 2 failures | `SchemaIsWhole`, `ComesUpOrStops` |
| `Stores` | cache: 3 batches (one of two entries) for 2 files, one on a disk that may hang, writes and reads that fail, a reader, a crash that may take the files | `NoSilentLoss`, `ImplementsLog`, `RequestsAreAnswered` |
| | catalog: 2 instances, 2 requests, queries that fail or take their time | `CatalogIsCurrent`, `RequestsAreAnswered` |
| | workflows: 3, created at the same or at different times, a client that asks for no limit or for too high a one | `MissesAtMostDeleted` |
| | all three | `PartsTypeOK` |
| `RulePush` | 2 operations, 2 instances, one hung, semaphore of 1, a server restart | `NobodyMissed`, `OperationsReturn` |
| `RunPolledEnds` | one call, a run with an attack and nothing else going wrong | `RunningRunEnds` is *violated*: see section 6 |
| `RunTakeover` | 3 calls in turn, 3 phases, nothing going wrong | `CancelledStays` is *violated*: see section 6 |

Of the type invariants only two are among the runs' properties: `LibraryTypeOK`, which says
that nothing refers to what is not stored, and `PartsTypeOK`, which says that nobody is in
`Catalog`'s critical section twice.

Why the bounds are enough. The hazards are races of two actors and one crash, so two
overlapping calls, or three calls in turn (start, pause, resume or stop) with a crash
between any two steps, reach each of them; a third phase is needed for a watcher to
replace itself and be replaced again. Each call launches its own watcher, poller and
auto-complete goroutine, so two calls are up to eight goroutines. Three runs give the
scheduler both a fan-in and a choice; two advance goroutines are enough for every
pair of stale reads, and slots are reused, so their total number is not bounded.
Three runs and a foreign ID contain every shape ValidateRunGraph distinguishes on a
path: a cycle longer than one, a shared dependency, an unknown one, an ancestor two
steps away. In the library `MaxDepth` is 2 (3 in the code), so that three
compositions are a tree that is too deep; with two specs and a menu of eight compositions
every pass refuses some and accepts some, at the top of a tree and below. A pass is one
step, and `Reuse` is FALSE, in the run as in the theorems: generated IDs (`generateID`) do not come twice; a client that
chooses its own may give one again, see section 6. A channel of capacity 1 is full after one event. A cooldown of 5 against
an interval of 2 outlasts the grace of two intervals, one of 3 does not; a window of 5
against an interval of 2 is not a multiple of it, so that three readings are needed. The
only reader of `Stores` is a preload: that a run has to be completed first is no loss,
since completing it changes no file. Freshness and lifetime of the catalog are 2 against a
query of 1, so that a query, a cached answer and a poll missed can each be the one that
matters. Three workflows on pages of one or two, with two creation times, are enough for
an insertion before, within and after the page that was read. `MaxFailures` is 2: one
server may lose the answer to a commit and the other die while it waits. `RunSerial` has all
its failures in one instance, which `FewAtOnce`, a state constraint, keeps within TLC's reach:
an execution in which a driver was early, Zeus made up an ID or a client hung up has no crash
and no third call; one with the crash and all three calls has no cancelled driver that
outlives its pause into the next launch. Each failure meets each step of two calls, and the
theorems about `RunLifecycle` cover all the combinations. Bounded are:
calls, boots, advance slots, create requests in progress, the number of result rows counted per attack (`MaxRows`),
starts of an instance, crashes and failures of a server (`MaxCrashes`, `MaxFailures`), the
time a query takes (`MaxQuery`), readings of the clock (`MaxClock`); everything else is finite by itself or by those.

`CHECK_DEADLOCK FALSE` stands in every configuration: when the calls are used up and the
goroutines have returned, those systems are at rest (in `Services` the policy engine and the
watcher's clock are not, but the other parts are).

Fairness, and why the code justifies it:
* weak fairness of every goroutine's next statement (Go's scheduler; SQL and HTTP
  calls return, at the latest with an error);
* `RunLifecycle`: an attack ends, being of fixed duration; not: that a transition
  condition becomes true, or that an operator calls anything;
* `ExperimentDAG`: the goroutines run, and nothing more. No run has to end: one that is
  polled does not (section 6), and one without a target has no driver after its last phase;
* `FaultDelivery`: handlers and reaper go on, a duration elapses; strong fairness of
  each instance's polls, since replies may be lost but not all of them;
* `PolicyEngine`: time passes, the loop runs; strong fairness of a successful listing,
  since the listing may fail but not for ever;
* `RulePush`: a call ends, by its reply or by its timeout;
* `EventBroker`: a blocked Unsubscribe gets the lock when it is free (Go's RWMutex lets
  no reader pass a waiting writer); a stalled client is not assumed to read;
* `PhaseWatch`: time passes and the loop runs; strong fairness of the select's case for
  the cancelled context, since select picks at random among those that are ready;
* `CacheStore`: a write ends, in an error at the latest, except on the disks that are
  `Stuck`;
* `Catalog`: requests go on and queries end; strong fairness of taking the mutex, which
  Go hands to whoever has waited for a millisecond;
* `ServerProcess`: a process runs and is started again when it has died (the Deployment
  does that); requests that are not `Long` end. `MaxFailures` means that the failures do.

## 4. What is proved

For every value of the constants, under the assumptions the modules declare (types and
disjointness), TLAPS checks:

| theorem | inductive invariant and argument |
|---|---|
| `RunLifecycleProofs!TypeCorrect`: `Spec => [](TypeOK /\ WatchHasNext)` | `WatchHasNext` is needed because a watcher enters phase `snap.phase + 1`: that there is one is decided when it is spawned |
| `FirstTerminalWinsHolds` | `FinalizeRunStatus` never replaces a terminal status; the only other writer of `failed` is Recover, and then it is the only goroutine (`SoleRecover`) and the run was running |
| `RegisteredIsLiveHolds` | `HandleInv`: which contexts a goroutine's location allows to be registered and uncancelled; one lemma per group of actions |
| `NoLeakedGoroutineHolds` | assumes `Serial`. `LeakInv`: a driver that can act is registered or belongs to the launch in progress (`Active`), at most one launch is under way (`Solo`), and where a launch starts, the run is at rest (`Quiet`). `MovesStep` sums up what any action does to locations, contexts and handles, so that each part of the invariant is preserved by cases on that summary and not on every action |
| `AttackKnownHolds` | assumes `Serial`, and nothing of Zeus or the faults. `AttackInv`: where a launch begins, and until it asks Zeus, none of the running attacks that the row answers for is left (`LoadRunning`); where the list is replaced or the attacks are stopped, the snapshot has them all (`AttackOK`) |
| `PausedIsQuietHolds` | the same assumption; from the two invariants above |
| `ImplementsRunFSMHolds`: `Spec => ImplementsRunFSM` | assumes `Serial`, and nothing of Zeus, the faults or the tickers. On top of `LeakInv`: `CallInv`, what each step of a call may count on whatever has gone out of order; `OrderInv`, what it may count on besides until a driver is early (a run that is not running is at rest); `WatchInv`, that one watcher at most is registered and, until a takeover, has the row's phase. Then each write to the row is a step of `RunFSM`, case by case (`RowStep`), and a lapse is a step that writes nothing (`LapseStep`) |
| `ExperimentDAGProofs!VerdictIsEarnedHolds` | what goroutines have `seen` terminal has been `reached`; a run that is started or known was startable |
| `StartsAfterDependenciesHolds`, `FailsAfterDependencyHolds` | the runs a goroutine has picked were ready when seen, and `reached` only grows |
| `NoReadyRunWaitsHolds` | assumes no boot, no failing start and no disconnection. A run that is ready has somebody who will look at it: a goroutine that has not yet read the statuses its readiness came from, or one that has it on its list |
| `RunGraphProofs!AcceptsOnlyRunnableHolds` | the search invariant: the stack is a path, and the visited runs that are off it form a closed, acyclic set, graded by an order of completion |
| `AcceptsOnlyReplayableHolds`, `RejectsForCauseHolds` | the inner search for a baseline has explored what is off its stack and found none; the stack is a path of dependencies, so that a run met on it again is on a cycle |
| `LooksUpOnlyRunsHolds` | where the second loop walks, the first has visited every run, and what visited runs name is visited (`VisitedClosed`) |
| `SearchMakesProgress`: `Spec => [][GoesForward]_vars` | what `Terminates` rests on, for any graph: every step marks a run, or ends a call or uses up a dependency with the same runs marked, and so on down the order of `GoesForward`; for `Root` that needs that nothing is on the path when no call is in progress, for `Leave` that the run left is |
| `FaultDeliveryProofs!RulesConvergedHolds` | a poll in progress carries a version no newer than what it goes on to read; without any assumption on failures |
| `FaultsConvergedHolds` | the same with the pending bumps: what an instance applies differs from what it should only as long as a bump is owed, `silent` is set or the instance is `blind`; without any assumption on failures |
| `FaultLibraryProofs!LibraryTypeCorrect` | `Started`: a create request under way is one of those asked for. Every step is summed up in `Frame`: what is created is new, what is deleted was not referred to, what stays is as it was |
| `RulesCompileHolds` | assumes that no ID is given twice. `DepthInv`: what is stored is within `MaxDepth`, and a creator that has counted the levels is right about those members that are still stored (`Counted`); a member that has gone does not come back deeper, its ID being used. `WithinStays` carries the depths over a step, `WithinCompiles` ties the validation's count to the compilation's |
| `ParallelFaultsCoexistHolds` | the same assumption. `AlongInv`: a creator that has passed a check is right about it as long as all its members are stored (`Checked`), and stays so, since the leaves of a tree do not change while its root is stored (`TreeStays`) nor their types but by an edit (`GoodStays`) |
| `ServicesProofs!NoSendOnClosedHolds` | a writer walks subscribers only, and the lock keeps them subscribed |
| `DropsAreHarmlessHolds` | a full channel holds an event not older than the last fetch |
| `CooldownHeldHolds` | `age` is `since` for a policy stamped by this process; otherwise `up` tells that the grace has passed |
| `AdvanceIsEarnedHolds` | `HeldUnbroken`: while the flag is set a reading has been met, and the time since it was set is no longer than the time since the last reading that was unmet or failed |
| `SchemaIsWholeHolds` | `MigratedTo(k)`, for some `k`: exactly the first `k` migrations are applied, each committed once; no server is past the next one, and a server that has recorded it, uncommitted, is alone in that |
| `RulePushProofs!NobodyMissedHolds` | inductive as it stands with the types: an instance leaves `seen` only to read the intent |
| `StoresProofs!ReadsMissNothing` | lines at the front of a file stay while the files do; a batch acknowledged has all its lines in the file, or behind a torn line, where no read comes to the end, unless a crash has taken them. With failing reads: one that is cut is not at the end |
| `ImplementsCacheLog`: `Spec => Log!Spec` | who holds a pair's mutex is the only writer of its file, and the last line is that writer's last entry; a tail that completes a line maps to `Put`, a read that comes to the end to `Read`, one that the disk fails to `ReadCut`, a crash that takes the files to `Lose`, everything else stutters |
| `CatalogIsCurrentHolds` | `CatalogInv`: who has the mutex is alone (`Exclusive`), an instance that has been polling for long is live (`SteadyIsLive`), and what has been found, or cached, is as old as the query, or the lifetime, has lasted (`FoundIsCurrent`, `CachedIsCurrent`) |
| `MissesAtMostDeletedHolds` | `PageInv`: of what lies before a client's offset and was there from the start (`Passed`), no more is unseen than was deleted; positions are counted as cardinalities of what comes before in the order, so that the lemmas are about finite sets |
| `PartsTypeOKHolds` | the three type invariants |
| `TypeCorrect`, or `XTypeCorrect`, of each component but `RunFSM` and `CacheLog` | the type invariant of the component |

Induction. TLAPS cannot instantiate the library's induction theorems, which take an operator;
`FaultLibraryProofs` proves the induction it needs for *sets* of naturals, from the
well-foundedness of their order (`Induction`, `LevelInduction`), and with it that a function
defined by its previous value exists (`Recursion`). That makes the levels of `Within`,
`Compiled` and `Tree`, written as recursive functions, something one can prove about.

Model-checked only: everything under fairness (`ExperimentMovesOn`, `Terminates`,
`WritersFinish`, `LeaversAreForgotten`, `HealthyPolicyActs`, `Converges`,
`OperationsReturn`, `WatcherEnds`, `RequestsAreAnswered`, `ComesUpOrStops`), since TLAPS
as used here does not reason about ENABLED. Every invariant and every action property that
a run checks is also stated by a theorem. What the theorems assume beyond the modules'
own assumptions is in the table; `Serial` and no `Reuse` are needed, as section 6 shows.
`RunGraph` is a machine rather than a
RECURSIVE operator because the prover cannot use those.

## 5. What is left out

* `RunLifecycle`: the preload of StartRun, which changes nothing of the run (`CacheStore`
  has it as a read), the several services of a run (their pushes are merged), the texts
  of results, the deletion of an experiment under its runs, and two servers that drive
  the same runs while a rollout has both of them.
* `FaultDelivery`: which rule belongs to which service, the reply to a poll whose rules
  do not compile, the experiment's intent fault.
* `RulePush`: single-instance variants and the status query change no state here.
* `FaultLibrary`: the fields that compilation copies, soft constraints and the warnings
  they give, which rule names what (only whether one does). A fault config that names
  a composition protects it as a rule does, and is counted as one.
* `CacheStore`: what an entry holds, the count a batch is answered with. `Catalog`: the
  dependencies between endpoints and the IDs made of paths. `Workflows`: the two calls
  that hand a definition to Zeus, validation. `ServerProcess`: what a migration's SQL does
  beyond whether it can run twice.
* Not modelled: workloads and traces are CRUD on single rows that no two requests share;
  routing, JSON, static files, health and logging are I/O without state of their own;
  the HTTP clients are in the modules of their callers, as calls that answer or fail.

## 6. Where code and comments part

`RunPolledEnds` and `RunTakeover` are listed runs. In the first, the poller ends a run by calling StopRun on its own
context (`orchestrator/poller.go:52`), StopRun first cancels that very context
(`orchestrator.go:535-541`) and its next query fails: the row stays `running` for ever,
although `poller.go:17-18` says the poller "transitions the run to completed". The
watcher has the same call for a run past its last phase; `WatchHasNext`, proved in
`RunLifecycleProofs`, shows that branch is never reached.

In the second, a run is paused while its watcher is entering a phase, and resumed before
the watcher is done. `advancePhase` asks whether the run is registered
(`orchestrator/runner.go:75`), finds the entry of the resume, cancels the new watcher and
goes on in its place, from the phase in its own snapshot; the row, which the cancelled
context could not update, is left behind. `docs/plans/2026-04-29-experiment-orchestration-fsm.md:308-309`
says that on PauseRun "both goroutines stop cleanly"; the comment at `runner.go:76` says
"Cancel the previous watcher (this goroutine)". `CancelledStays` is what the run shows
violated. A row may skip or repeat a phase by it: that is the lapse `"takeover"` of `RunFSM`.

The following are stated in the modules (under "What the code's comments say") and are
false of the code; each line gives constants for which TLC shows it. No listed run
checks them.

| property | what is said | constants that show otherwise |
|---|---|---|
| `TerminalIsFinal` | "A run that already reached completed/failed must not be transitioned again" (`orchestrator.go:548`) | 2 calls, 1 phase, `Serial` FALSE, no condition, no target |
| `StoppedRunHasNoRules` | "StopRun halts an active run, clears rules from SDK instances" (`:528`) | 2 calls, 2 phases, `HasCond`, `Serial`, `Prompt` TRUE, no target: an advance pushes after the clearing |
| `OnePollerPerRun` | "One poller per run, never replaced mid-run" (`:38`) | 2 calls, 1 phase, `HasTarget`, `Serial` FALSE |
| `AttackKnown` without `Serial` | the ID is stored "so a crash mid-flight leaves a known ID to reconcile against" (`store/experiment_repo.go:384`) | the same |
| `OneRowPerAttack` | "One row per (run, workflow) pair" (`model/experiment.go:267`) | 2 calls, 1 phase, `HasTarget`, `Serial` TRUE: StopRun overlaps the poller's harvest |
| `EveryAttackKnown` | the same: "a known ID to reconcile against" | 3 calls, 1 phase, no condition, `HasTarget`, `Serial` TRUE, `Faults = {"zeusStop"}`: a pause fails to stop the attack, the resume's list replaces its ID; or one call with `{"zeusID"}` |
| `PausedHasNoLoad` | PauseRun "stops the Zeus attack and phase watcher" (`orchestrator.go:297`) | the same with 2 calls: the failed StopAttack is logged and the run paused |
| `FinalizedWhenOver` | advanceExperiment "finalizes the experiment status when no runs remain" (`orchestrator.go:434`) | `Fan`, one start, one advancer, a boot, `Faults = {"lost"}`: Recover fails a run and wakes nobody; or the constants of `DagEnds`: an operator starts a run that the cascade has failed meanwhile |
| `StartedByOne` | "Idempotent — safe to call repeatedly" (`:437`) | `Fan`, one start, two advancers |
| `AbortsOnFailure` | "If any run fails, the experiment aborts" (`model/experiment.go:71`) | `Join`, one start, two advancers: independent runs go on |
| `PlannedStartsNothing` | entry points are "started by StartExperiment" (`:80`) | `Fan`, no start, one API start, one advancer |
| `NotModifiedMeansCurrent` | 304 means "no rule changes since requested version" (`api/sdk_handler.go:167`); a version bump follows each change (`api/fault_config_handler.go:53`, `docs/long-running-faults.md:29`) | `Ops = {"rule","spec"}`: a spec edit bumps nothing; `{"fire","delete"}`: nor does a deletion; `{"fire","cancel"}` with `"disconnect"`: nor a handler cut off |
| `EndsOneWay`, `ReapsOnlyExpired` | `docs/long-running-faults.md:5-12` | `Ops = {"fire","cancel"}`, 3 and 4 requests: the reaper marks what it listed earlier |
| `FullCooldownHeld` | the grace avoids "double-applying fault rules across a restart" (`policy/engine.go:81`) | the constants of `Services`: cooldowns longer than two intervals |
| `RulesCompile` with `Reuse` TRUE | the depth is "validated ... against current repo contents" (`api/fault_handler.go:170`) | the constants of `Validation`, network types only, two creators: a child is deleted and given again under its ID, one level deeper, between the validation of its parent and the insert |
| `ReadReturnsAll` | "Read returns all entries stored" (`cachestore/store.go:81`) | the constants of `Stores`: `dec.More()` takes a disk that fails for the end of the file |
| `OneToxicPerDirectionAtOnce` | "a parallel composition has at most one network toxic per direction" (`model/composition_validate.go:46`) | the constants of `Validation`: two members of a parallel composition, one upstream, one unspecified, in a sequential one that sends both upstream |

In words only: a spec that is edited is not checked against the compositions and the rules
that use it (`api/fault_handler.go:118`); the hard `host_mode` constraint is never looked at
(`model/fault.go:309`); a resolver takes a failing query for an absent row
(`store/fault_repo.go:304`), so that a poll may answer with rules that are not compiled. The API's StartRun checks the run's own status and not its dependencies
(`api/experiment_handler.go:145`). An instance that is late for two polls is skipped by
a push and not called again for it; a registration reply may override a newer push;
overlapping pushes may reach an instance in another order than they set the intent; the
intent is lost on restart; a push of rules replaces the freeze and the fault recorded in
the intent; a purged instance that still polls gets no new row; "suspect" is looked for
by the resolver and never produced. A route "drops out after one miss"
(`api/catalog_handler.go:22-23`) only after two minutes without a poll and the lifetime of
the cache; endpoint IDs are said to be unique (`:42-44`) and are made from paths, of which
two may give one. `store/workflow_repo.go:115-117` says that empty fields mean no change:
they overwrite, and a `steps` of null passes the validation. A batch of cache entries that was
admitted before its run completed is written after it, so that a preload may come before it.

## 7. Plan

Done, in this order: RunLifecycle with RunFSM, ExperimentDAG, FaultDelivery, RunGraph,
EventBroker, PolicyEngine, RulePush, FaultLibrary, CacheStore with CacheLog, PhaseWatch,
Catalog, Workflows, ServerProcess; then the proofs, of every safety property that a run
checks and of the two refinements.

Next:
1. Composition of `RunLifecycle` and `RulePush`: rules intended for two runs that share
   a service.
2. Two servers on the same runs; the deletion of an experiment that is running.
3. Proofs of what the liveness properties rest on and is a matter of states, as
   `SearchMakesProgress` is for the search: of a fan-out, a push or a migration.
