----------------------------- MODULE PhaseWatch -----------------------------
(***************************************************************************)
(* watchPhase (internal/orchestrator/runner.go): at every tick the metric  *)
(* of the transition condition is read, and the phase is advanced when the *)
(* condition has been met at every reading for as long as its window.      *)
(* RunLifecycle leaves to chance when a watcher advances; this module says *)
(* when it does.  A tick waits in the ticker's channel while a query takes *)
(* its time, so that two readings may be less than an interval apart.      *)
(***************************************************************************)
EXTENDS Naturals

CONSTANTS
  Interval,  \* watchInterval: 10 seconds in the code
  Window,    \* cond.Window
  Faults     \* "query": the metric may fail to be read

ConstantsOK ==
  Interval \in Nat \ {0} /\ Window \in Nat /\ Faults \subseteq {"query"}

VARIABLES
  metric,          \* whether Met holds of the metric's value by now
  timer, pending,  \* the ticker: time since it last fired, a tick in its channel
  pc,              \* the loop
  held, since,     \* condHeld; time.Since(condHeldSince), up to Window
  cancelled,       \* ctx
  broken, read     \* history: time since a reading that was not met or failed,
                   \*   up to Window; readings that were met since then, up to 2

ticker  == <<timer, pending>>
memory  == <<held, since, broken, read>>
vars    == <<metric, timer, pending, pc, held, since, cancelled, broken, read>>

TypeOK ==
  /\ metric \in BOOLEAN /\ pending \in BOOLEAN /\ timer \in 0 .. Interval - 1
  /\ pc \in {"select", "query", "met", "unmet", "advance", "exit"}
  /\ held \in BOOLEAN /\ since \in 0 .. Window
  /\ cancelled \in BOOLEAN /\ broken \in 0 .. Window /\ read \in 0 .. 2

Init ==
  /\ metric \in BOOLEAN /\ timer = 0 /\ pending = FALSE /\ pc = "select"
  /\ held = FALSE /\ since = 0 /\ cancelled = FALSE /\ broken = 0 /\ read = 0

AtMost(m, n) == IF m <= n THEN m ELSE n

(* Time passes; the ticker's channel holds one tick and drops the others.  *)
Elapse ==
  /\ IF timer + 1 < Interval
     THEN timer' = timer + 1 /\ UNCHANGED pending
     ELSE timer' = 0 /\ pending' = TRUE
  /\ since' = AtMost(since + 1, Window) /\ broken' = AtMost(broken + 1, Window)
  /\ UNCHANGED <<metric, pc, held, cancelled, read>>

MetricMoves ==
  /\ metric' = ~metric
  /\ UNCHANGED <<ticker, pc, memory, cancelled>>

(* StopRun, PauseRun or the watcher that replaces this one.                *)
Cancel ==
  /\ ~cancelled /\ cancelled' = TRUE
  /\ UNCHANGED <<metric, ticker, pc, memory>>

-----------------------------------------------------------------------------
(* When both are ready, select takes either.                               *)
TakeDone ==
  /\ pc = "select" /\ cancelled /\ pc' = "exit"
  /\ UNCHANGED <<metric, ticker, memory, cancelled>>

TakeTick ==
  /\ pc = "select" /\ pending /\ pending' = FALSE /\ pc' = "query"
  /\ UNCHANGED <<metric, timer, memory, cancelled>>

(* The metric as it is at some moment of the query.                        *)
QueryInstant ==
  /\ pc = "query" /\ ~cancelled
  /\ pc' = IF metric THEN "met" ELSE "unmet"
  /\ UNCHANGED <<metric, ticker, memory, cancelled>>

Forget == held' = FALSE /\ since' = 0 /\ broken' = 0 /\ read' = 0

(* Mutant: an error changes nothing.                                       *)
QueryFailsKeeping ==
  /\ pc = "query" /\ (cancelled \/ "query" \in Faults) /\ pc' = "select"
  /\ broken' = 0 /\ read' = 0
  /\ UNCHANGED <<metric, ticker, held, since, cancelled>>

QueryFails ==
  /\ pc = "query" /\ (cancelled \/ "query" \in Faults) /\ pc' = "select"
  /\ Forget
  /\ UNCHANGED <<metric, ticker, cancelled>>

Unmet ==
  /\ pc = "unmet" /\ pc' = "select" /\ Forget
  /\ UNCHANGED <<metric, ticker, cancelled>>

FirstMet ==
  /\ pc = "met" /\ ~held /\ pc' = "select"
  /\ held' = TRUE /\ since' = 0
  /\ read' = AtMost(read + 1, 2)
  /\ UNCHANGED <<metric, ticker, cancelled, broken>>

(* Mutant: a window that starts again with every reading.                  *)
StillMetAgain ==
  /\ pc = "met" /\ held /\ pc' = (IF since >= Window THEN "advance" ELSE "select")
  /\ since' = 0 /\ read' = AtMost(read + 1, 2)
  /\ UNCHANGED <<metric, ticker, cancelled, held, broken>>

StillMet ==
  /\ pc = "met" /\ held /\ pc' = (IF since >= Window THEN "advance" ELSE "select")
  /\ read' = AtMost(read + 1, 2)
  /\ UNCHANGED <<metric, ticker, cancelled, held, since, broken>>

Loop == \/ TakeDone \/ TakeTick \/ QueryInstant \/ QueryFails
        \/ Unmet \/ FirstMet \/ StillMet

Next == Elapse \/ MetricMoves \/ Cancel \/ Loop

Spec == Init /\ [][Next]_vars

(* Time passes and the goroutine runs; select picks at random.             *)
LiveSpec == Spec /\ WF_vars(Elapse) /\ WF_vars(Loop) /\ SF_vars(TakeDone)

-----------------------------------------------------------------------------
(* A phase is advanced only after the condition has been met at two        *)
(* readings or more, over a window in which no reading was unmet and none  *)
(* failed: a gap in the metric starts the window again, also when ticks    *)
(* come late.                                                              *)
AdvanceIsEarned == pc = "advance" => read = 2 /\ broken >= Window

(* Either way a watcher ends.  When it is cancelled it may read the metric *)
(* once more, when its tick is ready too, but not without end.  And a      *)
(* condition that stays met, of a metric that can be read again at some    *)
(* time, does advance the phase: a late tick does not restart the window.  *)
WatcherEnds ==
  /\ []<>(cancelled => pc \in {"exit", "advance"})
  /\ <>[](metric /\ ~cancelled) /\ <>[][~QueryFails]_vars => []<>(pc = "advance")
=============================================================================
