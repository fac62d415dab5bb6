------------------------------ MODULE RunGraph ------------------------------
(***************************************************************************)
(* ValidateRunGraph, which StartExperiment calls before it starts any run: *)
(* a depth-first search over DependsOn that rejects cycles and references  *)
(* outside the experiment, then, for every run that freezes services, a    *)
(* walk that looks for a baseline run among its ancestors.  The search is  *)
(* written as the machine the recursion is, so that the order in which it  *)
(* meets runs and dependencies, which comes from the database, is open.    *)
(***************************************************************************)
EXTENDS Integers, Sequences, FiniteSets

CONSTANTS
  Runs,    \* the runs of the experiment, byID
  Others   \* run IDs a run may name that are not among them

ASSUME IDsAssumption == Runs \cap Others = {}

VARIABLES
  deps,              \* DependsOn of each run, as Validate lets it be stored
  elsewhere,         \* runs listed that belong to another experiment
  kind,              \* run_type, and whether it has frozen services
  stack,             \* the calls of dfs in progress: the run, the deps it has yet to do
  visited, onPath,   \* the maps of the same names
  unchecked,         \* runs the last loop has not looked at
  walking, seen,     \* hasBaselineAncestor: the run asked about, the walk's seen map
  verdict            \* what ValidateRunGraph returns, "" until it does

graph == <<deps, elsewhere, kind>>
vars  == <<deps, elsewhere, kind, stack, visited, onPath, unchecked, walking, seen, verdict>>

Kinds    == {"baseline", "frozen"}
Verdicts == {"", "ok", "cycle", "unknown", "foreign", "no baseline"}
Frames   == [run: Runs, todo: SUBSET (Runs \cup Others)]

TypeOK ==
  /\ deps \in [Runs -> SUBSET (Runs \cup Others)]
  /\ elsewhere \subseteq Runs /\ kind \in [Runs -> Kinds]
  /\ stack \in Seq(Frames)
  /\ visited \subseteq Runs /\ onPath \subseteq Runs
  /\ unchecked \subseteq Runs /\ walking \subseteq Runs /\ seen \subseteq Runs
  /\ verdict \in Verdicts

(* Any graph whose runs passed ExperimentRun.Validate: no run names itself.*)
Init ==
  /\ deps \in {d \in [Runs -> SUBSET (Runs \cup Others)] : \A r \in Runs : r \notin d[r]}
  /\ elsewhere \in SUBSET Runs /\ kind \in [Runs -> Kinds]
  /\ stack = <<>> /\ visited = {} /\ onPath = {}
  /\ unchecked = Runs /\ walking = {} /\ seen = {}
  /\ verdict = ""

Top == stack[Len(stack)]
Rest == SubSeq(stack, 1, Len(stack) - 1)
Frame(r) == [run |-> r, todo |-> deps[r]]
Caller(d) == Append(Rest, [run |-> Top.run, todo |-> Top.todo \ {d}])
search == <<stack, visited, onPath>>
walk   == <<unchecked, walking, seen>>

(* The call dfs(r) of the loop over all the runs.                          *)
Root(r) ==
  /\ verdict = "" /\ stack = <<>> /\ r \notin visited
  /\ onPath' = onPath \cup {r} /\ stack' = <<Frame(r)>>
  /\ UNCHANGED <<graph, visited, walk, verdict>>

(* The loop over the dependencies of the run at the top; `d' is the next.  *)
Upcoming(d)   == verdict = "" /\ stack # <<>> /\ d \in Top.todo
SameAs(d)  == d \in elsewhere <=> Top.run \in elsewhere

Reject(d) ==
  /\ Upcoming(d)
  /\ \/ d \notin Runs /\ verdict' = "unknown"
     \/ d \in Runs /\ ~SameAs(d) /\ verdict' = "foreign"
     \/ d \in Runs /\ SameAs(d) /\ d \in onPath /\ verdict' = "cycle"
  /\ UNCHANGED <<graph, search, walk>>

(* Mutants: one map for both marks; an unknown run passed over; a run left *)
(* on the path.                                                            *)
SkipAnyMarked(d) ==
  /\ Upcoming(d) /\ d \in visited \cup onPath /\ SameAs(d)
  /\ stack' = Caller(d)
  /\ UNCHANGED <<graph, visited, onPath, walk, verdict>>

LeaveOnPath ==
  /\ verdict = "" /\ stack # <<>> /\ Top.todo = {}
  /\ visited' = visited \cup {Top.run} /\ stack' = Rest
  /\ UNCHANGED <<graph, onPath, walk, verdict>>

SkipUnknown(d) ==
  /\ Upcoming(d) /\ d \in visited \cup Others /\ SameAs(d)
  /\ stack' = Caller(d)
  /\ UNCHANGED <<graph, visited, onPath, walk, verdict>>

Skip(d) ==
  /\ Upcoming(d) /\ d \in visited /\ SameAs(d)
  /\ stack' = Caller(d)
  /\ UNCHANGED <<graph, visited, onPath, walk, verdict>>

Descend(d) ==
  /\ Upcoming(d) /\ d \in Runs \ (visited \cup onPath) /\ SameAs(d)
  /\ onPath' = onPath \cup {d} /\ stack' = Append(Caller(d), Frame(d))
  /\ UNCHANGED <<graph, visited, walk, verdict>>

Leave ==
  /\ verdict = "" /\ stack # <<>> /\ Top.todo = {}
  /\ onPath' = onPath \ {Top.run} /\ visited' = visited \cup {Top.run}
  /\ stack' = Rest
  /\ UNCHANGED <<graph, walk, verdict>>

-----------------------------------------------------------------------------
Searched == verdict = "" /\ stack = <<>> /\ visited = Runs

(* Mutant: an entry point needs no baseline.                               *)
CheckDependents(r) ==
  /\ Searched /\ walking = {} /\ r \in unchecked
  /\ unchecked' = unchecked \ {r} /\ seen' = {}
  /\ walking' = IF kind[r] = "baseline" \/ deps[r] = {} THEN {} ELSE {r}
  /\ UNCHANGED <<graph, search, verdict>>

(* A baseline run needs no baseline; any other starts a walk.              *)
Check(r) ==
  /\ Searched /\ walking = {} /\ r \in unchecked
  /\ unchecked' = unchecked \ {r} /\ seen' = {}
  /\ walking' = IF kind[r] = "baseline" THEN {} ELSE {r}
  /\ UNCHANGED <<graph, search, verdict>>

Reached(r) == (UNION {deps[q] : q \in seen \cup {r}}) \ seen

(* Mutant: a walk that forgets where it has been.                          *)
WalkForgetful(r, d) ==
  /\ Searched /\ r \in walking /\ d \in Reached(r)
  /\ IF kind[d] = "baseline"
     THEN walking' = {} /\ UNCHANGED seen
     ELSE seen' = {d} /\ UNCHANGED walking
  /\ UNCHANGED <<graph, search, unchecked, verdict>>

Walk(r, d) ==
  /\ Searched /\ r \in walking /\ d \in Reached(r)
  /\ IF kind[d] = "baseline"
     THEN walking' = {} /\ UNCHANGED seen
     ELSE seen' = seen \cup {d} /\ UNCHANGED walking
  /\ UNCHANGED <<graph, search, unchecked, verdict>>

WalkFails(r) ==
  /\ Searched /\ r \in walking /\ Reached(r) = {}
  /\ verdict' = "no baseline" /\ UNCHANGED <<graph, search, walk>>

Accept ==
  /\ Searched /\ walking = {} /\ unchecked = {}
  /\ verdict' = "ok" /\ UNCHANGED <<graph, search, walk>>

Next ==
  \/ \E r \in Runs : Root(r) \/ Check(r) \/ WalkFails(r) \/ \E d \in Runs : Walk(r, d)
  \/ \E d \in Runs \cup Others : Reject(d) \/ Skip(d) \/ Descend(d)
  \/ Leave \/ Accept

Spec == Init /\ [][Next]_vars
LiveSpec == Spec /\ WF_vars(Next)

-----------------------------------------------------------------------------
(* The reference: what the doc comment of ValidateRunGraph lists.  A graph *)
(* has no cycle exactly when every set of runs has one that depends on no  *)
(* other of the set.                                                       *)
Closed    == \A r \in Runs : deps[r] \subseteq Runs
OneHouse  == \A r \in Runs : \A d \in deps[r] \cap Runs : d \in elsewhere <=> r \in elsewhere
Grounded(S) == \A T \in SUBSET S : T # {} => \E r \in T : deps[r] \cap T = {}
Ancestors(r) ==
  CHOOSE A \in SUBSET Runs :
    /\ deps[r] \cap Runs \subseteq A
    /\ \A q \in A : deps[q] \cap Runs \subseteq A
    /\ \A B \in SUBSET Runs :
         deps[r] \cap Runs \subseteq B /\ (\A q \in B : deps[q] \cap Runs \subseteq B) => A \subseteq B
Replayable == \A r \in Runs :
  kind[r] = "frozen" => \E q \in Ancestors(r) : kind[q] = "baseline"

(* What is accepted can be run to its end: every dependency can be         *)
(* completed before the run that names it, whatever order the search took. *)
AcceptsOnlyRunnable ==
  verdict = "ok" => Closed /\ OneHouse /\ Grounded(Runs)

(* A run accepted with frozen services has a baseline to replay from.      *)
AcceptsOnlyReplayable == verdict = "ok" => Replayable

(* And nothing else is rejected, nor for a reason it does not have.        *)
RejectsForCause ==
  /\ verdict = "cycle" => ~Grounded(Runs)
  /\ verdict = "unknown" => ~Closed
  /\ verdict = "foreign" => ~OneHouse
  /\ verdict = "no baseline" => ~Replayable

(* hasBaselineAncestor takes what byID has for an ID without asking if it   *)
(* has anything: every ID its walk comes to is that of a run.              *)
LooksUpOnlyRuns ==
  Searched => \A r \in walking : Reached(r) \subseteq Runs

(* The recursion returns, on cyclic graphs too.                            *)
Terminates == <>(verdict # "")
=============================================================================
