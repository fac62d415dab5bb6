------------------------------ MODULE Workflows ------------------------------
(***************************************************************************)
(* Workflow definitions (internal/store/workflow_repo.go and its handlers) *)
(* and the pages in which they are listed.  A client reads page after page *)
(* while others create, edit and delete: every page is a query of its own, *)
(* at an offset into an order that has changed since.                      *)
(***************************************************************************)
EXTENDS Naturals, FiniteSets

CONSTANTS
  Workflows,  \* IDs, generated or chosen by clients
  Order,      \* Order[w], the place of w in the order of IDs
  Clients,    \* clients that list all workflows
  Asked,      \* values of ?limit=; 0: none, or none that is a positive number
  DefaultLimit, MaxLimit,  \* 20 and 200 in the code
  MaxClock    \* readings of the clock (bound)

ConstantsOK ==
  /\ IsFiniteSet(Workflows) /\ Order \in [Workflows -> Nat]
  /\ \A v, w \in Workflows : Order[v] = Order[w] => v = w
  /\ Asked \subseteq Nat /\ DefaultLimit \in 1 .. MaxLimit /\ MaxLimit \in Nat
  /\ MaxClock \in Nat

VARIABLES
  clock,          \* time.Now(), of one server or another
  row,            \* per ID: "none", "coming" (a create request), "stored", "deleted"
  stamp, touched, \* created_at, updated_at
  pc, asked, offset,  \* clients: where each is, the limit it asks for, the offset
  seen,           \*   the workflows it has been shown
  present, gone   \* history: those that have been there since its first page;
                  \*   deletions since then

table   == <<row, stamp, touched>>
history == <<present, gone>>
vars    == <<clock, row, stamp, touched, pc, asked, offset, seen, present, gone>>

Stored == {w \in Workflows : row[w] = "stored"}

TypeOK ==
  /\ clock \in 0 .. MaxClock
  /\ row \in [Workflows -> {"none", "coming", "stored", "deleted"}]
  /\ stamp \in [Workflows -> 0 .. MaxClock] /\ touched \in [Workflows -> 0 .. MaxClock]
  /\ pc \in [Clients -> {"idle", "page", "done"}] /\ asked \in [Clients -> Asked]
  /\ offset \in [Clients -> Nat] /\ seen \in [Clients -> SUBSET Workflows]
  /\ present \in [Clients -> SUBSET Workflows] /\ gone \in [Clients -> Nat]
  /\ \A c \in Clients : present[c] \subseteq Stored

Init ==
  /\ clock = 0 /\ row = [w \in Workflows |-> "none"]
  /\ stamp = [w \in Workflows |-> 0] /\ touched = [w \in Workflows |-> 0]
  /\ pc = [c \in Clients |-> "idle"] /\ asked \in [Clients -> Asked]
  /\ offset = [c \in Clients |-> 0] /\ seen = [c \in Clients |-> {}]
  /\ present = [c \in Clients |-> {}] /\ gone = [c \in Clients |-> 0]

-----------------------------------------------------------------------------
(* The clock, to the microsecond that the column keeps: two workflows may  *)
(* get the same created_at, and one that got an earlier one may be stored  *)
(* later.                                                                  *)
Tick ==
  /\ clock < MaxClock /\ clock' = clock + 1
  /\ UNCHANGED <<table, pc, asked, offset, seen, history>>

(* handleCreateWorkflow reads the clock; Create validates and inserts.     *)
BeginCreate(w) ==
  /\ row[w] = "none" /\ row' = [row EXCEPT ![w] = "coming"]
  /\ stamp' = [stamp EXCEPT ![w] = clock] /\ touched' = [touched EXCEPT ![w] = clock]
  /\ UNCHANGED <<clock, pc, asked, offset, seen, history>>

Create(w) ==
  /\ row[w] = "coming" /\ row' = [row EXCEPT ![w] = "stored"]
  /\ UNCHANGED <<clock, stamp, touched, pc, asked, offset, seen, history>>

(* Every field is written as it comes, and updated_at.                     *)
Update(w) ==
  /\ w \in Stored /\ touched' = [touched EXCEPT ![w] = clock]
  /\ UNCHANGED <<clock, row, stamp, pc, asked, offset, seen, history>>

Delete(w) ==
  /\ w \in Stored /\ row' = [row EXCEPT ![w] = "deleted"]
  /\ present' = [c \in Clients |-> present[c] \ {w}]
  /\ gone' = [c \in Clients |-> IF pc[c] = "page" THEN gone[c] + 1 ELSE gone[c]]
  /\ UNCHANGED <<clock, stamp, touched, pc, asked, offset, seen>>

-----------------------------------------------------------------------------
AtMost(m, n) == IF m <= n THEN m ELSE n

(* The limit that the handler reports, and the one that the query uses.    *)
parsePagination(l) == IF l > 0 THEN AtMost(l, MaxLimit) ELSE DefaultLimit
ListLimit(l)       == IF l > 0 THEN AtMost(l, MaxLimit) ELSE DefaultLimit

(* ORDER BY created_at DESC, id                                            *)
(* Mutant: the last edited first.                                          *)
BeforeByEdit(v, w) ==
  \/ touched[v] > touched[w]
  \/ touched[v] = touched[w] /\ Order[v] < Order[w]

Before(v, w) ==
  \/ stamp[v] > stamp[w]
  \/ stamp[v] = stamp[w] /\ Order[v] < Order[w]

(* LIMIT l OFFSET o                                                        *)
Position(w) == Cardinality({v \in Stored : Before(v, w)})
Page(o, l)  == {w \in Stored : Position(w) \in o .. o + l - 1}

(* COUNT( * ) OVER () comes with the rows: past the end there is none.      *)
Total(p) == IF p = {} THEN 0 ELSE Cardinality(Stored)

(* handleListWorkflows, once per page.  The client goes on by the limit it *)
(* is told, until it is past the total.                                    *)
Ask(c) ==
  /\ pc[c] = "idle" /\ pc' = [pc EXCEPT ![c] = "page"]
  /\ present' = [present EXCEPT ![c] = Stored]
  /\ UNCHANGED <<clock, table, asked, offset, seen, gone>>

List(c) ==
  LET limit == parsePagination(asked[c])
      page  == Page(offset[c], ListLimit(limit)) IN
  /\ pc[c] = "page"
  /\ seen' = [seen EXCEPT ![c] = @ \cup page]
  /\ offset' = [offset EXCEPT ![c] = @ + limit]
  /\ pc' = [pc EXCEPT ![c] = IF offset'[c] >= Total(page) THEN "done" ELSE "page"]
  /\ UNCHANGED <<clock, table, asked, history>>

Next ==
  \/ Tick
  \/ \E w \in Workflows : BeginCreate(w) \/ Create(w) \/ Update(w) \/ Delete(w)
  \/ \E c \in Clients : Ask(c) \/ List(c)

Spec == Init /\ [][Next]_vars

-----------------------------------------------------------------------------
(* A client that has read all pages has seen every workflow that was there *)
(* all the time, whatever was created or edited meanwhile and in whatever  *)
(* order; it may have missed one for each that was deleted.                *)
MissesAtMostDeleted ==
  \A c \in Clients : pc[c] = "done" => Cardinality(present[c] \ seen[c]) <= gone[c]
=============================================================================
