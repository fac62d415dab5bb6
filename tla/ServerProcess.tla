---------------------------- MODULE ServerProcess ----------------------------
(***************************************************************************)
(* The life of a server process (cmd/manteion/main.go, internal/db): it    *)
(* brings the schema up to date, recovers the runs, serves, and drains     *)
(* when it is told to stop.  A rollout starts the new process while the    *)
(* old one is still there, so that two may migrate at once; a process may  *)
(* die at any moment, and is started again.                                *)
(***************************************************************************)
EXTENDS Naturals

CONSTANTS
  Servers,     \* processes that share the database
  Last,        \* migrations are numbered 1 .. Last
  Repeatable,  \* those whose SQL may run twice (IF NOT EXISTS); a RENAME may not
  Requests,    \* HTTP requests (bound)
  Long,        \* those that may outlast the ten seconds of a shutdown: SSE
               \*   connections, a StopRun that waits for Zeus
  MaxFailures, \* crashes, failing statements and signals together (bound)
  Faults       \* "db": a statement may fail; "commit": so may the answer to a
               \*   commit; "crash"; "signal": SIGTERM

ConstantsOK ==
  /\ Last \in Nat \ {0} /\ Repeatable \subseteq 1 .. Last
  /\ Long \subseteq Requests /\ MaxFailures \in Nat
  /\ Faults \subseteq {"db", "commit", "crash", "signal"}

VARIABLES
  applied,    \* schema_migrations
  committed,  \* history: how often the SQL of each migration has been committed
  pc, m,      \* servers: where each is, the migration it has in hand
  wrote,      \* the servers whose transaction has inserted its version
  conn, by,   \* requests: "new", "open", "answered", "cut"; the server that
              \*   has accepted it, in a set
  failures

schema  == <<applied, committed>>
server  == <<pc, m, wrote>>
request == <<conn, by>>
vars    == <<applied, committed, pc, m, wrote, conn, by, failures>>

TypeOK ==
  /\ applied \subseteq 1 .. Last /\ committed \in [1 .. Last -> Nat]
  /\ pc \in [Servers -> {"off", "check", "exec", "record", "commit", "recover",
                         "serve", "drain", "stopped"}]
  /\ m \in [Servers -> 1 .. Last + 1] /\ wrote \subseteq Servers
  /\ conn \in [Requests -> {"new", "open", "answered", "cut"}]
  /\ by \in [Requests -> SUBSET Servers] /\ failures \in 0 .. MaxFailures

Init ==
  /\ \E k \in 0 .. Last :
       /\ applied = 1 .. k
       /\ committed = [v \in 1 .. Last |-> IF v <= k THEN 1 ELSE 0]
  /\ pc = [s \in Servers |-> "off"] /\ m = [s \in Servers |-> 1] /\ wrote = {}
  /\ conn = [r \in Requests |-> "new"] /\ by = [r \in Requests |-> {}]
  /\ failures = 0

Goto(s, l) == pc' = [pc EXCEPT ![s] = l]
Open(s)    == {r \in Requests : conn[r] = "open" /\ s \in by[r]}

(* The process exits, with os.Exit or by a crash: the connections close,   *)
(* the database rolls back.                                                *)
Exit(s, l) ==
  /\ Goto(s, l) /\ wrote' = wrote \ {s}
  /\ conn' = [r \in Requests |-> IF r \in Open(s) THEN "cut" ELSE conn[r]]
  /\ UNCHANGED <<schema, m, by>>

Failure(f) == f \in Faults /\ failures < MaxFailures /\ failures' = failures + 1

-----------------------------------------------------------------------------
(* Started, also again after it has died: Ping, the table of migrations.   *)
StartProcess(s) ==
  /\ pc[s] = "off" /\ Goto(s, "check") /\ m' = [m EXCEPT ![s] = 1]
  /\ UNCHANGED <<schema, wrote, request, failures>>

(* Migrate, for each migration in turn: is it there already?               *)
CheckMigration(s) ==
  /\ pc[s] = "check" /\ m[s] <= Last
  /\ IF m[s] \in applied
     THEN m' = [m EXCEPT ![s] = @ + 1] /\ UNCHANGED pc
     ELSE Goto(s, "exec") /\ UNCHANGED m
  /\ UNCHANGED <<schema, wrote, request, failures>>

(* Its SQL, in a transaction.  What another server has renamed meanwhile   *)
(* is not there to be renamed.                                             *)
Apply(s) ==
  /\ pc[s] = "exec" /\ m[s] \notin applied \ Repeatable
  /\ Goto(s, "record")
  /\ UNCHANGED <<schema, m, wrote, request, failures>>

ApplyFails(s) ==
  /\ pc[s] = "exec" /\ m[s] \in applied \ Repeatable /\ Exit(s, "off")
  /\ UNCHANGED failures

(* The version, in the same transaction: the primary key makes it wait for *)
(* another transaction that has inserted it, and fail once that is         *)
(* committed.                                                              *)
(* Mutant: ON CONFLICT DO NOTHING.                                         *)
RecordAny(s) ==
  /\ pc[s] = "record" /\ ~\E t \in wrote : m[t] = m[s]
  /\ Goto(s, "commit") /\ wrote' = wrote \cup {s}
  /\ UNCHANGED <<schema, m, request, failures>>

Record(s) ==
  /\ pc[s] = "record" /\ ~\E t \in wrote : m[t] = m[s]
  /\ m[s] \notin applied
  /\ Goto(s, "commit") /\ wrote' = wrote \cup {s}
  /\ UNCHANGED <<schema, m, request, failures>>

RecordFails(s) ==
  /\ pc[s] = "record" /\ m[s] \in applied /\ Exit(s, "off")
  /\ UNCHANGED failures

Commit(s) ==
  /\ applied' = applied \cup {m[s]}
  /\ committed' = [committed EXCEPT ![m[s]] = @ + 1]
  /\ wrote' = wrote \ {s}

CommitMigration(s) ==
  /\ pc[s] = "commit" /\ Commit(s)
  /\ Goto(s, "check") /\ m' = [m EXCEPT ![s] = @ + 1]
  /\ UNCHANGED <<request, failures>>

(* The commit is done, and its answer lost.                                *)
CommitUnknown(s) ==
  /\ Failure("commit") /\ pc[s] = "commit" /\ Commit(s) /\ Goto(s, "off")
  /\ UNCHANGED <<m, request>>

(* A statement fails: the migration is rolled back and the process exits.  *)
MigrationFails(s) ==
  /\ Failure("db") /\ pc[s] \in {"check", "exec", "record", "commit", "recover"}
  /\ Exit(s, "off")

Migrated(s) ==
  /\ pc[s] = "check" /\ m[s] = Last + 1 /\ Goto(s, "recover")
  /\ UNCHANGED <<schema, m, wrote, request, failures>>

(* Recover, which returns before the server listens.                       *)
Listen(s) ==
  /\ pc[s] = "recover" /\ Goto(s, "serve")
  /\ UNCHANGED <<schema, m, wrote, request, failures>>

-----------------------------------------------------------------------------
Accept(s, r) ==
  /\ pc[s] = "serve" /\ conn[r] = "new"
  /\ conn' = [conn EXCEPT ![r] = "open"] /\ by' = [by EXCEPT ![r] = {s}]
  /\ UNCHANGED <<schema, server, failures>>

Answer(r) ==
  /\ conn[r] = "open"
  /\ conn' = [conn EXCEPT ![r] = "answered"]
  /\ UNCHANGED <<schema, server, by, failures>>

(* SIGTERM: the listener is closed, the handlers under way go on.  A       *)
(* signal during start-up cancels the context that Migrate and Recover run *)
(* on, which fail.                                                         *)
Signal(s) ==
  /\ Failure("signal")
  /\ \/ pc[s] = "serve" /\ Goto(s, "drain") /\ UNCHANGED <<schema, m, wrote, request>>
     \/ pc[s] \in {"check", "exec", "record", "commit", "recover"} /\ Exit(s, "stopped")

(* Shutdown returns when the last handler has: db.Close and exit 0.        *)
Leave(s) ==
  /\ pc[s] = "drain" /\ Open(s) = {} /\ Exit(s, "stopped")
  /\ UNCHANGED failures

(* Ten seconds have passed: exit 1.                                        *)
(* Mutant: no limit.                                                       *)
DrainForEver(s) == Leave(s)

DrainTimesOut(s) ==
  /\ pc[s] = "drain" /\ Open(s) # {} /\ Open(s) \subseteq Long
  /\ Exit(s, "stopped")
  /\ UNCHANGED failures

Crash(s) ==
  /\ Failure("crash") /\ pc[s] \notin {"off", "stopped"} /\ Exit(s, "off")

Advance(s) ==
  \/ StartProcess(s) \/ CheckMigration(s) \/ Apply(s) \/ ApplyFails(s) \/ Record(s)
  \/ RecordFails(s) \/ CommitMigration(s) \/ Migrated(s) \/ Listen(s)
  \/ Leave(s) \/ DrainTimesOut(s)

Next ==
  \/ \E s \in Servers : \/ Advance(s) \/ CommitUnknown(s) \/ MigrationFails(s)
                        \/ Signal(s) \/ Crash(s)
                        \/ \E r \in Requests : Accept(s, r)
  \/ \E r \in Requests : Answer(r)

Spec == Init /\ [][Next]_vars

(* Processes run, and are started again when they have died (the           *)
(* Deployment in kubernetes-manifests); handlers but the long ones end.    *)
LiveSpec ==
  /\ Spec
  /\ \A s \in Servers : WF_vars(Advance(s))
  /\ \A r \in Requests \ Long : WF_vars(Answer(r))

-----------------------------------------------------------------------------
(* The schema is at every moment the one that a lone server would have     *)
(* made: a first part of the migrations, each with its effect, and once,   *)
(* whatever servers migrate at once, die or lose the answer to a commit;   *)
(* and nobody is served on a schema that is not the last one.              *)
AppliedOnceInOrder ==
  /\ \E k \in 0 .. Last : applied = 1 .. k
  /\ \A v \in 1 .. Last : committed[v] = IF v \in applied THEN 1 ELSE 0

SchemaIsWhole ==
  /\ AppliedOnceInOrder
  /\ \A s \in Servers : pc[s] \in {"serve", "drain"} => applied = 1 .. Last

(* Every process comes up, or is told to stop and does: two that migrate   *)
(* at once do not keep failing for each other, and a stream keeps none     *)
(* from leaving.                                                           *)
ComesUpOrStops ==
  \A s \in Servers : <>[](pc[s] \in {"serve", "stopped"})
=============================================================================
