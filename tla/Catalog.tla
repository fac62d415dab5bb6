------------------------------- MODULE Catalog -------------------------------
(***************************************************************************)
(* The catalog of endpoints (internal/api/catalog_handler.go): the routes  *)
(* of the instances that have polled lately, merged, and cached for a      *)
(* while.  A mutex is held from the test of the cache to the end of the    *)
(* query that renews it, so that requests wait for each other.             *)
(***************************************************************************)
EXTENDS Integers, FiniteSets

CONSTANTS
  Instances,
  Routes,     \* Routes[i]: the set of (service, method, path) that i publishes
  Requests,   \* GET /catalog/endpoints (bound)
  Freshness,  \* catalogFreshness: 2 minutes in the code
  TTL,        \* catalogCacheTTL: 30 seconds
  MaxQuery,   \* the longest a query takes (bound)
  Faults      \* "list": the query may fail; "hangup": a client may go away

ConstantsOK ==
  /\ IsFiniteSet(Instances) /\ DOMAIN Routes = Instances
  /\ Freshness \in Nat \ {0} /\ TTL \in Nat \ {0} /\ MaxQuery \in Nat
  /\ Faults \subseteq {"list", "hangup"}

VARIABLES
  rows, age, \* the instances with a row; age[i], time since i last polled, up to Old
  mu,        \* the request that holds the mutex, in a set
  payload, ttl,  \* the cached endpoints; the time until expiresAt
  pc, fresh, \* requests: where each is, what its query saw
  waited,    \* the time the query under way has taken, up to MaxQuery
  steady     \* history: how long i has been live without a break, up to Old

polls   == <<rows, age, steady>>
cache   == <<payload, ttl>>
request == <<pc, fresh>>
vars    == <<rows, age, mu, payload, ttl, pc, fresh, waited, steady>>

Old  == Freshness + TTL + MaxQuery
Live == {i \in rows : age[i] < Freshness}

Endpoints == UNION {Routes[i] : i \in Instances}

TypeOK ==
  /\ rows \subseteq Instances
  /\ age \in [Instances -> 0 .. Old] /\ steady \in [Instances -> 0 .. Old]
  /\ mu \in SUBSET Requests /\ Cardinality(mu) <= 1
  /\ payload \subseteq Endpoints /\ ttl \in 0 .. TTL
  /\ pc \in [Requests -> {"idle", "lock", "test", "query", "store"}]
  /\ fresh \in [Requests -> SUBSET Endpoints]
  /\ waited \in 0 .. MaxQuery

Init ==
  /\ rows = {} /\ age = [i \in Instances |-> Old] /\ steady = [i \in Instances |-> 0]
  /\ mu = {} /\ payload = {} /\ ttl = 0
  /\ pc = [q \in Requests |-> "idle"]
  /\ fresh = [q \in Requests |-> {}] /\ waited = 0

AtMost(m, n) == IF m <= n THEN m ELSE n
Querying == \E q \in Requests : pc[q] \in {"query", "store"}

-----------------------------------------------------------------------------
(* Time passes, in a query no more than MaxQuery.                          *)
Elapse ==
  /\ Querying => waited < MaxQuery
  /\ waited' = IF Querying THEN waited + 1 ELSE waited
  /\ age' = [i \in Instances |-> AtMost(age[i] + 1, Old)]
  /\ steady' = [i \in Instances |->
                  IF i \in rows /\ age[i] + 1 < Freshness THEN AtMost(steady[i] + 1, Old) ELSE 0]
  /\ ttl' = IF ttl > 0 THEN ttl - 1 ELSE 0
  /\ UNCHANGED <<rows, mu, payload, request>>

(* An instance registers; it polls, which touches its row if it has one;   *)
(* it deregisters, or its row is purged.                                   *)
Register(i) ==
  /\ rows' = rows \cup {i} /\ age' = [age EXCEPT ![i] = 0]
  /\ UNCHANGED <<mu, cache, request, waited, steady>>

Poll(i) ==
  /\ i \in rows /\ age' = [age EXCEPT ![i] = 0]
  /\ UNCHANGED <<rows, mu, cache, request, waited, steady>>

Deregister(i) ==
  /\ i \in rows /\ rows' = rows \ {i} /\ steady' = [steady EXCEPT ![i] = 0]
  /\ UNCHANGED <<age, mu, cache, request, waited>>

-----------------------------------------------------------------------------
(* handleListCatalogEndpoints.                                             *)
Goto(q, l) == pc' = [pc EXCEPT ![q] = l]

Ask(q) ==
  /\ pc[q] = "idle" /\ Goto(q, "lock")
  /\ UNCHANGED <<polls, mu, cache, fresh, waited>>

(* Mutant: a read lock.                                                    *)
LockShared(q) ==
  /\ pc[q] = "lock" /\ mu' = mu \cup {q} /\ Goto(q, "test")
  /\ UNCHANGED <<polls, cache, fresh, waited>>

Lock(q) ==
  /\ pc[q] = "lock" /\ mu = {} /\ mu' = {q} /\ Goto(q, "test")
  /\ UNCHANGED <<polls, cache, fresh, waited>>

(* Every return unlocks.                                                   *)
Return(q) ==
  /\ Goto(q, "idle") /\ mu' = {}
  /\ fresh' = [fresh EXCEPT ![q] = {}] /\ waited' = 0

Hit(q) ==
  /\ pc[q] = "test" /\ ttl > 0 /\ Return(q)
  /\ UNCHANGED <<polls, cache>>

Miss(q) ==
  /\ pc[q] = "test" /\ ttl = 0 /\ Goto(q, "query")
  /\ UNCHANGED <<polls, mu, cache, fresh, waited>>

(* ListLive sees the table at one moment; its answer may take longer.      *)
ListLive(q) ==
  /\ pc[q] = "query" /\ Goto(q, "store")
  /\ fresh' = [fresh EXCEPT ![q] = UNION {Routes[i] : i \in Live}]
  /\ UNCHANGED <<polls, mu, cache, waited>>

(* The query fails, also because the client whose context it runs on has   *)
(* gone: an error for it, and nothing is cached.                           *)
ListFails(q) ==
  /\ pc[q] = "query" /\ Faults # {} /\ Return(q)
  /\ UNCHANGED <<polls, cache>>

(* Mutant: what is found is added to what the cache has.                   *)
StoreMerged(q) ==
  /\ pc[q] = "store" /\ payload' = payload \cup fresh[q] /\ ttl' = TTL
  /\ Return(q)
  /\ UNCHANGED polls

Store(q) ==
  /\ pc[q] = "store" /\ payload' = fresh[q] /\ ttl' = TTL
  /\ Return(q)
  /\ UNCHANGED polls

Serve(q) == \/ Lock(q) \/ Hit(q) \/ Miss(q) \/ ListLive(q) \/ ListFails(q)
            \/ Store(q)

Next ==
  \/ Elapse
  \/ \E i \in Instances : Register(i) \/ Poll(i) \/ Deregister(i)
  \/ \E q \in Requests : Ask(q) \/ Serve(q)

Spec == Init /\ [][Next]_vars

(* Goroutines run and queries end; a sync.Mutex is handed to whoever has   *)
(* waited longest once that is over a millisecond.                         *)
LiveSpec ==
  Spec /\ \A q \in Requests : WF_vars(Serve(q)) /\ SF_vars(Lock(q))

-----------------------------------------------------------------------------
(* Both answers of the handler are what the cache then holds.              *)
Answer(q) == Hit(q) \/ Store(q)

(* What the catalog shows was published by an instance that had polled     *)
(* within the freshness when the catalog was read, which was no longer ago *)
(* than the lifetime of the cache and a query: an instance that has gone   *)
(* drops out after that, and not after one poll it misses.  And one that   *)
(* has been polling for longer than the cache lives is shown to everyone   *)
(* who gets an answer: neither the cache nor a failed query hides it.      *)
CatalogIsCurrent ==
  [][\A q \in Requests : Answer(q) =>
       /\ \A e \in payload' : \E i \in Instances : e \in Routes[i] /\ age[i] <= Old - 2
       /\ \A i \in Instances :
            steady[i] >= TTL + MaxQuery => Routes[i] \subseteq payload']_vars

(* Whoever asks is answered, whoever else's query fails or whoever leaves. *)
AsksAreAnswered ==
  \A q \in Requests : []<>(pc[q] = "idle")
=============================================================================
