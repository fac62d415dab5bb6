------------------------------ MODULE MCStores ------------------------------
(* TLC instance of the three components of Stores, which are small enough  *)
(* to share a run: the first state says whose behaviour it begins, and the *)
(* others stay as they are.                                                *)
EXTENDS Stores

CONSTANTS r1, d1, k1, k2, q1, q2, q3, i1, i2, f1, f2, f3, c1

VARIABLE part

-----------------------------------------------------------------------------
(* Two batches for one service and one for another, whose disk may hang.   *)
(* The only read preloads the first: an admission changes no file, so that *)
(* a reader that comes before the run has completed sees nothing else.     *)
OneRun      == [k \in Keys |-> r1]
LastForK2   == [q \in Requests |-> IF q = q3 THEN k2 ELSE k1]
FirstHasTwo == [q \in Requests |-> IF q = q1 THEN 2 ELSE 1]
OfK1        == [d \in Readers |-> k1]

(* Two instances with a route in common.                                   *)
CartInCommon == [i \in Instances |-> IF i = i1 THEN {"cart"} ELSE {"cart", "checkout"}]

(* Three workflows in the order of their IDs, pages of one or two of them. *)
ByID == [w \in Workflows |-> CASE w = f1 -> 1 [] w = f2 -> 2 [] w = f3 -> 3]

ASSUME StoresAssumption ==
  ConstantsOK /\ Endpoints!ConstantsOK /\ Lists!ConstantsOK

-----------------------------------------------------------------------------
all == <<part, vars, endpointVars, listVars>>

(* The parts that stay as they are do so in one of their initial states.   *)
StoresInit ==
  /\ part \in {"cache", "catalog", "lists"}
  /\ Init /\ Endpoints!Init
  /\ Lists!Init /\ (part # "lists" => asked[c1] = 0)

(* Step A of part p.                                                       *)
Of(p, A) ==
  /\ part = p /\ A /\ UNCHANGED part
  /\ IF p = "cache" THEN TRUE ELSE UNCHANGED vars
  /\ IF p = "catalog" THEN TRUE ELSE UNCHANGED endpointVars
  /\ IF p = "lists" THEN TRUE ELSE UNCHANGED listVars

StoresNext ==
  \/ Of("cache", Next)
  \/ Of("catalog", Endpoints!Next)
  \/ Of("lists", Lists!Next)

(* The fairness each part states in its LiveSpec.  Since only the steps of *)
(* one part can be enabled, being fair to a step of each is being fair to  *)
(* their union.                                                            *)
Serving(q) == Of("cache", Write(q)) \/ Of("catalog", Endpoints!Serve(q))

StoresSpec ==
  /\ StoresInit /\ [][StoresNext]_all
  /\ \A q \in {q1, q2} : WF_all(Serving(q)) /\ SF_all(Of("catalog", Endpoints!Lock(q)))
=============================================================================
