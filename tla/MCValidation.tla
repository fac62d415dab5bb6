---------------------------- MODULE MCValidation ----------------------------
(* TLC instance of the two validations that walk a structure an operator   *)
(* has given: run graphs (RunGraph) and fault compositions (FaultLibrary). *)
(* They share nothing; a behaviour is one of the first or of the second.   *)
EXTENDS RunGraph, FaultLibrary

CONSTANTS r1, r2, r3, ghost, s1, s2, c1, c2, c3, k1

VARIABLE part

ASSUME LibraryAssumption == ConstantsOK

EmptyGraph ==
  /\ deps = [r \in Runs |-> {}] /\ elsewhere = {} /\ kind = [r \in Runs |-> "baseline"]
  /\ stack = <<>> /\ visited = Runs /\ onPath = {}
  /\ unchecked = {} /\ walking = {} /\ seen = {} /\ verdict = "ok"

ValidationInit ==
  /\ LibraryInit
  /\ \/ part = "graph" /\ Init
     \/ part = "library" /\ EmptyGraph

GraphStep   == part = "graph" /\ Next /\ UNCHANGED <<libraryVars, part>>
LibraryStep == part = "library" /\ LibraryNext /\ UNCHANGED <<vars, part>>

ValidationSpec ==
  /\ ValidationInit /\ [][GraphStep \/ LibraryStep]_<<vars, libraryVars, part>>
  /\ WF_<<vars, libraryVars, part>>(GraphStep)

-----------------------------------------------------------------------------
(* The library: three fault types, and compositions of two members that    *)
(* nest up to one level deeper than MaxDepth = 2 allows.                   *)
Kinds3 == {<<"network", "latency">>, <<"network", "blackhole">>, <<"inline", "error">>}

M(ref, dir) == [ref |-> ref, dir |-> dir]
Composition(id, mode, m, n) == [id |-> id, mode |-> mode, members |-> <<m, n>>]

Menu == {
  Composition(c1, "parallel", M(s1, "upstream"), M(s2, "")),
  Composition(c1, "parallel", M(s1, "upstream"), M(s1, "downstream")),
  Composition(c1, "sequential", M(s1, ""), M(s2, "")),
  Composition(c2, "parallel", M(s1, ""), M(s2, "downstream")),
  Composition(c2, "parallel", M(c1, "downstream"), M(s1, "")),
  Composition(c2, "sequential", M(c1, "upstream"), M(s2, "")),
  Composition(c3, "parallel", M(c2, ""), M(s1, "upstream")),
  Composition(c3, "sequential", M(c2, "downstream"), M(c1, ""))}
=============================================================================
