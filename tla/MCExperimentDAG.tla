--------------------------- MODULE MCExperimentDAG ---------------------------
(* TLC instances of ExperimentDAG: run graphs, and symmetry between the    *)
(* goroutines that have nothing of their own and the entry points of Join. *)
EXTENDS ExperimentDAG, TLC

CONSTANTS base, iso1, iso2

Three == {base, iso1, iso2}

(* Two isolation runs after the baseline.                                  *)
Fan  == [r \in Three |-> IF r = base THEN {} ELSE {base}]

(* Two entry points and a run that waits for both.                         *)
Join == [r \in Three |-> IF r = iso2 THEN {base, iso1} ELSE {}]

JoinSymmetry == Permutations(Advancers) \cup Permutations({base, iso1})
=============================================================================
