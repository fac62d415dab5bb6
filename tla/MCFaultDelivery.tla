-------------------------- MODULE MCFaultDelivery --------------------------
(* TLC instances of FaultDelivery: where configs and instances belong.     *)
EXTENDS FaultDelivery, TLC

CONSTANTS f1, f2, s1, s2

(* Everything belongs to one service; or each config has its own.          *)
OneService  == [x \in Configs \cup SDKs |-> "orders"]
TwoServices == [x \in Configs \cup SDKs |-> IF x \in {f2, s2} THEN "billing" ELSE "orders"]

CallSymmetry == Permutations(Calls)
=============================================================================
