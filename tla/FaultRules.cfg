SPECIFICATION Spec
CONSTANTS
  c1 = c1
  c2 = c2
  c3 = c3
  f1 = f1
  f2 = f2
  s1 = s1
  s2 = s2
  Configs = {f1, f2}
  Finite = {f1}
  Composite = {f2}
  SDKs = {s1}
  Service <- OneService
  Calls = {c1, c2, c3}
  Ops = {"create", "fire", "cancel", "delete", "rule", "spec"}
  Faults = {"lost", "restart", "disconnect", "crash", "list"}
INVARIANTS
  RulesConverged
  FaultsConverged
SYMMETRY CallSymmetry
CHECK_DEADLOCK FALSE
