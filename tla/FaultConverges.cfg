SPECIFICATION LiveSpec
CONSTANTS
  c1 = c1
  c2 = c2
  c3 = c3
  f1 = f1
  f2 = f2
  s1 = s1
  s2 = s2
  Configs = {f1, f2}
  Finite = {f1}
  Composite = {}
  SDKs = {s1}
  Service <- TwoServices
  Calls = {c1, c2, c3}
  Ops = {"create", "fire", "cancel", "rule", "spec"}
  Faults = {"lost"}
PROPERTIES
  Converges
CHECK_DEADLOCK FALSE
