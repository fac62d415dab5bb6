SPECIFICATION Spec
CONSTANTS
  base = base
  iso1 = iso1
  iso2 = iso2
  a1 = a1
  a2 = a2
  b1 = b1
  s1 = s1
  Runs <- Three
  DependsOn <- Join
  Starts = {s1}
  Ops = {}
  Advancers = {a1, a2}
  Boots = {b1}
  Operator = {"pause", "stop"}
  Faults = {"start", "disconnect", "lost"}
INVARIANTS
  VerdictIsEarned
PROPERTIES
  StartsAfterDependencies
  FailsAfterDependency
SYMMETRY JoinSymmetry
CHECK_DEADLOCK FALSE
