SPECIFICATION LiveSpec
CONSTANTS
  base = base
  iso1 = iso1
  iso2 = iso2
  a1 = a1
  a2 = a2
  o1 = o1
  s1 = s1
  Runs <- Three
  DependsOn <- Join
  Starts = {s1}
  Ops = {o1}
  Boots = {}
  Operator = {}
  Faults = {}
  Advancers = {a1, a2}
INVARIANTS
  NoReadyRunWaits
PROPERTIES
  ExperimentMovesOn
CHECK_DEADLOCK FALSE
