SPECIFICATION LiveSpec
CONSTANTS
  i1 = i1
  i2 = i2
  o1 = o1
  o2 = o2
  Instances = {i1, i2}
  Ops = {o1, o2}
  Concurrency = 1
  Hung = {i2}
  Starts = 1
  Faults = {"resolve", "silent", "crash"}
INVARIANTS
  NobodyMissed
PROPERTIES
  OperationsReturn
CHECK_DEADLOCK FALSE
