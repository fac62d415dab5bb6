SPECIFICATION LiveSpec
CONSTANTS
  c1 = c1
  Calls = {c1}
  Boots = {}
  NumPhases = 1
  HasCond = FALSE
  HasTarget = TRUE
  Serial = TRUE
  Prompt = TRUE
  MaxRows = 2
  Faults = {}
PROPERTIES
  RunningRunEnds
CHECK_DEADLOCK FALSE
