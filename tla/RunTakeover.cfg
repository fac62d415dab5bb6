SPECIFICATION Spec
CONSTANTS
  c1 = c1
  c2 = c2
  c3 = c3
  Calls = {c1, c2, c3}
  Boots = {}
  NumPhases = 3
  HasCond = TRUE
  HasTarget = FALSE
  Serial = TRUE
  Prompt = TRUE
  MaxRows = 2
  Faults = {}
PROPERTIES
  CancelledStays
SYMMETRY CallSymmetry
CHECK_DEADLOCK FALSE
