SPECIFICATION Spec
CONSTANTS
  c1 = c1
  c2 = c2
  Calls = {c1, c2}
  Boots = {}
  NumPhases = 2
  HasCond = TRUE
  HasTarget = TRUE
  Serial = FALSE
  Prompt = TRUE
  MaxRows = 2
  Faults = {"load", "zeusID", "zeusStop", "zeusStart", "zeusFail"}
INVARIANTS
  RegisteredIsLive
PROPERTIES
  FirstTerminalWins
SYMMETRY CallSymmetry
CHECK_DEADLOCK FALSE
