SPECIFICATION Spec
CONSTANTS
  b1 = b1
  c1 = c1
  c2 = c2
  c3 = c3
  Calls = {c1, c2, c3}
  Boots = {b1}
  NumPhases = 3
  HasCond = TRUE
  HasTarget = TRUE
  Serial = TRUE
  Prompt = FALSE
  MaxRows = 0
  Faults = {"load", "zeusStart", "zeusID", "zeusStop", "zeusGet", "disconnect"}
INVARIANTS
  NoLeakedGoroutine
  AttackKnown
  PausedIsQuiet
PROPERTIES
  ImplementsRunFSM
CONSTRAINT FewAtOnce
SYMMETRY CallSymmetry
CHECK_DEADLOCK FALSE
