SPECIFICATION ValidationSpec
CONSTANTS
  r1 = r1
  r2 = r2
  r3 = r3
  ghost = ghost
  s1 = s1
  s2 = s2
  c1 = c1
  c2 = c2
  c3 = c3
  k1 = k1
  Runs = {r1, r2, r3}
  Others = {ghost}
  Specs = {s1, s2}
  Comps = {c1, c2, c3}
  Types <- Kinds3
  Requests <- Menu
  Creators = {k1}
  MaxDepth = 2
  Reuse = FALSE
INVARIANTS
  AcceptsOnlyRunnable
  AcceptsOnlyReplayable
  RejectsForCause
  LooksUpOnlyRuns
  LibraryTypeOK
  RulesCompile
  ParallelFaultsCoexist
PROPERTIES
  Terminates
CHECK_DEADLOCK FALSE
