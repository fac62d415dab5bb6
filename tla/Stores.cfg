SPECIFICATION StoresSpec
CONSTANTS
  r1 = r1
  d1 = d1
  k1 = k1
  k2 = k2
  q1 = q1
  q2 = q2
  q3 = q3
  i1 = i1
  i2 = i2
  f1 = f1
  f2 = f2
  f3 = f3
  c1 = c1
  Runs = {r1}
  Persists = {r1}
  Keys = {k1, k2}
  RunOf <- OneRun
  Requests = {q1, q2, q3}
  Target <- LastForK2
  Size <- FirstHasTwo
  Readers = {d1}
  Source <- OfK1
  Preloads = {d1}
  Stuck = {k2}
  MaxCrashes = 1
  Faults = {"disk", "rows", "volume"}
  Instances = {i1, i2}
  Routes <- CartInCommon
  CatalogRequests = {q1, q2}
  Freshness = 2
  TTL = 2
  MaxQuery = 1
  CatalogFaults = {"list"}
  Workflows = {f1, f2, f3}
  Order <- ByID
  Clients = {c1}
  Asked = {0, 3}
  DefaultLimit = 1
  MaxLimit = 2
  MaxClock = 1
INVARIANTS
  PartsTypeOK
  NoSilentLoss
  MissesAtMostDeleted
PROPERTIES
  ImplementsLog
  RequestsAreAnswered
  CatalogIsCurrent
CHECK_DEADLOCK FALSE
