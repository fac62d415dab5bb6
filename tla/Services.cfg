SPECIFICATION ServicesSpec
CONSTANTS
  c1 = c1
  c2 = c2
  w1 = w1
  w2 = w2
  high = high
  low = low
  s1 = s1
  s2 = s2
  r1 = r1
  r2 = r2
  Clients = {c1, c2}
  Writers = {w1, w2}
  Buffer = 1
  Stalled = {c1}
  Faults = {"version"}
  Policies = {high, low}
  Cooldown <- ShortAndLong
  Kind <- PushAndClear
  TickInterval = 2
  Flaky = {high}
  MaxBoots = 1
  PolicyFaults = {"list"}
  WatchInterval = 2
  Window = 5
  WatchFaults = {"query"}
  Servers = {s1, s2}
  Last = 3
  Repeatable = {1}
  Requests = {r1, r2}
  Long = {r2}
  MaxFailures = 2
  ProcessFaults = {"db", "commit", "crash", "signal"}
INVARIANTS
  NoSendOnClosed
  DropsAreHarmless
  AdvanceIsEarned
  SchemaIsWhole
PROPERTIES
  WritersFinish
  LeaversAreForgotten
  CooldownHeld
  HealthyPolicyActs
  WatcherEnds
  ComesUpOrStops
CHECK_DEADLOCK FALSE
