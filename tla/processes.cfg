SPECIFICATION ProcessesSpec
CONSTANTS
  v1 = v1
  v2 = v2
  x1 = x1
  m1 = m1
  m2 = m2
  k1 = k1
  k2 = k2
  e1 = e1
  t1 = t1
  p1 = p1
  p2 = p2
  Nobody = Nobody
  Count = 3
  MaxLimit = 3
  Observation = {v1, v2}
  Releaser = {x1}
  Runtime = {m1, m2}
  Key = {k1, k2}
  Endpoint = {e1}
  MaxSessions = 2
  MaxFaults = 1
  Runs = 1
  Task = {t1}
  MaxDeaths = 1
  Operators = 2
  Launch = {p1, p2}
  SessionLimit = 1
CHECK_DEADLOCK FALSE
INVARIANTS
  TypeOK
  PlanIsRespected
  SessionsAreOwned
  HostIsSupervised
  ProcessesAreKept
PROPERTIES
  NothingStartsAfterFailure
  EverythingEnds
