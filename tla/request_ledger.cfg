SPECIFICATION ServicesSpec
CONSTANTS
  c1 = c1
  c2 = c2
  c3 = c3
  r1 = r1
  d1 = d1
  d2 = d2
  m1 = m1
  m2 = m2
  o1 = o1
  o2 = o2
  q1 = q1
  t1 = t1
  Call = {c1, c2, c3}
  Request = {r1}
  Payload = {d1, d2}
  Runtime = {m1, m2}
  Nobody = Nobody
  MaxFaults = 3
  MaxCrashes = 1
  Earlier = Earlier
  MaxLosses = 2
  Op = {o1, o2}
  Cleaner = {q1}
  Mission = Mission
  Stray = Stray
  Nothing = Nothing
  Runs = 2
  Task = {t1}
  MaxDeaths = 1
SYMMETRY Symmetry
CHECK_DEADLOCK FALSE
INVARIANTS
  ServicesTypeOK
  RunOnce
  ResultIsDurable
  DoubtIsUnknown
  LogTellsTheTruth
  RemovesOnlyOrphans
  GroupsAreContained
PROPERTIES
  SettledForGood
  KeepsPromise
  CancelledNeverForks
