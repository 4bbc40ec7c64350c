SPECIFICATION Spec
CONSTANTS
  c1 = c1
  c2 = c2
  r1 = r1
  d1 = d1
  d2 = d2
  m1 = m1
  Call = {c1, c2}
  Request = {r1}
  Payload = {d1, d2}
  Runtime = {m1}
  Nobody = Nobody
  MaxFaults = 1
  MaxCrashes = 0
CHECK_DEADLOCK FALSE
INVARIANT ReplayIsOwn
