SPECIFICATION Spec
CONSTANTS
  p1 = p1
  Nobody = Nobody
  Process = {p1}
  MaxCommits = 2
  MaxFaults = 1
  MaxCrashes = 0
  MaxDamages = 0
  TornAppend = FALSE
  ReleaseMayFail = TRUE
CHECK_DEADLOCK FALSE
INVARIANT ErrorsHideNoCommit
