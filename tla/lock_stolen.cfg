SPECIFICATION Spec
CONSTANTS
  r1 = r1
  r2 = r2
  Runtime = {r1, r2}
  NoLock = NoLock
  MaxCalls = 2
  MaxCrashes = 0
  MaxFailures = 0
  MayRestart = FALSE
  SlowPhase = {"held"}
CHECK_DEADLOCK FALSE
INVARIANT MutualExclusion
