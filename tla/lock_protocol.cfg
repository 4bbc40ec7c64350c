SPECIFICATION FairSpec
CONSTANTS
  r1 = r1
  r2 = r2
  Runtime = {r1, r2}
  NoLock = NoLock
  MaxCalls = 2
  MaxCrashes = 1
  MaxFailures = 1
  MayRestart = TRUE
  SlowPhase = {"write", "inspect", "held", "removing"}
CHECK_DEADLOCK FALSE
INVARIANTS
  TypeOK
  ExclusionUnlessStolen
PROPERTIES
  TheftOnlyByRace
  AcquireEnds
