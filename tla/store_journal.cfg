SPECIFICATION FairSpec
CONSTANTS
  p1 = p1
  p2 = p2
  Nobody = Nobody
  Process = {p1, p2}
  MaxCommits = 3
  MaxFaults = 2
  MaxCrashes = 1
  MaxDamages = 1
  TornAppend = TRUE
  ReleaseMayFail = TRUE
CHECK_DEADLOCK FALSE
INVARIANTS
  TypeOK
  AuditInOrder
  OneCommitBehind
  AnswersAreTrue
PROPERTIES
  ImplementsJournal
  OperationEnds
