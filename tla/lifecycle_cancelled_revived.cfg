SPECIFICATION Spec
CONSTANTS
  a1 = a1
  a2 = a2
  Call = {a1, a2}
  MaxSource = 1
  MaxHead = 2
  MaxCandidates = 2
  MaxProposals = 2
  MaxTurns = 2
SYMMETRY Symmetry
CHECK_DEADLOCK FALSE
PROPERTY CancelledIsFinal
