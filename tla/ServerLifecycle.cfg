SPECIFICATION FairSpec
CONSTANTS
  Call = {c1, c2, c3}
  MaxLeaderships = 2
INVARIANTS PhasesInv QuietAtReturn
PROPERTY QuitReturns
CHECK_DEADLOCK FALSE
