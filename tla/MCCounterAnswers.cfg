SPECIFICATION FairSpec
CONSTANTS
  Server = {s1, s2}
  Request = {r1}
  Query = {q1}
  NoOp = NoOp
  NoServer = NoServer
  Delta <- MCDelta
  Half = 2
  MaxTerm = 2
  CheckTerm = TRUE
  SnapshotsOn = FALSE
  Crashable = {s1}
INVARIANT TermReadsComplete
PROPERTY AlwaysAnswered
CHECK_DEADLOCK FALSE
