SPECIFICATION Spec
CONSTANTS
  Server = {s1, s2}
  Request = {r1, r2}
  Query = {}
  NoOp = NoOp
  NoServer = NoServer
  Delta <- MCDelta
  Half = 2
  MaxTerm = 2
  CheckTerm = TRUE
  SnapshotsOn = FALSE
  Crashable = {}
INVARIANTS TypeOK AcknowledgedDurable ExpectedTermRespected
PROPERTY ImplementsService
CHECK_DEADLOCK FALSE
