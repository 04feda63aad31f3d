SPECIFICATION Spec
CONSTANTS
  Server = {s1, s2}
  Request = {r1}
  Query = {}
  NoOp = NoOp
  NoServer = NoServer
  Delta <- MCDelta
  Half = 2
  MaxTerm = 2
  CheckTerm = TRUE
  SnapshotsOn = TRUE
  Crashable = {s1}
INVARIANTS StateMatchesLog SnapshotMatchesLog LoadNeverOnLeader
CHECK_DEADLOCK FALSE
