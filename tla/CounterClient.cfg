SPECIFICATION ThreadSpec
CONSTANTS
  Peer = {p1, p2}
  Thread = {t1, t2}
  Nobody = Nobody
  MaxElections = 2
  MaxLosses = 1
INVARIANT TypeOK
PROPERTIES EveryThreadServed QuitReturns
CHECK_DEADLOCK FALSE
