SPECIFICATION FairSpec
CONSTANTS
  Thread = {t1, t2}
  loop_number = 2
  echo_attachment = TRUE
  dont_fail = TRUE
  Nothing = Nothing
  MaxTroubles = 1
INVARIANTS TypeOK CountExact FailuresExplained
PROPERTY SuiteEnds
CHECK_DEADLOCK FALSE
