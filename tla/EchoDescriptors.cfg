SPECIFICATION FairSpec
CONSTANTS
  Thread = {main, t1, t2}
  Main = main
  NULL = NULL
  NoThread = NoThread
INVARIANTS TypeOK AnswersWhole NothingLost
PROPERTY EveryoneAnswered
CHECK_DEADLOCK FALSE
