SPECIFICATION FairSpec
CONSTANTS
  Thread = {t1, t2}
  dont_fail = TRUE
  MaxCalls = 2
  Text = {Empty, x, y}
  Empty = Empty
  Foreign = {}
  g_request = x
  g_attachment = y
  echo_attachment = TRUE
  max_retry = 1
  MaxSends = 3
INVARIANTS TypeOK Tally ChannelThere EchoedBack AnsweredWasRun NumbersWithoutGap
PROPERTIES QuitReturns ServerQuits
CHECK_DEADLOCK FALSE
