CONSTANTS
  t1 = t1
  t2 = t2
  p1 = p1
  TimeClients <- TwoTimes
  LLAClients <- OnePosition
  QueueBound = 1
SPECIFICATION FairSpec
INVARIANT ZeroMeansReadUnlessDisturbed
PROPERTY QueryAnswered
CHECK_DEADLOCK FALSE
