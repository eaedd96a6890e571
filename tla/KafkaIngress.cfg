CONSTANTS
  p1 = p1
  p2 = p2
  p3 = p3
  ta = ta
  tb = tb
  Partitions = {p1, p2, p3}
  Topics = {ta, tb}
  TopicOf <- MCTopicOf
  Log <- MCLog
  BatchSize = 3
  QueueCapacity = 2
  MaxRestarts = 1
SPECIFICATION FairSpec
INVARIANTS
  FlushedBeforeFailure
PROPERTIES
  AtLeastOnce
  FetchedIsSettled
CHECK_DEADLOCK FALSE
