CONSTANTS
  m1 = m1
  m2 = m2
  s1 = s1
  s2 = s2
  a1 = a1
  qa = qa
  None = None
  Mutators = {m1, m2}
  Subscribers = {s1}
  Admins = {a1}
  Queries = {qa}
  QueryOf <- SharedQuery
  Contents <- MCContents
  Empty = "empty"
  Results <- MCResults
  View <- MCView
  QueueCapacity = 1
  Interruptible = FALSE
  YieldBeforeCommit = FALSE
  MaxCalls = 2
  MaxResets = 0
SPECIFICATION FairSpec
PROPERTIES
  CallsReturn
  ClientLearnsClosure
  Converges
CHECK_DEADLOCK FALSE
