SPECIFICATION Spec
CONSTANTS
  Mutators = {m1}
  Readers = {r1, r2}
  Watchers = {w1}
  Tokens = {1, 2}
  None = None
  NoValue = NoValue
  Status = Status
  QueueSize = 1
  MaxCommits = 2
  MaxEpoch = 1
  Sockets = {s1, s2, s3}
  MaxConnections = 2
  MaxQueuedCommands = 2
  MaxGlobalQueuedCommands = 3
  MaxLines = 2
  Sources <- KafkaSources
  Feeds <- MaterializedFeeds
  MaxReconnects = 1
  Subscriptions = {q1, q2}
  BufferSize = 1
  MaxEvents = 2
  Failure = Failure
  Overflow = Overflow
  Requests = {c1, c2, c3}
  MaxSharedReads = 2
  Closers = {u1, u2}
  Startup = Startup
INVARIANTS
  WatchersAreCurrent
  CommandsAreAccounted
  FailureStaysVisible
  BudgetIsRespected
  ReadersAreTold
  WaitersAreAnswered
  NothingOutlivesTheCore
PROPERTIES
  HealthNeverGoesBack
  HealthCatchesUp
CHECK_DEADLOCK FALSE
