SPECIFICATION ProfileSpec
CONSTANTS
  MaxEntries = 2
  MaxVersions = 2
  Keys = {1, 2}
  Rows = {1, 2}
  Matching = {1, 2}
  Windows <- MCLimited
  NoLimit <- MCNoLimit
  YieldBeforeCommit = TRUE
  MaxLoad = 2
  MaxBatch = 2
  MaxLeases = 1
  MaxOthers = 0
  MaxVersion = 2
INVARIANTS
  Settled
