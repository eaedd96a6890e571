SPECIFICATION ProfileSpec
CONSTANTS
  MaxEntries = 3
  MaxVersions = 2
  Keys = {1, 2, 3}
  Rows = {1, 2, 3}
  Matching = {1, 2}
  Windows <- MCWindows
  NoLimit <- MCNoLimit
  YieldBeforeCommit = FALSE
  MaxLoad = 4
  MaxBatch = 4
  MaxLeases = 2
  MaxOthers = 1
  MaxVersion = 4
INVARIANTS
  RetainedIsPrefix
  ShownIsReference
  JournalReplays
