SPECIFICATION QuerySpec
CONSTANTS
  k1 = k1
  k2 = k2
  k3 = k3
  k4 = k4
  Keys <- MCKeys
  Rows = {1, 2}
  MaxWindow = 4
  MaxHidden = 1
  MinReplacement = 3
  RowKeys = {1, 2, 3, 4}
  Fields <- MCFields
  StoredRows <- MCRows
  MissingValue = 0
  Batches <- MCBatches
  MaxBucket = 2
  Plans <- MCPlans
  Comparable = {1, 3, 4}
  Unlimited <- MCUnlimited
  MaxSorted = 1
  MaxHeap = 3
  HeapShare = 1
  Questions <- MCQuestions
  CellKeys = {1, 2, 3}
SYMMETRY Symmetry
INVARIANTS
  DeltaReplays
  IndexesMatchRows
  ScanIsReference
  StorageDecidesAsQueries
