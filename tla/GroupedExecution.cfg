SPECIFICATION Spec
CONSTANTS
  MaxEntries = 2
  MaxVersions = 2
  k1 = k1
  k2 = k2
  k3 = k3
  Keys <- MCKeys
  Rows <- MCRows
  Matching <- MCMatching
  GroupOf <- MCGroupOf
  ValueOf <- MCValueOf
  Plans <- MCPlans
  NoLimit <- MCNoLimit
  MaxGroups = 2
  MaxMembers = 3
  MaxMembersPerGroup = 2
  MaxRetainedValues = 6
  MaxLoad = 3
  MaxBatch = 1
  MaxLeases = 2
  MaxOthers = 1
  MaxVersion = 3
SYMMETRY Symmetry
INVARIANTS
  ShownIsReference
  GroupsMatchRows
  JournalReferences
