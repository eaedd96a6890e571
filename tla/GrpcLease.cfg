CONSTANTS
  s1 = s1
  s2 = s2
  ra = ra
  k1 = k1
  None = None
  Subscribers = {s1, s2}
  Routes = {ra}
  RouteOf <- OneRoute
  Keys = {k1}
  MaxLeases = 2
SPECIFICATION FairSpec
INVARIANTS
  CountsMatchHolders
  LeasesAreCleaned
PROPERTIES
  FailureEndsSubscriptions
  CallsReturn
CHECK_DEADLOCK FALSE
