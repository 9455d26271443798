SPECIFICATION FairSpec
CONSTANTS
  Reserves = {r1}
  Commits = {}
  Checks = {k1, k2}
  Closers = {q1, q2}
  NoCall = none
  Coord = 2
  FirstKeys = {1, 3}
  Lease = 1
  Retention = 2
  MaxEntries = 2
  MaxWaiters = 1
  PruneBudget = 1
  MaxClock = 2
INVARIANTS
  PruneReachesEveryExpired
PROPERTIES
  CloseReturns
  FirstSeenOnce
CHECK_DEADLOCK FALSE
