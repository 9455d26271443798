SPECIFICATION Spec
CONSTANTS
  Reserves = {r1, r2}
  Commits = {c1}
  Checks = {k1}
  Closers = {q1}
  NoCall = none
  Coord = 2
  FirstKeys = {1}
  Lease = 1
  Retention = 2
  MaxEntries = 1
  MaxWaiters = 1
  PruneBudget = 1
  MaxClock = 2
INVARIANTS
  NothingAfterClear
PROPERTIES
  StoreContract
CHECK_DEADLOCK FALSE
