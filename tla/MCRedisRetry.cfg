SPECIFICATION RSpec
CONSTANTS
  Reserves = {r1, r2}
  Commits = {c1}
  NoCall = none
  Lease = 1
  Retention = 2
  MaxSkew = 1
  MaxClock = 2
  MaxSends = 3
SYMMETRY Symm
INVARIANTS
  ExclusiveLease
PROPERTIES
  Contract
CHECK_DEADLOCK FALSE
