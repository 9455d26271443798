SPECIFICATION FairSpec
CONSTANTS
  Copies = {m1, m2}
  Slots = {s1, s2}
  None = none
  Lease = 2
  TokenLife = 3
  Persistent = TRUE
  DiscardRejects = FALSE
  MaxFaults = 3
INVARIANTS
  SettledMeansInjected
  AckedMeansSettled
  DuplicatesAreExcused
PROPERTIES
  EveryCopySettles
CHECK_DEADLOCK FALSE
