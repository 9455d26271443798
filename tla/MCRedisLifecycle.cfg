SPECIFICATION FairSpec
CONSTANTS
  Ops = {o1, o2, o3}
  Probers = {p1}
  Closers = {q1}
  MaxInFlight = 1
  MaxWaiters = 1
  Threshold = 2
INVARIANTS
  NoUseAfterRelease
  SlotsConserved
PROPERTIES
  WaitersLeave
  ClosingDrains
  RecoversAlone
CHECK_DEADLOCK FALSE
