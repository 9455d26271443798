SPECIFICATION FairSpec
CONSTANTS
  Requests = {r1}
  Stoppers = {c1, c2}
INVARIANTS ReadyMeansServing NoUseAfterClose CleanStopLostNothing
PROPERTIES StopIsFinal CallsReturn
CHECK_DEADLOCK FALSE
