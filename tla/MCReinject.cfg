SPECIFICATION ReinjectFairSpec
CONSTANTS
    Request = 2
    Connect = 1
    Command = 1
    Data = 2
    Commit = 1
    PendingLease = 8
INVARIANT CommitsOnlyAccepted
INVARIANT OnlyFinalIsAmbiguous
INVARIANT AttemptBounded
PROPERTIES
  SendEnds
CHECK_DEADLOCK FALSE
