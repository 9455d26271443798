CONSTANTS
    Callers = {c1, c2, c3}
    None = None
    Keys = {k1, k2}
    MaxLookups = 2
    MaxWaiters = 2
    Capacity = 1
    MaxTTL = 1
    Timeout = 1
    MaxTime = 2
SPECIFICATION Spec
SYMMETRY Symmetry
INVARIANTS LiveWaiterKeepsFlight NoOrphanWork AnswersFresh
CHECK_DEADLOCK FALSE
