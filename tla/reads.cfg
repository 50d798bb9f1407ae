SPECIFICATION Spec
CONSTANTS
    f1 = f1
    f2 = f2
    f3 = f3
    s1 = s1
    s2 = s2
    t1 = t1
    Requests <- MCRequests
    IdOf <- MCIdOf
    LaneOf <- MCLaneOf
    MaxConcurrentReads = 2
    MaxQueuedReads = 2
INVARIANTS
    LanesInOrder
    NoneStranded
    CancelledNeverRan
CHECK_DEADLOCK FALSE
