SPECIFICATION FairSpec
CONSTANTS
    r1 = r1
    r2 = r2
    a1 = a1
    Requests <- MCRequests
    Applies <- MCApplies
    IdOf <- MCIdOf
    LaneOf <- MCLaneOf
    MaxConcurrentReads = 1
    MaxQueuedReads = 1
    MaxBadNonces = 4
INVARIANTS
    QuietAtEnd
    AnsweredAndWritten
    OneRequestPerId
PROPERTIES
    EofEnds
    EverythingAnswered
CHECK_DEADLOCK FALSE
