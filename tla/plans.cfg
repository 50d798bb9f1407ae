SPECIFICATION FairSpec
CONSTANTS
    p1 = p1
    p2 = p2
    h = h
    None = none
    Plans = {p1, p2}
    Handles <- MCHandles
    Owners <- MCOwners
    NativeOwners <- MCNative
    Bytes <- MCBytes
    Checked <- MCChecked
    Applies = {a1, a2}
    MaxRetainedBytes = 2
    MaxNativePlans = 1
    MaxActive = 2
    TTL = 1
    MaxTime = 1
INVARIANTS
    Accounted
    BooksBalanced
    DisposedOnce
    TokenGoodOnce
    CancelledUntouched
PROPERTIES
    EverythingEnds
CHECK_DEADLOCK FALSE
