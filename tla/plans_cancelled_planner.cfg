SPECIFICATION Spec
CONSTANTS
    p1 = p1
    p2 = p2
    h = h
    None = none
    Plans = {p1, p2}
    Handles <- MCHandles
    Owners <- MCOwners
    NativeOwners <- MCNative
    Bytes <- MCBytes
    Checked <- MCAllChecked
    Applies = {a1}
    MaxRetainedBytes = 4
    MaxNativePlans = 1
    MaxActive = 1
    TTL = 1
    MaxTime = 1
INVARIANTS
    EveryPlanDisposed
CHECK_DEADLOCK FALSE
