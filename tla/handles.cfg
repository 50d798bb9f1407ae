SPECIFICATION Spec
CONSTANTS
    s1 = s1
    s2 = s2
    x = x
    one = one
    both = both
    plan = plan
    None = none
    Sources = {s1, s2}
    Auxiliaries = {x}
    Leases = {one, both}
    PlanLeases = {plan}
    HandlesOf <- MCHandlesOf
    LeaseOf <- MCLeaseOf
    DisposeCalls = {shutdown, destroy}
    Owners <- MCOwners
    NativeOwners = {}
    Bytes <- MCBytes
    MaxRetainedBytes = 4
    MaxNativePlans = 1
INVARIANTS
    HoldingsCounted
    NothingLeft
CHECK_DEADLOCK FALSE
