SPECIFICATION Spec
CONSTANTS
    Txns = {t1}
    Edits = {e1}
    Orig = orig
    None = none
    Partial = partial
    LateEdits = TRUE
    MaxFaults = 0
    MaxCrashes = 0
    MaxPowerCuts = 0
INVARIANT
    NoSilentLoss
