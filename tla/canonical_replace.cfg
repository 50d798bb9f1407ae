SPECIFICATION Spec
CONSTANTS
    Txns = {t1, t2}
    Edits = {e1, e2}
    Orig = orig
    None = none
    Partial = partial
    LateEdits = FALSE
    MaxFaults = 2
    MaxCrashes = 1
    MaxPowerCuts = 1
SYMMETRY Symmetry
INVARIANTS
    OneMutator
    TreeSurvives
    NoSilentLoss
    SuccessIsDurable
PROPERTIES
    OutcomeTruthful
    ImplementsDurableTree
