SPECIFICATION Spec
CONSTANTS
    Builds = {b1, b2}
    Items = 2
    HasPrior = {1}
    Installer = installer
    None = none
    MaxFaults = 3
    MaxCrashes = 1
    MaxEdits = 1
SYMMETRY Symmetry
INVARIANTS
    NothingLost
    EditSurvives
PROPERTIES
    OutcomeHonest
CHECK_DEADLOCK FALSE
