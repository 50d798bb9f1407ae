SPECIFICATION Spec
CONSTANTS
    Builds = {b1, b2}
    Items = 2
    HasPrior = {1}
    Installer = installer
    None = none
    MaxFaults = 2
    MaxCrashes = 1
    MaxEdits = 1
SYMMETRY Symmetry
PROPERTIES
    FailedBuildRestored
CHECK_DEADLOCK FALSE
