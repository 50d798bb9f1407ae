SPECIFICATION MCSpec
CONSTANTS
    Programs = {a, b}
    Kinds = {"installation", "export", "scene", "shard", "bundle", "forcedBundle", "brandBundle", "preview", "workspacePreview"}
    None = none
    MaxMishaps = 2
SYMMETRY Symmetry
INVARIANTS
    Recoverable
    OneRecovery
    EditSurvives
    PublishedStays
PROPERTIES
    ReportsHonest
CHECK_DEADLOCK FALSE
