SPECIFICATION MCSpec
CONSTANTS
    Digests = {d1, d2, d3}
    Maps = {m1, m2}
    Items <- ADirectoryAsset
    None = none
    Contents = {a, b}
    SourceMaps = {p, q}
    Executes = {e1, e2}
    Nothing = nothing
    MaxChanges = 2
    Assets = {"drawn", "first", "second"}
    RecipeFiles <- SomeRecipeFiles
    TokenFiles = {t1, t2}
    Drawings <- SomeDrawings
    Unfit <- OddDrawings
    Gone = gone
    Corrupt = corrupt
    Slots = {s1, s2}
    Texts = {x, y}
    MaxEdits = 2
    Releases <- SomeReleases
    Profiles <- SomeProfiles
    LocalFiles = {{}, {"mine"}, {"clash"}}
    Projects <- SomeProjects
    Within <- KitInKit
    Destinations = {"mark", "kit", "kit/logo", "guide"}
    Handmade = "hand"
    Selections <- SomeSelections
    Unlocked = unlocked
    MaxSelected = 3
    MaxHands = 0
SYMMETRY Symmetry
PROPERTIES
    EditsNeedADecision
CHECK_DEADLOCK FALSE
