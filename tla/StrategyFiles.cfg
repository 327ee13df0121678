CONSTANTS
    a = a
    b = b
    Files = {a, b}
    None = None
    MaxRegion = 2
    MaxEdits = 1
    MaxOpens = 1
    MaxSaves = 1
    MaxMishaps = 1

SPECIFICATION MCFairSpec

CHECK_DEADLOCK FALSE

INVARIANTS
    NothingLost
    SavedIsOwn
    RestartRestores
PROPERTIES
    LoadEnds
    EditIsCached
