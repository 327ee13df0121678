SPECIFICATION FairSpec
CONSTANTS
    None = None
    MaxRegion = 2
    Limit = 3
    MaxOps = 4
INVARIANTS
    RecordingResumes
    RecordFits
PROPERTIES
    UndoEnds
CHECK_DEADLOCK FALSE
