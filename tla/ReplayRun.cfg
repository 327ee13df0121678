\* Two runs, so that the second is started while the first still streams or is
\* held; two bars, so that a pause falls between them.
CONSTANTS
    MaxRuns = 2
    Bars = 2
    MaxQueue = 1
    MaxPresses = 3
    MaxStatus = 1
    AnyOrder = TRUE

SPECIFICATION ReplaySpec

INVARIANTS
    PauseHolds
    ControlsReachLatest
PROPERTIES
    EndIsShown
