\* Two runs in a row, the second started while the loss thread of the first may
\* still be about; the third only has the first forgotten.
CONSTANTS
    MaxRuns = 3
    MaxHistory = 1
    None = None

SPECIFICATION Spec

CONSTRAINT Explored

INVARIANTS
    NoStrandedRun
    KernelOwned
    SweepIsFinal
    LossWatched
    TapRemoved
PROPERTIES
    OrdersNeedRun
    ImplementsLifecycle
