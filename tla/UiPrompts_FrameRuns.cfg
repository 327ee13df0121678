\* The order of the systems exactly as it is declared.
CONSTANTS
    Prompts = {"secret"}
    MaxRequests = 1
    Declared = TRUE

SPECIFICATION Spec

INVARIANTS
    FrameRuns

\* Without an order the frame stops.
CHECK_DEADLOCK FALSE
