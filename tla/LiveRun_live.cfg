\* One run: the breach, the worker and the loop against an unhelpful venue.
CONSTANTS
    MaxRuns = 1
    MaxHistory = 1
    None = None

SPECIFICATION FairSpec

PROPERTIES
    BreachStopsRun
    WorkerReturns
