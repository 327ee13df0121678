CONSTANTS
    a = a
    b = b
    s = s
    t = t
    Ids = {a, b}
    Ends = {1, 2}
    Files = {s, t}
    Cache = Cache
    None = None
    MaxOps = 4

SPECIFICATION MCFairSpec


INVARIANTS
    EditsAreKept
    RunsWhatIsShown
    LockedIsRestored
PROPERTIES
    EchoEnds
