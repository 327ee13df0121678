SPECIFICATION MCSpec
CONSTANTS
    Ids = {a, b}
    a = a
    b = b
    LiveModes <- BothModes
    SubscriptionCap = 1
    MaxOps = 4
    MaxUpdates = 4
CHECK_DEADLOCK FALSE
INVARIANTS
    LiveNeedsVenue
    ShownIsTrue
    ListedIsSubscribed
PROPERTIES
    ComesToRest
