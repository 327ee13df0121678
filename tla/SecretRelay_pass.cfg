\* Three calls for one purpose: the timer of a first call and the prompt of a
\* second one while a third asks.  It may stop: the user owes no order, and the
\* calls are bounded.
CONSTANTS
    MaxCalls = 3
    Purpose = {new_order}
    None = None

SPECIFICATION RelayFairSpec

CHECK_DEADLOCK FALSE

INVARIANTS
    NoLostWakeup
    DeliveredIsBounded
PROPERTIES
    CallEnds
