\* Two shares, so that a fill may be partial; the user may ask for more.
\* Deadlock is not checked: each RPC is made once, and the day ends.
CONSTANTS
    Qty = 2
    NewQty = {3}
    MaxFaults = 1
    None = None

SPECIFICATION Spec

CHECK_DEADLOCK FALSE

CONSTRAINT KeepsUp

INVARIANTS
    ClosedIsTrue
    FillBounded
PROPERTIES
    FillKept
