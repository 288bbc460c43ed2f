SPECIFICATION Spec
CONSTANTS
    e1 = e1
    e2 = e2
    Broken = Broken
    Entry = {e1, e2}
    Boxes <- AllBoxes
INVARIANTS
    SettledAgrees
    SyncWithinBounds
PROPERTIES
    EnableLast
    Converges
CHECK_DEADLOCK FALSE
