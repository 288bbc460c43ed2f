SPECIFICATION Spec
CONSTANTS
    c1 = c1
    c2 = c2
    c3 = c3
    CPU = {c1, c2}
    Cost = 2
    Gain = 1
    Burst = 4
    Interval = 1
    Retries = 2
    MaxTime = 4
    MaxElems = 2
INVARIANTS
    TypeOK
    Ledger
    RefillOnce
    RateBound
PROPERTIES
    OpenOnlyContended
SYMMETRY Symmetric
CHECK_DEADLOCK FALSE
