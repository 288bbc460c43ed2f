SPECIFICATION Spec
CONSTANTS
    c1 = c1
    c2 = c2
    k1 = k1
    CPU = {c1, c2}
    Key = {k1}
    Settings <- Toggles
    Threshold = 1
    Fails = TRUE
    MaxSamples = 3
    MaxElems = 2
    MaxReloads = 1
INVARIANTS
    TypeOK
    SamplesPreserved
PROPERTIES
    NoPhantom
    BaselineAfterChange
    AlertsCleared
CHECK_DEADLOCK FALSE
