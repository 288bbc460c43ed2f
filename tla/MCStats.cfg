SPECIFICATION Spec
CONSTANTS
    Reasons = {"syn", "full"}
    MapFail = "full"
    Vlans = {7}
    Cpus = {"cpu0", "cpu1"}
    Sites <- AllSites
    Scale = 10
    MinRate = 5
    Factor = 3
    Modulus = 256
INVARIANTS
    TypeOK
    EveryDropHasReason
    ShownOnce
PROPERTIES
    SpikeSustained
CHECK_DEADLOCK FALSE
