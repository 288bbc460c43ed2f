SPECIFICATION Spec
CONSTANTS
    c1 = c1
    c2 = c2
    k1 = k1
    k2 = k2
    s1 = s1
    CPU = {c1, c2}
    Key = {k1, k2}
    Slot <- AllSlots
    L1Index <- OneSlot
    L1Enabled = TRUE
    Server = {s1}
    SrvKey <- OneServer
    FlagSets <- L1FlagSets
    SeqMod = 1
    Policies <- ServerPolicy
    MaxTick = 2
INVARIANTS
    L1Authority
CHECK_DEADLOCK FALSE
SYMMETRY Symmetric
