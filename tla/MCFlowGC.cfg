SPECIFICATION GCSpec
CONSTANTS
    c1 = c1
    k1 = k1
    s1 = s1
    CPU = {c1}
    Key = {k1}
    Slot <- AllSlots
    L1Index <- OneSlot
    L1Enabled = FALSE
    Server = {s1}
    SrvKey <- OneServer
    FlagSets <- AckOnly
    SeqMod = 1
    Policies <- TwoTtls
    MaxTick = 3
    TickMod = 16
INVARIANTS
    GCTypeOK
PROPERTIES
    DeletesOnlyIdle
    ExpiredIsSwept
CHECK_DEADLOCK FALSE
