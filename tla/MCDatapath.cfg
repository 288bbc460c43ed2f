SPECIFICATION Spec
CONSTANTS
    c1 = c1
    c2 = c2
    k1 = k1
    k2 = k2
    s1 = s1
    CPU = {c1}
    Key = {k1}
    Slot <- AllSlots
    L1Index <- OneSlot
    L1Enabled = TRUE
    Server = {s1}
    SrvKey <- OneServer
    FlagSets <- TcpFlagSets
    SeqMod = 2
    Policies <- PolicySet
    MaxTick = 4
INVARIANTS
    TypeOK
    SynSentHasIsn
PROPERTIES
    ReplyOnly
    DrainStays
CHECK_DEADLOCK FALSE
