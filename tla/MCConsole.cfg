SPECIFICATION Spec
CONSTANTS
    Canon <- Spellings
    Cidrs = {"net1", "net2"}
    NoService = NoService
    Desks <- AllDesks
INVARIANTS
    NothingPending
    ListsSound
    PinKnown
    FitsHost
    BrowseComplete
PROPERTIES
    OverwritesOnlyBase
CHECK_DEADLOCK FALSE
