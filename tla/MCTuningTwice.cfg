SPECIFICATION Spec
CONSTANTS
    daemon = daemon
    console = console
    Proc <- OneTuner
    Boxes <- Either
    Topologies <- Machines
    Configs <- OneConfig
    MaxValue = 3
    MaxStarts = 3
    MaxFaults = 0
INVARIANTS
    OriginalsComeBack
CHECK_DEADLOCK FALSE
