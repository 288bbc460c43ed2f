SPECIFICATION Spec
CONSTANTS
    daemon = daemon
    console = console
    Proc <- Tuners
    Boxes <- Either
    Topologies <- Machines
    Configs <- Both
    MaxValue = 3
    MaxStarts = 3
    MaxFaults = 2
INVARIANTS
    StillUndoable
    RestoreUndoes
    PortsAlike
SYMMETRY Roles
CHECK_DEADLOCK FALSE
