SPECIFICATION Spec
CONSTANTS
    e0 = e0
    e1 = e1
    e2 = e2
    e3 = e3
    e4 = e4
    d0 = d0
    d1 = d1
    Iface = {e0, e1, e2, e3, e4}
    NoIface = NoIface
    Missing = {e3}
    Refusing = {e4}
    Dir = {d0, d1}
    Configs <- Moves
    Actors = {"edit", "restart"}
    MaxCmds = 2
    MaxCrashes = 0
    MaxId = 8
INVARIANTS
    RestartTakesEffect
CHECK_DEADLOCK FALSE
