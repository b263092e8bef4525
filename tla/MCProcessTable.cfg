CONSTANTS
    e1 = e1
    none = none
    Entries = {e1}
    NoEntry = none
    MAX_PROCESSES = 2
    CountMod = 4
    PidMod = 4
    MemUnits = 3
    MaxDepth = 1
    TotalPages = 4
    KernelPages = 1
    PAGE_SIZE = 4
    AddrMod = 64
    CallerPids = {0, 1, 2, 3}
    Sizes = {1}
    ZeroState = "Terminated"
SPECIFICATION Spec
INVARIANTS RunningIsCurrent UniquePids OwnPages NoDanglingMapping CountErrsLow
CHECK_DEADLOCK FALSE
