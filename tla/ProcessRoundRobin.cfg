CONSTANTS
    e1 = e1
    none = none
    Entries = {e1}
    NoEntry = none
    MAX_PROCESSES = 3
    CountMod = 5
    PidMod = 4
    MemUnits = 3
    MaxDepth = 0
    TotalPages = 4
    KernelPages = 1
    PAGE_SIZE = 4
    AddrMod = 64
    CallerPids = {}
    Sizes = {1}
    ZeroState = "Terminated"
SPECIFICATION FairSpec
PROPERTIES RoundRobin
CHECK_DEADLOCK FALSE
