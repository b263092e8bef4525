CONSTANTS
    e1 = e1
    none = none
    Entries = {e1}
    NoEntry = none
    MAX_PROCESSES = 2
    CountMod = 4
    PidMod = 5
    MemUnits = 3
    MaxDepth = 1
    TotalPages = 4
    KernelPages = 1
    PAGE_SIZE = 4
    AddrMod = 64
    CallerPids = {1, 2, 3, 4}
    Sizes = {1}
    ZeroState = "Terminated"
SPECIFICATION Spec
PROPERTIES ContextSaved
CHECK_DEADLOCK FALSE
