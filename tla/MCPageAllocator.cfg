CONSTANTS
    c1 = c1
    c2 = c2
    Clients = {c1, c2}
    TotalPages = 6
    KernelPages = 2
    PAGE_SIZE = 4
    AddrMod = 24
SPECIFICATION Spec
INVARIANTS NoSharedPage NoLeak NullMeansOutOfMemory FreeMemoryAccounting
PROPERTIES AllocatorOwns
