CONSTANTS
    StubVectors = {6, 13}
    VGA_WIDTH = 4
    VGA_HEIGHT = 3
    Tab = 2
    Chars = {"a"}
    MaxX = 8
    MaxValue = 1200
    Nibbles = 3
    TotalInodes = 3
    NMounts = 3
    FileTypes = {1, 2}
    Prefixes = {"a", "b"}
    Rests = {"", "x"}
    NoRest = ""
    Handles = {h1, h2, h3}
    Fds = {3, 4}
    INVALID_FD = 99
    MaxPos = 1
    Tasks = {t1, t2, t3}
    Frames = {f1, f2}
    Coroutines = {c1, c2, c3}
    NoHandle = null
    Vacant = vacant
    StructWords = 5
    DescriptorWords = 6
    MaxDescriptors = 3
    MaxPage = 3
    EfiPageSize = 2
    AddrMod = 16
    EfiTypes = {2, 4, 7}
    NEntries = 3
    RamPages = 7
    TotalPages = 7
    PagingAddrMod = 36
    TouchPages = {0, 3, 6}
    PAGE_SIZE = 4
    timer = timer
    fault = fault
    handle_timer = handle_timer
    handle_page_fault = handle_page_fault
    none = none
    Irqs = {timer}
    Exceptions = {fault}
    EoiHandlers = {handle_timer}
    HaltHandlers = {handle_page_fault}
    FaultVector = fault
    NoHandler = none
    Places = {p1, p2, p3}
    Pids = {1, 2}
    INVALID_PID = 0
    Space = 64
    SizeSpaces = {16, 64}
    KERNEL_VIRTUAL_BASE = 60
    HalfSize = 8
    LowMod = 4
    MidMod = 4
    Segments = {"code", "stack"}
    LayoutTop = 4
    Activations = {a1, a2, a3}
    MaxCount = 5
    MaxLookups = 4
SPECIFICATION Spec
INVARIANTS BootConfigPassed
CHECK_DEADLOCK FALSE
