CONSTANTS
    Waiters = {w1, w2}
    Setters = {s1, s2}
    Terminator = end
    Nobody = nobody
    MaxSets = 2
    MaxSpurious = 1
SPECIFICATION Spec
INVARIANTS
    ExitCodeSeen
    MonitorExcludes
    ChildrenKept
PROPERTY
    NoLostWakeUp
CHECK_DEADLOCK FALSE
