CONSTANTS
    MaxNest = 2
    MaxGuards = 2
    HandlersLock = FALSE
SPECIFICATION Spec
INVARIANTS GuardExcludesInterrupts DisabledIsTrue MutexHeldByCritical
