CONSTANTS
    MaxNest = 2
    MaxGuards = 2
    HandlersLock = FALSE
SPECIFICATION Spec
PROPERTIES GuardRestoresState
