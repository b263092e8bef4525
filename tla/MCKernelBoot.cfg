CONSTANTS
    DotEvery = 2
    LoopMod = 4
SPECIFICATION Spec
INVARIANTS
    SubsystemsUp
PROPERTY
    BootSettles
    TimerServed
CHECK_DEADLOCK FALSE
