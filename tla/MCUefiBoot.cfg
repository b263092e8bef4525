CONSTANTS
    MaxMode = 3
SPECIFICATION Spec
INVARIANTS NoLeak KernelEntry BestModeChosen
PROPERTIES BootEnds
CHECK_DEADLOCK FALSE
