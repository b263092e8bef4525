CONSTANTS
    MaxMode = 3
SPECIFICATION Spec
INVARIANTS BootsWhenNothingFails
CHECK_DEADLOCK FALSE
