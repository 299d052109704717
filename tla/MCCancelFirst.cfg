SPECIFICATION Spec
CONSTANTS
    Shapes <- MCShapes
    MaxReqs = 1
    MaxFaults = 0
    MaxWorkers = 1
INVARIANT CancelIsFinal
CHECK_DEADLOCK FALSE
