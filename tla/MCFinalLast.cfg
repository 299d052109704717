SPECIFICATION Spec
CONSTANTS
    MaxConnId = 1
    MaxConnections = 1
    MaxQueuedFrames = 3
    MaxQueuedBytes = 3
    Sizes = {1}
    MaxBatch = 2
INVARIANT NothingBehindFinal
CHECK_DEADLOCK FALSE
