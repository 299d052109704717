SPECIFICATION FairSpec
CONSTANTS
    MaxConnId = 2
    MaxConnections = 2
    MaxQueuedFrames = 2
    MaxQueuedBytes = 2
    Sizes = {1}
    MaxBatch = 2
INVARIANT QueueInv
PROPERTIES
    DisconnectFanOut
    QuietAfterQuiesce
    FirstFrameOrClosed
CHECK_DEADLOCK FALSE
