SPECIFICATION FairLockSpec
CONSTANTS
    Procs = {p1, p2, p3}
    Inodes = {i1, i2, i3, i4}
    NoInode = NoInode
    AcquireAttempts = 2
INVARIANT MutualExclusion
PROPERTIES
    ImplementsMutex
    AcquireEnds
