SPECIFICATION FairSpec
CONSTANTS
    Procs = {p1, p2}
    Inodes = {i1, i2, i3}
    SockInodes = {s1, s2, s3}
    NoInode = NoInode
    AcquireAttempts = 2
    MaxFaults = 2
INVARIANTS
    OneListener
    ClosedOnlyInHandler
PROPERTIES
    ServedPathKept
    StopEnds
    Reclaims
    AcceptingResumes
