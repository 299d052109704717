SPECIFICATION FairSpec
CONSTANTS
    Conns = {c1, c2}
    MaxJobs = 2
INVARIANTS
    LifetimeInv
    PlaceInv
PROPERTIES
    OnlyApprovedApplied
    TeardownEnds
    AnswerDisposed
CHECK_DEADLOCK FALSE
