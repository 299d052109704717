SPECIFICATION FairSpec
CONSTANTS
    Shapes <- MCShapes
    MaxReqs = 2
    MaxFaults = 1
    MaxWorkers = 2
INVARIANT PanelInv
PROPERTIES
    ImplementsService
    StandingEnds
CHECK_DEADLOCK FALSE
