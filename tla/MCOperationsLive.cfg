SPECIFICATION FairSpec
CONSTANTS
    Conns = {c1}
    Offered = {"read", "sign", "batch", "pin", "activate", "pk"}
    MaxReqs = 2
    MaxOps = 1
    MaxFaults = 1
INVARIANTS
    StoresDrain
PROPERTIES
    OrphansEnd
    RequestAnswered
CHECK_DEADLOCK FALSE
