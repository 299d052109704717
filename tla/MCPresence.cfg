SPECIFICATION FairSpec
CONSTANTS
    Slots = {s1}
    MaxIds = 4
    MaxRetries = 1
    MaxRelabels = 1
    MaxPosted = 3
INVARIANTS
    RosterInv
    ClientAgrees
PROPERTY CardGetsPublished
CHECK_DEADLOCK FALSE
