SPECIFICATION FairSpec
CONSTANTS
    c1 = c1
    Clients = {c1}
    Notices = {"WillSleep", "WillPowerOff", "CanSystemSleep", "SystemWillSleep"}
    MaxNotices = 2
    MaxMoves = 1
    MaxFaults = 1
INVARIANTS
    LifetimeInv
    NothingMissed
    ToldAfterForgot
PROPERTIES
    TermEnds
    PowerAnswered
    ComesToServe
CHECK_DEADLOCK FALSE
