SPECIFICATION Spec
CONSTANTS
    Conns = {c1, c2}
    Offered = {"sign", "cancel", "recover"}
    MaxReqs = 3
    MaxOps = 1
    MaxFaults = 0
SYMMETRY Symmetry
INVARIANTS
    ProtocolInv
    AnnouncedIsRecoverable
    CancelScoped
CHECK_DEADLOCK FALSE
