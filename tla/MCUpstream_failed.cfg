SPECIFICATION Spec
CONSTANTS
    Msgs = {m1, m2, m3}
    Unpackable = {}
    ConnCount = 2
    MaxPending = 2
    MaxErrors = 1
    MaxBreaks = 1
    None = None
SYMMETRY Symmetric
INVARIANTS
    FailedNotDelivered
CHECK_DEADLOCK FALSE
