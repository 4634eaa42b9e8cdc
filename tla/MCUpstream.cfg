SPECIFICATION Spec
CONSTANTS
    Msgs = {m1, m2, m3, m4}
    Unpackable = {m4}
    ConnCount = 2
    MaxPending = 2
    MaxErrors = 1
    MaxBreaks = 2
    None = None
SYMMETRY Symmetric
INVARIANTS
    TypeOK
    NotForgotten
    NoDuplicates
    InStep
    PendingGoesOut
CHECK_DEADLOCK FALSE
