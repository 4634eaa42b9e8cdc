SPECIFICATION Spec
CONSTANTS
    BufLen = 3
    OpenFailedLen = 1
    MaxFails = 2
    Records = {r1, r2}
    Days = 2
    ReconnectLen = 1
    Lens <- MCLens
    MaxLosses = 3
    MaxLines = 2
SYMMETRY Symmetric
INVARIANTS
    TypeOK
    Kept
    NoOverflow
    Reported
    TableMade
    AtMostTwice
    Selected
    Nested
CHECK_DEADLOCK FALSE
