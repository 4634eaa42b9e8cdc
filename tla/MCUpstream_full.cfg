SPECIFICATION Spec
CONSTANTS
    Msgs = {m1, m2, m3}
    Unpackable = {}
    ConnCount = 2
    MaxPending = 2
    MaxErrors = 0
    MaxBreaks = 1
    None = None
PROPERTIES
    RefusedOnlyWhenFull
CHECK_DEADLOCK FALSE
