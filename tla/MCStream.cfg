SPECIFICATION FairSpec
CONSTANTS
    N = 5
    Length <- MCLength
    BufSize = 2
    Capacity = 4
    MaxBreaks = 2
INVARIANTS
    TypeOK
    InOrder
    NothingStuck
PROPERTIES
    AllParsed
CHECK_DEADLOCK FALSE
