SPECIFICATION Spec
CONSTANTS
    Timers = {t1, t2, t3, t4}
    Size = 4
    CurMod = 7
    AddDelays = {1}
    CbDelays = {3}
    MaxLate = 3
INVARIANTS
    TypeOK
    Linked
    LateBounded
SYMMETRY Symmetric
