SPECIFICATION Spec
CONSTANTS
    Timers = {t1, t2}
    Size = 3
    CurMod = 3
    AddDelays = {1}
    CbDelays = {3}
    MaxLate = 3
INVARIANTS
    Linked
