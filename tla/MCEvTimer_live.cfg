SPECIFICATION FairSpec
CONSTANTS
    Timers = {t1, t2, t3}
    Size = 4
    CurMod = 6
    AddDelays = {1}
    CbDelays = {3}
    MaxLate = 3
PROPERTIES
    Fires
