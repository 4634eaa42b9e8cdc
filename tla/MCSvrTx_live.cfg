SPECIFICATION FairSpec
CONSTANTS
    Agents = {a1, a2}
    Conns = {c1}
    Reqs = {r1, r2}
    Fds = {f1}
    NoFd = NoFd
    NoConn = NoConn
    NoAgent = NoAgent
    NoResp = NoResp
    Overtime = Overtime
    Failed = Failed
    MaxSeq = 2
    TxTimeout = 0
    FirstDelay = 1
    TimerInterval = 1
    AliveTime = 1
    MaxLate = 0
    FdReuse = FALSE
    SeqWraps = FALSE
PROPERTIES
    RequestSettles
    StashSwept
