SPECIFICATION Spec
CONSTANTS
    Agents = {a1, a2}
    Conns = {c1, c2}
    Reqs = {r1, r2}
    Fds = {f1, f2}
    NoFd = NoFd
    NoConn = NoConn
    NoAgent = NoAgent
    NoResp = NoResp
    Overtime = Overtime
    Failed = Failed
    MaxSeq = 2
    TxTimeout = 1
    FirstDelay = 1
    TimerInterval = 2
    AliveTime = 0
    MaxLate = 0
    FdReuse = TRUE
    SeqWraps = FALSE
SYMMETRY Symmetric
INVARIANTS
    NoDanglingRequest
