CONSTANTS
    Pids = {p1, p2, p3}
    ReqCap = 2
    RspCap = 2
    MaxCalls = 2
    MaxDeaths = 1
    FreshPids = TRUE
    EdgeMayFail = TRUE
    None = None
SPECIFICATION FairSpec
CHECK_DEADLOCK FALSE
PROPERTIES
    EveryCallReturns
