CONSTANTS
    Pids = {p1, p2, p3}
    ReqCap = 2
    RspCap = 2
    MaxCalls = 5
    MaxDeaths = 2
    FreshPids = TRUE
    EdgeMayFail = FALSE
    None = None
SPECIFICATION FairSpec
CHECK_DEADLOCK FALSE
PROPERTIES
    EveryCallReturns
