CONSTANTS
    Pids = {p1}
    ReqCap = 2
    RspCap = 2
    MaxCalls = 5
    MaxDeaths = 2
    FreshPids = FALSE
    EdgeMayFail = FALSE
    None = None
SPECIFICATION Spec
CHECK_DEADLOCK FALSE
INVARIANTS
    AnswerIsOwn
