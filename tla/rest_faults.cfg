CONSTANTS
    Pids = {p1, p2, p3}
    ReqCap = 2
    RspCap = 2
    MaxCalls = 5
    MaxDeaths = 2
    FreshPids = TRUE
    EdgeMayFail = TRUE
    None = None
SPECIFICATION Spec
CHECK_DEADLOCK FALSE
SYMMETRY PidSymmetry
INVARIANTS
    TypeOK
    AnswerIsOwn
    OnePending
