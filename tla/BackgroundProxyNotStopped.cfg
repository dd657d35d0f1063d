SPECIFICATION BSpec
CONSTANTS
    Conns = {c1}
    Targets = {good, bad}
    Allowed = {good}
    NotConnect = NotConnect
    BadPort = BadPort
    BadHost = BadHost
    NoReq = NoReq
    FinalizerCloses = TRUE
INVARIANTS
    StopsOnExit
CHECK_DEADLOCK FALSE
