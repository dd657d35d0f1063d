SPECIFICATION BSpec
CONSTANTS
    Conns = {c1}
    Targets = {good, bad}
    Allowed = {good}
    NotConnect = NotConnect
    BadPort = BadPort
    BadHost = BadHost
    NoReq = NoReq
    FinalizerCloses = TRUE
INVARIANTS
    ListeningInBody
    StopsWherePrompt
    NobodyCutOff
PROPERTIES
    BlockReturns
    NoRecordAfterExit
CHECK_DEADLOCK FALSE
