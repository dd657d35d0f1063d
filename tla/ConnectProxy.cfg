SPECIFICATION Spec
CONSTANTS
    Conns = {c1}
    Targets <- MCTargets
    Allowed <- MCAllowed
    NotConnect = NotConnect
    BadPort = BadPort
    BadHost = BadHost
    NoReq = NoReq
    FinalizerCloses = TRUE
    Patterns <- MCPatterns
    NoPort = NoPort
    AnyPort = AnyPort
    NoAddress = NoAddress
    Parses <- MCParses
    Aton <- MCAton
    Mapped <- MCMapped
    Str <- MCStr
    Networks <- MCNetworks
    Globs <- MCGlobs
    Dials <- MCDials
INVARIANTS
    TypeOK
    LogTellsTruth
    OnlyAllowedReached
    NothingLeftOpen
    DecidedAsListed
PROPERTIES
    ProxyIsGatekeeper
    NothingWrittenAfterClose
    EveryClientServed
    TunnelWindsUp
CHECK_DEADLOCK FALSE
