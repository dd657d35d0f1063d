SPECIFICATION Spec
CONSTANTS
    Paths <- MCPaths
    Host <- MCHost
    Dirs <- MCDirs
    KernelDirs <- MCKernelDirs
    Real <- MCReal
    Links <- MCLinks
    TopDirs <- MCTopDirs
    System <- MCSystem
    Project <- MCProject
    Scratch <- MCScratch
    ProxySocket <- MCSocket
    TraceDir <- MCTraceDir
    Bases <- MCBases
    Insecure <- MCInsecure
    Requests <- MCRequests
    MinDepth = 3
    TopDepth = 1
    Touched <- MCTouched
    MaxAccesses = 2
INVARIANTS
    DeniedIsReported
CHECK_DEADLOCK FALSE
