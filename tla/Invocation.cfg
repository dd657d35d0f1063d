SPECIFICATION ISpec
CONSTANTS
    Layers <- MCLayers
    Requests <- MCRequests
    MaxLayers = 3
    Words <- MCWords
    Raw <- MCRaw
    Expand <- MCExpand
    Literal <- MCLiteral
    Paths <- MCPaths
    Project = "/project"
    Default <- MCDefault
    User = "u"
    Items <- MCItems
    Malformed = {"b.com:x"}
    Unresolvable = {"{y}/bin"}
    Keys <- MCKeys
    HomeKeys = {"HOME"}
    UserKeys = {"USER"}
    Unset = Unset
    Empty = "empty"
    Relative = "relative"
    Unknown = "unknown"
    Argvs <- MCArgvs
    Docs <- MCDocs
    Builtin <- MCBuiltin
    Within <- MCWithin
    Covers <- MCCovers
    HostEnv <- MCHostEnv
    ProxyKeys = {"HTTP_PROXY"}
    TmpKeys = {"TMPDIR"}
    ClearOff = "x"
    Scratch = "{scratch}"
INVARIANTS
    BindsFollowRequests
    ConflictsReported
    NetworkRestricted
    GrantsAreSpelled
    RunsAsAsked
    CommandEnvironment
CHECK_DEADLOCK FALSE
