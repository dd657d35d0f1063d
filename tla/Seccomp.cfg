SPECIFICATION Spec
CONSTANTS
    Archs <- MCArchs
    Hosts <- MCHosts
    Names <- MCNames
    Table <- MCTable
    AuditArch <- MCAuditArch
    X32Arch = "x86_64"
    X32Bit = 4
    MaxJump = 6
    Tokens <- MCTokens
    Numbers <- MCNumbers
INVARIANTS
    FilterDecidesPolicy
    JumpsFit
    NothingDropsOut
CHECK_DEADLOCK FALSE
