SPECIFICATION BSpec
CONSTANTS
    MaxBytes = 2
    Capacity = 1
INVARIANTS
    CleanEndIsWhole
PROPERTIES
    TunnelIsStreams
    ServedResponseArrives
    TunnelEnds
    NobodyHangs
CHECK_DEADLOCK FALSE
