SPECIFICATION Spec
INVARIANTS
    LeavesNothing
CHECK_DEADLOCK FALSE
