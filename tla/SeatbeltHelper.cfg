SPECIFICATION Spec
INVARIANTS
    CleansUp
    CommandIsServed
PROPERTIES
    CallerGetsOn
    HelperEnds
CHECK_DEADLOCK FALSE
