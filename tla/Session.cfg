SPECIFICATION Spec
CONSTANTS
    Sessions = {s1, s2}
    Targets = {t1}
    Kinds <- MCKinds
INVARIANTS
    NothingHeld
    EveryRecordFiled
    OwnTargetsReported
CHECK_DEADLOCK FALSE
