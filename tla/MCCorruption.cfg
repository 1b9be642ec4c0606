SPECIFICATION Spec
CONSTANTS
    Parties = {1, 2, 3, 4}
    MaxQuota = 5
INVARIANTS
    TypeOK
    EveryCorruptionCovered
    NothingConsideredTwice
CHECK_DEADLOCK FALSE
