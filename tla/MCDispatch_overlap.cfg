SPECIFICATION FairSpec
CONSTANTS
    Workers = {w1}
    Batches = {b1}
    Slots = {s1, s2}
    None = None
    MaxAttempts = 2
    Operated = {}
    Overlap = TRUE
INVARIANTS
    TypeOK
    InProgressIsAssigned
    FailedWasTried
PROPERTIES
    EveryRequestEnds
CHECK_DEADLOCK FALSE
