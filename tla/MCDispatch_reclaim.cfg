SPECIFICATION FairSpec
CONSTANTS
    Workers = {w1}
    Batches = {b1}
    Slots = {s1, s2}
    None = None
    MaxAttempts = 2
    Operated = {w1}
    Overlap = FALSE
PROPERTIES
    DeadIsReclaimed
CHECK_DEADLOCK FALSE
