SPECIFICATION StableSpec
CONSTANTS
    Workers = {w1}
    Batches = {b1}
    Slots = {s1}
    None = None
    MaxAttempts = 2
    Operated = {}
    Overlap = FALSE
PROPERTIES
    AbandonedIsReclaimed
CHECK_DEADLOCK FALSE
