SPECIFICATION Spec
CONSTANTS
    Workers = {w1}
    Batches = {b1}
    Slots = {s1, s2}
    None = None
    MaxAttempts = 3
    Operated = {}
    Overlap = TRUE
PROPERTIES
    TerminalIsFinal
CHECK_DEADLOCK FALSE
