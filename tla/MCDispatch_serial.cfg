SPECIFICATION Spec
CONSTANTS
    Workers = {w1, w2}
    Batches = {b1}
    Slots = {s1, s2}
    None = None
    MaxAttempts = 2
    Operated = {w1, w2}
    Overlap = FALSE
SYMMETRY Symm
INVARIANTS
    ValidatedIsFree
    CompletedIsCredited
PROPERTIES
    TerminalIsFinal
    DrainingTakesNothing
    ImplementsContract
CHECK_DEADLOCK FALSE
