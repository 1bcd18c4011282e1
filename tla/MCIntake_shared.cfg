SPECIFICATION Spec
CONSTANTS
    Files = {f1}
    Batches = {b1, b2}
    Orgs = {o1, o2}
    Streams = {s1}
    None = None
    Contents <- GoodOnly
    Overlap = FALSE
    Restarts = FALSE
    DbFails = FALSE
INVARIANTS
    AssigneeMayRead
CHECK_DEADLOCK FALSE
