SPECIFICATION FairSpec
CONSTANTS
    Files = {f1}
    Batches = {b1}
    Orgs = {o1}
    Streams = {s1}
    None = None
    Contents <- RaisesOnly
    Overlap = FALSE
    Restarts = FALSE
    DbFails = FALSE
PROPERTIES
    ValidationEnds
CHECK_DEADLOCK FALSE
