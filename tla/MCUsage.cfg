SPECIFICATION FairSpec
CONSTANTS
    Batches = {b1, b2}
    Tasks = {t1}
    Sweeper = Sweeper
    i1 = i1
    i2 = i2
    Ids = {i1, i2}
    Tokens = {1, 2}
    Poison = Poison
    None = None
    Outputs <- SmallOutputs
    Chunk = 1
    Cap = 1
    Limit = 1
    Uploads = 1
    Faults = TRUE
INVARIANTS
    TypeOK
    TotalIsWhole
    RecordedIsExact
PROPERTIES
    IngestionEnds
CHECK_DEADLOCK FALSE
