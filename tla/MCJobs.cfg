SPECIFICATION FairJobs
CONSTANTS
    Files = {f1}
    Batches = {b1, b2}
    Orgs = {o1}
    Streams = {s1}
    None = None
    Contents = {"good", "bad", "raises"}
    Overlap = FALSE
    Restarts = TRUE
    DbFails = TRUE
    i1 = i1
    i2 = i2
    i3 = i3
    i4 = i4
    Ids = {i1, i2, i3, i4}
    Inputs <- SomeInputs
    MaxConcurrent = 2
    ChunkSize = 2
    Breaks = TRUE
    Order <- TwoRuntimes
    Managers <- OneManager
    Models = {"m", "n"}
    MaxJobs = 1
    MaxEvents = 1
INVARIANTS
    JobsTypeOK
    EventIsTrue
    QueuedHasInput
    AnswerIsOwn
    CountsAreOfRows
    EveryRowIsRun
    RoutesAreListings
PROPERTIES
    
    QuietValidationEnds
    WatcherIsTold
    JobEnds
CHECK_DEADLOCK FALSE
