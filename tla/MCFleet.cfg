SPECIFICATION FleetSpec
CONSTANTS
    None = None
    Bare = {"q:4", "b:1", "q", "A", "z", "y", "w"}
    Hybrid = {"llamacpp"}
    Day = 4
    Workers = {"w1", "w2"}
    Ids = {"qwen", "new"}
    Kinds = {"vllm", "ollama"}
    Labels = {"q", "O/q", "A", "z", "y", "w"}
    Hashes = {"h1", "h2", "h3"}
    Seeds <- OtherPin
    FirstSeed <- OneEntry
    Registrations <- TwoWorkers
    Beats <- SomeBeats
    Public <- Confirmed
    MaxAdoptions = 1
    MaxSeeds = 1
    Names = {"q:4", "Q/4", "b:1", "L/b"}
    Digests = {"h", "x", "y"}
    RuntimeTypes = {"vllm", "ollama", "llamacpp"}
    Capabilities = {"logprobs"}
    Catalog <- TwoEntries
    Fleet <- Machines
    Batches <- ThreeBatches
    Pings <- SomePings
    Requests <- Patches
    Admins = {"a", "b"}
    Offset <- Zones
    Callers = {"anon", "mem"}
    Known = {"mem"}
    Sees <- Organizations
    MinWorkers = 2
    Minutes = {0, 1, 3}
    MaxBegun = 2
INVARIANTS
    FleetTypeOK
    
    PicksInOrder
    HandedIsHeld
PROPERTIES
    
    PoolTellsTheTruth
CHECK_DEADLOCK FALSE
