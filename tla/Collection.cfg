SPECIFICATION CollectionSpec
CHECK_DEADLOCK FALSE
CONSTANTS
    Writers = {w1, w2, w3}
    MaxSamples = 2
    Window = 2
    MaxTime = 4
    MaxCalls = 5
    MaxFaults = 1
    NoGroup = nogroup
    Nobody = nobody
    Emitters = {e1, e2}
    Workers = {k1, k2}
    LogRecords = 4
    QueueSize = 2
    Processes = {p, q}
    Ticks = 4
    BufferSize = 2
    BatchSize = 2
    FeedLimit = 3
    Visits = {v1, v2}
    Days = 2
    MaxHits = 2
    MaxMishaps = 3
    MaxWrites = 1
    Runs = {g1, g2}
    RetentionCount = 1
    MaxBackups = 3
    MaxRemovals = 1
    MaxDeaths = 1
SYMMETRY Alike
INVARIANTS
    CountersAgree
    RetryIsEnough
    StoredInOrder
    FlushedIsStored
    LiveIsComplete
    NoLostUpdate
    NoMoreThanKept
