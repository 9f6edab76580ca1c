SPECIFICATION MovedSpec
CHECK_DEADLOCK FALSE
CONSTANTS
    t1 = t1
    t2 = t2
    a = a
    b = b
    Nothing = Nothing
    Transfers = {t1, t2}
    Tabs = {a, b}
    NumChunks = 1
    NumVersions = 1
    Large = {t2}
    MaxConcurrent = 1
    MaxRetries = 1
    MaxChanges = 0
    FileChunks = 2
    ChunkRetries = 1
    MaxSends = 2
    MaxLosses = 1
    Served = {q1, q2}
    Parts = 2
    MaxAttempts = 2
    MaxSessions = 1
    MaxFailures = 3
    Pieces = {x1}
    Budget = 3
    MaxRecords = 1
    MaxMoves = 2
INVARIANTS
    SubmitsWhole
    NoDuplicate
    CompletedIsWhole
    StagedIsKept
PROPERTIES
    EndedIsFinal
    ImplementsLifecycle
