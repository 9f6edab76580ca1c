SPECIFICATION FirstSpec
CHECK_DEADLOCK FALSE
CONSTANTS
    t1 = t1
    t2 = t2
    a = a
    b = b
    Nothing = Nothing
    Transfers = {t1, t2}
    Tabs = {a}
    NumChunks = 2
    NumVersions = 2
    Large = {t1}
    MaxConcurrent = 1
    MaxRetries = 1
    MaxChanges = 1
INVARIANTS
    SavedVerified
PROPERTIES
    VerifyingEnds
    CompletesVerified
