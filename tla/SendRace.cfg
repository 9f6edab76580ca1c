SPECIFICATION Spec
CONSTANTS
    t1 = t1
    t2 = t2
    n1 = n1
    n2 = n2
    Nobody = Nobody
    Outsider = Outsider
    NameOf <- MCNameSame
    Names = {n1}
    Transfers = {t1, t2}
    NumChunks = 1
    Large = {t2}
    Sums <- MCSums
    MaxConcurrent = 1
    MaxRetries = 2
    CleanupScheduled = FALSE
    MaxFaults = 1
INVARIANTS
    SlotBound
    RetryableHasBytes
PROPERTIES
    NoSilentOverwrite
    ImplementsLifecycle
