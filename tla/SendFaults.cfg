SPECIFICATION FairSpec
CONSTANTS
    t1 = t1
    t2 = t2
    n1 = n1
    n2 = n2
    Nobody = Nobody
    Outsider = Outsider
    NameOf <- MCNameSame
    Names = {n1}
    Transfers = {t1}
    NumChunks = 2
    Large = {t1}
    Sums <- MCAllSums
    MaxConcurrent = 1
    MaxRetries = 1
    CleanupScheduled = TRUE
    MaxFaults = 3
INVARIANTS
    CompletedVerified
    SweepOnlySpent
    NoLeftovers
PROPERTIES
    VerifyingSettles
    StrandedReleasesSlot
