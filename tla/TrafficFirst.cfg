SPECIFICATION TrafficSpec
CHECK_DEADLOCK FALSE
CONSTANTS
    Visits = {v1, v2}
    Days = 1
    MaxHits = 3
    MaxMishaps = 0
    MaxWrites = 0
INVARIANTS
    EveryViewCounts
