SPECIFICATION FairSpec
CONSTANTS
    Runs = {r1}
    Admins = {a1}
    Incidents = {i1}
    Failure = 2
    Recovery = 1
    MaxThreshold = 2
    MaxStreak = 5
    MaxEdits = 0
    MaxCrashes = 1
    Nobody = nobody
PROPERTIES
    LastingOutageIsFound
