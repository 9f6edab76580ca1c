SPECIFICATION Spec
CONSTANTS
    Runs = {r1, r2}
    Admins = {}
    Incidents = {i1, i2}
    Failure = 2
    Recovery = 2
    MaxThreshold = 2
    MaxStreak = 5
    MaxEdits = 1
    MaxCrashes = 0
    Nobody = nobody
SYMMETRY Actors
INVARIANTS
    OutageHasIncident
    EdgesAreFirst
    OneOngoing
