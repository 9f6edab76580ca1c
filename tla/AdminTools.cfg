SPECIFICATION ToolsSpec
CHECK_DEADLOCK FALSE
CONSTANTS
    N = 3
    MaxReferences = 2
    MaxImports = 1
    MaxTroubles = 1
    MaxErrors = 2
    Ops = {o1, o2}
    Places = {pa, pb}
    MaxWrites = 2
    MaxFileFaults = 1
    Objects = {oa, ob}
    Tabs = {t1, t2}
    MaxBulk = 2
    MaxEdits = 1
    MaxOthers = 1
SYMMETRY Alike
INVARIANTS
    FailureBlocks
    RetryIsExact
    PreviewHolds
    NothingIsLost
    PublishedIsWhole
PROPERTIES
    DeletedWasAllowed
