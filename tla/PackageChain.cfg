SPECIFICATION PackageSpec
CHECK_DEADLOCK FALSE
CONSTANTS
    N = 3
    MaxReferences = 2
    MaxImports = 1
    MaxTroubles = 1
    MaxErrors = 3
INVARIANTS
    ImportedHasDeps
