SPECIFICATION Spec
SYMMETRY ListerSymmetry
CONSTANTS
    Listers = {l1, l2}
    Ids = {"a", "b"}
    Listings <- MCListings
    NoOne = NoOne
    Files <- MCFiles
    MaxCatalogs = 2
    MaxJobs = 2
    MaxFailures = 1
    MaxRestarts = 1
INVARIANTS
    ResolvedWasLookedUp
    DiskCatchesUp
PROPERTIES
    ResolvedStaysAsItWas
CHECK_DEADLOCK FALSE
