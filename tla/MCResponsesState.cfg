SPECIFICATION Spec
SYMMETRY ClientSymmetry
CONSTANTS
    Clients = {c1, c2}
    Routes = {"local", "responses", "relay", "chat"}
    StateLimit = 2
    MaxItems = 3
    OutputSizes = {1}
    MaxTurns = 5
    MaxRestarts = 1
INVARIANTS
    TranscriptIsTail
    HistoryReachesUpstream
    KeepsMostRecentlyUsed
CHECK_DEADLOCK FALSE
