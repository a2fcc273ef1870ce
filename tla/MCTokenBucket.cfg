SPECIFICATION BucketFairSpec
CONSTANTS
    Callers = {c1, c2}
    Rate = 2
    Interval = 3
    MaxCalls = 5
    MaxWindow = 5
INVARIANTS
    RateBound
PROPERTIES
    SleepsAgainOnlyIfOvertaken
    EveryCallGranted
