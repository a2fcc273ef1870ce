SPECIFICATION Spec
CONSTANTS
    Routes <- MCRoutes
    Names <- MCNames
    Spaces = {"ns", "more"}
    ToolLists <- MCToolLists
    Suggestions = {300, 301, 302}
    Breaks = {1, 3}
    MaxParts = 2
    MaxTurns = 2
INVARIANT FollowUpAlwaysAccepted
CHECK_DEADLOCK FALSE
