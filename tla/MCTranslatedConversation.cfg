SPECIFICATION Spec
CONSTANTS
    Routes <- MCRoutes
    Names <- MCNames
    Spaces = {"ns", "more"}
    ToolLists <- MCToolLists
    Suggestions = {300, 301, 302}
    Breaks = {1, 3}
    MaxParts = 3
    MaxTurns = 3
INVARIANTS
    PromptIsHistory
    DeliveredAsSaid
    FollowUpAccepted
    InitiatorFollowsTurn
CHECK_DEADLOCK FALSE
