SPECIFICATION FairSpec
CONSTANTS
    Kinds = {"chat", "messages", "responses", "get"}
    RetryMax = 2
    Betas = {b1, b2}
INVARIANTS
    RefusedNotRepeated
    SendsBounded
    CiphertextKept
PROPERTIES
    EventuallyAnswered
CHECK_DEADLOCK FALSE
