SPECIFICATION FairSpec
CONSTANTS
    ToolKind <- MCToolKind
    CustomValid <- MCCustomValid
    Paths = {"local", "chat", "search"}
    Chunks <- MCChunks
    Answers <- MCAnswers
    MaxLines = 5
INVARIANTS
    FindingsReachUpstream
    LiveContentPreserved
    OutputIsWhatWasStreamed
    NothingLostOrMixed
    TruncatedNeverSucceeds
    CompletedIsCached
PROPERTIES
    RefinesProtocol
    EventuallyEnds
CHECK_DEADLOCK FALSE
