SPECIFICATION Spec
CONSTANTS
    ToolKind <- MCToolKind
    CustomValid <- MCCustomValid
    Paths = {"search"}
    Chunks <- NoChunks
    Answers <- MCAnswers
    MaxLines = 3
INVARIANTS
    OwnCallsSurvive
CHECK_DEADLOCK FALSE
