SPECIFICATION Spec
CONSTANTS
    LF = LF
    CR = CR
    H1 = H1
    H2 = H2
    F = F
    X = X
    Replacement = Replacement
    Bytes <- BytesDef
    Limit = 4
    Cases <- CasesDef
    Classify <- ClassifyDef
    Refused <- RefusedDef
INVARIANTS
    LinesAsSent
    RelayedIntact
    RetriedForFirstFailure
    FailedForCause
