SPECIFICATION AuthFairSpec
CONSTANTS
    Requesters = {c1, c2}
    Tokens = {t1, t2}
    NoToken = NoToken
    NoOne = NoOne
    EnvTokens = {NoToken, t1}
    Terminals = {TRUE, FALSE}
    Margin = 1
    Lifetimes = {2}
    MaxTime = 2
    MaxSerial = 3
    MaxFailures = 1
    MaxCancels = 1
INVARIANTS
    SingleFlight
    NoRedundantExchange
PROPERTIES
    NewestTokenKept
    EveryCallReturns
    RecoversFromRejection
CHECK_DEADLOCK FALSE
