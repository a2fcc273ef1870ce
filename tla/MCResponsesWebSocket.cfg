SPECIFICATION SocketFairSpec
CONSTANTS
    MaxMessages = 2
    MaxFrames = 3
INVARIANTS
    TurnsRelayed
PROPERTIES
    EveryMessageServed
CHECK_DEADLOCK FALSE
