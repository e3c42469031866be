SPECIFICATION FairSpec
CONSTANTS
    QueueCapacity = 1
    SocketBuffer = 2
    Backlog = 1
    DecoderLimit = 1
    MaxFaults = 1
INVARIANTS
    TypeOK
    NothingLeftOver
PROPERTIES
    LiftReachesWindows
    TouchReachesWindows
    LeavesUnlessHeld
