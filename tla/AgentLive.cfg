SPECIFICATION FairSpec
CONSTANTS
    Touches <- Resting
    Clicking = FALSE
    Signals = TRUE
    QueueCapacity = 3
    PressFrames = 1
    MaxSequence = 8
    Reordered = TRUE
INVARIANTS
    SenderNotDeaf
PROPERTIES
    OverflowEndsSession
    StopsInTime
CHECK_DEADLOCK FALSE
