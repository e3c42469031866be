SPECIFICATION Spec
CONSTANTS
    Touches <- Joining
    Clicking = TRUE
    Signals = FALSE
    QueueCapacity = 3
    PressFrames = 1
    MaxSequence = 7
    Reordered = TRUE
INVARIANTS
    TypeOK
    QueueOrdered
    NoStuckButton
    WindowsHasLatest
    GapOnlyBeforeReconnect
PROPERTIES
    MultiFingerNotPressed
CHECK_DEADLOCK FALSE
