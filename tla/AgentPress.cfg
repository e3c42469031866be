SPECIFICATION Spec
CONSTANTS
    Touches <- Pressing
    Clicking = FALSE
    Signals = FALSE
    QueueCapacity = 3
    PressFrames = 3
    MaxSequence = 6
    Reordered = FALSE
PROPERTIES
    PressIsCurrent
CHECK_DEADLOCK FALSE
