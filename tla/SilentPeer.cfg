SPECIFICATION FairSpec
CONSTANTS
    Ids = {i1, i2}
    Positions = {0}
    MaxSlots = 1
    MaxWireContacts = 3
    SeqMod = 2
    FrameTimeout = 2
    AgeLimit = 6
    MaxBatch = 2
    MaxFragments = 3
    MaxFailures = 1
    MaxStops = 1
PROPERTIES
    StaleTouchReleased
