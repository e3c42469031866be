SPECIFICATION SurfaceSpec
CONSTANTS
    Ids = {i1, i2, i3}
    Positions = {0, 1}
    MaxSlots = 2
    MaxWireContacts = 2
    SeqMod = 2
    FrameTimeout = 2
    AgeLimit = 6
    MaxBatch = 2
    MaxFragments = 3
    MaxFailures = 1
    MaxStops = 1
SYMMETRY Symmetry
INVARIANTS
    TypeOK
    GhostFree
    HostMatchesSession
    BoundedHold
PROPERTIES
    ResetHeals
    ImplementsSurface
