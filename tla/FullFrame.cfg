SPECIFICATION SessionSpec
CONSTANTS
    Ids = {i1, i2, i3}
    Positions = {0, 1}
    MaxSlots = 2
    MaxWireContacts = 3
    SeqMod = 3
    FrameTimeout = 2
    AgeLimit = 3
SYMMETRY Symmetry
INVARIANTS
    FullFrameAccepted
