SPECIFICATION Spec
CONSTANTS
    HeaderSize = 2
    ContactSize = 2
    MaxContacts = 2
    RecvSize = 16
    MaxInFlight = 3
    Ids = {i1, i2}
INVARIANTS
    TypeOK
    InStep
    LimitOnlyOnBurst
    OneProtocol
