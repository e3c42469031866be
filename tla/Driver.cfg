SPECIFICATION FairSpec
CONSTANTS
    Slots = {0, 1}
    Workers = {w1, w2}
    VhfThreads = {t1, t2}
    MaxSubmits = 2
INVARIANTS
    TypeOK
    HandleOwnsVhf
    NothingRunsAfterCleanup
    ReportsAsDeclared
PROPERTIES
    ImplementsTouchpad
    RequestCompletes
    RemovalCompletes
