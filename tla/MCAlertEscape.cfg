CONSTANTS
    Main = main
    Helpers = {h1, h2}
    Locks = {l1, l2}
    NoLock = noLock
    Nobody = nobody
    MainOnly = TRUE
    MaxLocks = 3
CHECK_DEADLOCK FALSE
SPECIFICATION FairSpec
INVARIANTS
    TypeOK
    JumpsHome
PROPERTY
    EndsOrStuck
