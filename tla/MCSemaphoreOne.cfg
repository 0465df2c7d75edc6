CONSTANTS
    t1 = t1
    t2 = t2
    t3 = t3
    NoThread = NoThread
    Free = Free
    Threads  <- MCThreads
    Creators <- MCOneCreator
    SEM_TABLE_MAX = 3
    MaxValue = 2
    Careful = TRUE
SPECIFICATION FairSpec
INVARIANTS
    TypeOK
    NoPanic
    HandlesUnique
    BitsMatchHandles
PROPERTIES
    ImplementsPool
    LockReleased
