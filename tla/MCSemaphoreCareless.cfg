CONSTANTS
    t1 = t1
    t2 = t2
    t3 = t3
    NoThread = NoThread
    Free = Free
    Threads  <- MCTwoThreads
    Creators <- MCOneCreator
    SEM_TABLE_MAX = 3
    MaxValue = 2
    Careful = FALSE
SPECIFICATION FairSpec
PROPERTIES
    ImplementsPool
\* The process stops in panic("bad!").
CHECK_DEADLOCK FALSE
