CONSTANTS
    t1 = t1
    t2 = t2
    t3 = t3
    NoThread = NoThread
    Free = Free
    Threads  <- MCThreads
    Creators <- MCTwoCreators
    SEM_TABLE_MAX = 3
    MaxValue = 1
    Careful = TRUE
SPECIFICATION Spec
INVARIANT NoPanic
