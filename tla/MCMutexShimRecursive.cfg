CONSTANTS
    Threads = {t1, t2}
    Mutexes = {m1}
    Statics = {"plain", "firstfit", "errorcheck", "recursive"}
    RecursiveCxx = TRUE
    MaxDepth = 3
    None = None
    Nobody = Nobody
    NoMutex = NoMutex
SPECIFICATION Spec
INVARIANTS
    RecursiveRelocks
\* The constructor of recursive_mutex ends the process.
CHECK_DEADLOCK FALSE
