CONSTANTS
    Threads = {t1, t2}
    Mutexes = {m1, m2}
    Statics = {"recursive"}
    RecursiveCxx = TRUE
    MaxDepth = 2
    None = None
    Nobody = Nobody
    NoMutex = NoMutex
    i1 = i1
    i2 = i2
    h1 = h1
    h2 = h2
    x1 = x1
    Ids <- MCIds
    Handles <- MCHandles
    CxxHandles <- MCCxxHandles
    DetachStates = {1, 2}
    Uses <- MCUses
    MaxThreads = 3
    Lines = 1
    Randoms = {6, 7}
    TickWrap = 4
    MaxUuids = 3
    Main = Main
    Null = Null
SYMMETRY Similar
SPECIFICATION SharedSpec
INVARIANTS
    ThreadsAccounted
    AllDiffer
PROPERTIES
    MutexesAsMade
\* The process may end, and the bounds stop the rest.
CHECK_DEADLOCK FALSE
