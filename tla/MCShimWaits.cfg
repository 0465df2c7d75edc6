CONSTANTS
    NSEC = 3
    MaxPoint = 9
    Sleepers = {t1}
    Durations <- MCDurations
    Points <- MCPoints
    Adjustments <- MCAdjustments
    Start = 4
    LastCall = 4
    Horizon = 14
    MaxSets = 1
    Producers = {p1, p2}
    Consumers = {c1, c2, c3}
    MaxItems = 3
    NoOwner = nobody
SPECIFICATION FairWaitingSpec
PROPERTIES
    TimesExact
    WaitsEnd
    EachSignalWakes
    Delivered
\* Monotonic time ends at the horizon, and consumers may wait when nothing more
\* is produced.
CHECK_DEADLOCK FALSE
