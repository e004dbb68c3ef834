SPECIFICATION FairSpec
CONSTANTS
    Watchers = {w1}
    Heartbeat = hb
    MaxBatch = 2
    Size <- MCSize
    SpoolMaxBytes = 4
    ClockSteps = FALSE
    MaxCrashes = 1
    None = None
INVARIANTS
    TypeOK
    NothingLost
    FirstArrivalsInOrder
    SpoolAccounted
PROPERTIES
    EventuallyArrives
