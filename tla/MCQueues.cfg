SPECIFICATION QueuesSpec
CONSTANTS
    s1 = s1
    s2 = s2
    r1 = r1
    w1 = w1
    w2 = w2
    n2 = n2
    Shards = {s1, s2}
    Events = {1, 2, 3, 4}
    ShardOf <- MCShardOf
    Batches <- MCBatches
    Clients = {c1, c2}
    Workers = {w1, w2}
    Limit = 2
    Undecodable = {1}
    MaxClock = 3
    None = None
    Entries = {1, 2, 3}
    ResourceOf <- MCResourceOf
    Notifiers = {n1, n2}
    Slow = {n1, n2}
    MaxAttempts = 2
    Nobody = Nobody
INVARIANTS
    TypeOK
    HeadIsEarliest
    PendingCountsUnapplied
    AckedIsDurable
    ProcessedInOrder
    DeliveredWasProcessed
PROPERTIES
    OvertakesOnlyFailed
    ImplementsQueue
    ImplementsIncidents
SYMMETRY MCSymmetry
CHECK_DEADLOCK FALSE
