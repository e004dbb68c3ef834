SPECIFICATION DrainSpec
CONSTANTS
    s1 = s1
    s2 = s2
    r1 = r1
    w1 = w1
    w2 = w2
    n2 = n2
    Shards = {s1}
    Events = {1, 2}
    ShardOf <- MCShardOf
    Batches <- MCFewBatches
    Clients = {c1}
    Workers = {w1, w2}
    Limit = 1
    Undecodable = {}
    MaxClock = 3
    None = None
    Entries = {1, 2}
    ResourceOf <- MCResourceOf
    Notifiers = {n1, n2}
    Slow = {n1}
    MaxAttempts = 1
    Nobody = Nobody
PROPERTIES
    EventuallyApplied
    EventuallyDelivered
CHECK_DEADLOCK FALSE
