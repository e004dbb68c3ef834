SPECIFICATION FairSpec
CONSTANTS
    s1 = s1
    Shards = {s1}
    Events = {1, 2}
    ShardOf <- MCShardOf
    Batches <- MCBatches
    Clients = {c1}
    Workers = {w1, w2}
    Limit = 2
    Undecodable = {1}
    MaxClock = 2
    None = None
PROPERTY
    StrictShardOrder
