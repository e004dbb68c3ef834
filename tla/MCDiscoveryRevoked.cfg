SPECIFICATION FairSpec
CONSTANTS
    pods = pods
    nodes = nodes
    home = home
    team = team
    Cluster = cluster
    Home = home
    Shards <- MCScopes
    PartitionOf <- MCScopePartitionOf
    Grants <- MCScopeGrants
    Requests = {}
    MaxChanges = 1
    None = None
PROPERTIES
    RevokedIsGone
