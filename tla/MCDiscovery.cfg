SPECIFICATION FairSpec
CONSTANTS
    pods = pods
    nodes = nodes
    home = home
    team = team
    Cluster = cluster
    Home = home
    Shards <- MCPods
    PartitionOf <- MCPodPartitionOf
    Grants <- MCPodGrants
    Requests = {1}
    MaxChanges = 2
    None = None
INVARIANTS
    QuietMeansCurrent
PROPERTIES
    RevocationHasCause
    PermittedIsWatched
    ResyncRelists
