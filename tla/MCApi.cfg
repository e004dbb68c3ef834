SPECIFICATION Spec
CONSTANTS
    a = a
    b = b
    campus = campus
    lab = lab
    Writers = {w1}
    Streams = {c1}
    Page = 2
    MaxSeq = 4
    Editors = {e1, e2}
    Definitions <- MCDefinitions
    MaxWrites = 4
    Missing = Missing
    Rows = {1, 2, 3}
    NameOf <- MCNameOf
    Limit = 1
    MaxSortId = 3
    Local = central
    Remotes = {campus, lab}
    Ids = {1, 2, 3}
    ClusterOf <- MCClusterOf
    OwnerOf <- MCOwnerOf
    Asked <- MCAsked
    ServerRanks = {0, 1}
    SelectorLimit = 1
    Targets = {campus}
    Keys = {ready, data}
    Ready = ready
    Unmarked = {}
    Readers = {r1}
    WorstRank = 1
    MaxPending = 2
    Absent = Absent
    Clients = {k1, k2}
    Lifetime = 2
    RetryDelay = 1
    MaxTokens = 2
    MaxTime = 4
    Nobody = Nobody
INVARIANTS
    EachChangeOnce
    NoChangeSkipped
    SteadyRowsOnce
    
    FreshnessIsWorst
    SelectorCountsAll
    OneRecoveryProbe
    NeverLiveAgain
PROPERTIES
    NoLostUpdate
    OnlyRefusedIsDropped
    Recovers
