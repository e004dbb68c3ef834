SPECIFICATION FairSpec
CONSTANTS
    pod = pod
    ev = ev
    d1 = d1
    d2 = d2
    Resources = {pod, ev}
    WarningKinds = {ev}
    Referent <- MCReferent
    HealthKinds = {pod}
    Shards = {s1, s2}
    Details = {d1, d2, rec}
    Projections <- MCProjections
    MaxTime = 2
    Window = 1
    Recovered = rec
    NoRow = NoRow
    Closed = Closed
INVARIANTS
    NothingLiveBeforeReconciliation
    IncidentMatchesInventory
PROPERTIES
    ObservationNeverRollsBack
    
    ChangesAreLogged
    
    ProblemsOfEventsEnd
