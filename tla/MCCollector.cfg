SPECIFICATION Spec
CONSTANTS
    Objects = {a, b}
    Replicas = {r1, r2}
    SendErrors = FALSE
    MaxChanges = 3
    MaxTime = 6
    None = None
    NoRow = NoRow
INVARIANTS
    CaughtUpIsExact
PROPERTIES
    ListedSurvivesMarker
SYMMETRY MCSymmetry
