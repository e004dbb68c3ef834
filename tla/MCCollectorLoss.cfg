SPECIFICATION Spec
CONSTANTS
    Objects = {a, b}
    Replicas = {r1, r2}
    SendErrors = TRUE
    MaxChanges = 3
    MaxTime = 6
    None = None
    NoRow = NoRow
PROPERTIES
    ListedSurvivesMarker
SYMMETRY MCSymmetry
