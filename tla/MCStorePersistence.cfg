SPECIFICATION Spec
CONSTANTS
    Ids = {e1, e2, e3}
    Absent = Absent
    Empty = Empty
    Torn = Torn
    MaxCrashes = 2
    MaxFailures = 1
SYMMETRY MCSymmetry
INVARIANTS
    WentIsArchived
    OneSide
    LiveSurvives
    NothingVanishes
CHECK_DEADLOCK FALSE
