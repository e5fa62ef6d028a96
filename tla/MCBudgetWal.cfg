SPECIFICATION Spec
CONSTANTS
    Processes = {p, q}
    Calls = {c1, c2}
    Nobody = Nobody
    NoFile = NoFile
    Cap = 3
    CallCeiling = 2
    Estimates = {1, 2, 3}
    Days = 1
    MaxDeaths = 0
    MaxRefusals = 1
    MaxAged = 0
SYMMETRY MCSymmetry
INVARIANTS
    NoSpendLost
CHECK_DEADLOCK FALSE
