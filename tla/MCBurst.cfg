SPECIFICATION BurstSpec
CONSTANTS
    p = p
    q = q
    Processes = {p, q}
    Calls = {c1, c2, c3}
    Nobody = Nobody
    NoFile = NoFile
    Cap = 2
    CallCeiling = 2
    Estimates = {1}
    Days = 2
    MaxDeaths = 1
    MaxRefusals = 1
    MaxAged = 0
    FollowUpMax = 2
    RecentMax = 2
    GapLimit = 1
    Salts = {1, 2}
    Plans <- MCPlans
    Agents <- MCAgents
SYMMETRY MCSymmetry
INVARIANTS
    RowsBracketSpend
    NothingStranded
    SeedsTakeTurns
PROPERTIES
    FailureIsTakenUp
CHECK_DEADLOCK FALSE
