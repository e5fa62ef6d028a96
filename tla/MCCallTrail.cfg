SPECIFICATION TrailSpec
CONSTANTS
    Processes = {p, q}
    Calls = {c1, c2}
    Nobody = Nobody
    NoFile = NoFile
    Cap = 3
    CallCeiling = 2
    Estimates <- MCEstimates
    Days = 2
    MaxDeaths = 1
    MaxRefusals = 1
    MaxAged = 1
    MaxRetries = 2
INVARIANTS
    ChargedWithinCap
    LedgerExact
    ReservedWhileInFlight
    TrailWithinLedger
PROPERTIES
    CallEnds
CHECK_DEADLOCK FALSE
