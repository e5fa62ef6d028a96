SPECIFICATION FairSpec
CONSTANTS
    Processes = {p, q}
    Events = {e1, e2, e3}
    Nobody = Nobody
    Garbage = Garbage
    MaxDeaths = 2
    MaxTears = 2
    TearPoints = {"half", "bare"}
    MaxRefusals = 1
INVARIANTS
    ReadableChain
PROPERTIES
    AppendOnly
    LinearSpec
    LockReleased
CHECK_DEADLOCK FALSE
