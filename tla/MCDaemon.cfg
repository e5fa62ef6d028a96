SPECIFICATION Spec
CONSTANTS
    Rate = 2
    RecentLen = 2
    MaxTotal = 5
    SnapshotEvery = 2
    Hour = 2
    MaxFailures = 2
    MaxKills = 1
INVARIANTS
    PaceKept
    HoleContained
    SurvivesSingleFailure
PROPERTIES
    EndsWhenAsked
CHECK_DEADLOCK FALSE
