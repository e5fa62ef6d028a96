SPECIFICATION Spec
CONSTANTS
    Scale = 12
    Graders <- MCGraders
    SliceCap = 2
    SliceMinN = 2
    WorstK = 1
    Slices <- MCSlices
    Populations <- MCPopulations
    None = None
    Inf = Inf
INVARIANTS
    VerdictFollowsCases
    CriticGetsWorst
PROPERTIES
    ConservativePass
CHECK_DEADLOCK FALSE
