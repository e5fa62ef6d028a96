SPECIFICATION Spec
CONSTANTS
    Iterations = {i1, i2}
    Contents = {i1, i2}
    Writers = {i1, i2}
    EntryIds = {e1, e2}
    Reasons = {}
    Absent = Absent
    None = None
    Nobody = Nobody
    TierOrder <- MCTiers
    Librarians = {"honest", "buggy"}
    Graders = {g}
    MinAttempts = 1
    Checkpoints = {"base", "renamed", "other"}
    IdentityOf <- MCIdentityOf
    Configurations <- MCConfigurations
    SkillMakers = {i1, i2}
    MaxEdits = 1
    MaxInFlight = 2
SYMMETRY MCSymmetry
INVARIANTS
    TypeOK
    LiveHasTrail
    PromotedAsSigned
    PromotedOnEvidence
    ProceduralOnlySkills
    CleanupRemoves
PROPERTIES
    CleanupSpares
    StoreSpec
CHECK_DEADLOCK FALSE
