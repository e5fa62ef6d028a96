SPECIFICATION Spec
CONSTANTS
    Iterations = {i1, i2}
    Contents = {i1, i2}
    Writers = {i1, i2}
    EntryIds = {e1, e2}
    Reasons = {}
    Absent = Absent
    None = None
    Nobody = Nobody
    TierOrder <- MCOpenTiers
    Librarians = {"honest", "buggy"}
    Graders = {g}
    MinAttempts = 1
    Checkpoints = {"base", "renamed", "other"}
    IdentityOf <- MCIdentityOf
    Configurations <- MCDefaultConfiguration
    SkillMakers = {}
    MaxEdits = 0
    MaxInFlight = 2
SYMMETRY MCSymmetry
PROPERTIES
    SiblingStampSpared
CHECK_DEADLOCK FALSE
