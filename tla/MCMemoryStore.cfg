SPECIFICATION Spec
CONSTANTS
    e1 = e1
    e2 = e2
    EntryIds = {e1, e2}
    Contents = {x, y}
    Writers = {}
    Reasons = {r, s}
    Absent = Absent
    None = None
    Clients = {c1, c2}
    Tier = "episodic"
    ProducerRoles <- MCRoles
    WrittenTrust <- MCWrittenTrust
    Batches <- MCBatches
SYMMETRY MCSymmetry
INVARIANTS
    TypeOK
    OneWinnerPerPrecondition
    LiveHasOneWhy
    PromotionsOnlyAdd
    LiveIsArchived
PROPERTIES
    LiveIsFinal
CHECK_DEADLOCK FALSE
