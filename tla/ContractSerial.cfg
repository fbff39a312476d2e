SPECIFICATION FairSerialSpec
CONSTANTS
    r1 = r1
    r2 = r2
    Job = Job
    Requests <- OneRequest
    LastDay = 2
    MaxRoots = 1
    MaxContracts = 3
    MaxTrail = 3
    Expiries = {0, 2}
    FirstStatuses = {"draft", "active"}
INVARIANTS
    TypeOK
    SupersededHasSuccessor
    TrailTellsStatus
    OneSuccessor
    OneDraftAmendmentPerBase
PROPERTIES
    DraftIsDecided
    OverdueIsExpired
CHECK_DEADLOCK FALSE
