SPECIFICATION Spec
CONSTANTS
    r1 = r1
    r2 = r2
    c1 = c1
    c2 = c2
    Requests <- TwoRequests
    Candidates <- OneCandidate
    Clientless = {}
    SnapshotMissing = {c1}
    Totals = {0, 3}
    Amounts = {1, 2, 4}
    MaxInvoices = 2
    MaxPayments = 2
    UniqueCandidateKey = TRUE
INVARIANTS
    TypeOK
    PaidIsBacked
    PaidIsBounded
    PaidMeansCovered
PROPERTIES
    FreshWritesFollowTheMachine
CHECK_DEADLOCK FALSE
