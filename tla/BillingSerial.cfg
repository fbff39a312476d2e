SPECIFICATION SerialSpec
CONSTANTS
    r1 = r1
    r2 = r2
    c1 = c1
    c2 = c2
    Requests <- OneRequest
    Candidates <- TwoCandidates
    Clientless = {}
    SnapshotMissing = {c2}
    Totals = {0, 3}
    Amounts = {1, 2, 4}
    MaxInvoices = 3
    MaxPayments = 2
    UniqueCandidateKey = TRUE
INVARIANTS
    NoPaymentOnVoided
PROPERTIES
    ImplementsLedger
CHECK_DEADLOCK FALSE
