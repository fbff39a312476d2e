SPECIFICATION Spec
CONSTANTS
    r1 = r1
    r2 = r2
    p1 = p1
    p2 = p2
    Requests <- TwoRequests
    Periods <- OnePeriod
    Totals = {3}
    Amounts = {2}
    Gateways = {"thawani"}
    DuplicateIsRecognised = FALSE
    MaxInvoices = 2
    MaxSessions = 2
    MaxPayments = 1
INVARIANTS
    TypeOK
    PaidIsCovered
    AnsweredIsClaimed
PROPERTIES
    ImplementsSettlement
CHECK_DEADLOCK FALSE
