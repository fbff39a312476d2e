SPECIFICATION FairCrashFreeSpec
CONSTANTS
    r1 = r1
    r2 = r2
    p1 = p1
    p2 = p2
    Requests <- OneRequest
    Periods <- OnePeriod
    Totals = {3}
    Amounts = {1, 2}
    Gateways = {"thawani", "stripe"}
    DuplicateIsRecognised = FALSE
    MaxInvoices = 1
    MaxSessions = 2
    MaxPayments = 2

    
PROPERTIES
    SettledIsHandled
CHECK_DEADLOCK FALSE
