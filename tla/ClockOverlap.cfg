SPECIFICATION Spec
CONSTANTS
    r1 = r1
    r2 = r2
    o1 = o1
    early = early
    late = late
    jan = jan
    feb = feb
    Requests <- TwoRequests
    Officers <- NoOfficer
    Schedules <- OneShift
    Months <- OneMonth
    Days <- TwoDays
    MonthOf <- BothJanuary
    MaxPunches = 2
    MaxAsked = 0
    MaxCorrections = 1
    UniquePeriodKey = TRUE
INVARIANTS
    TypeOK
    ClosedSessionIsClosedPunch
CHECK_DEADLOCK FALSE
