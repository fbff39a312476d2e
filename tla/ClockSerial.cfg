SPECIFICATION SerialSpec
CONSTANTS
    r1 = r1
    r2 = r2
    o1 = o1
    early = early
    late = late
    jan = jan
    feb = feb
    Requests <- OneRequest
    Officers <- OneOfficer
    Schedules <- OneShift
    Months <- OneMonth
    Days <- OneDay
    MonthOf <- InJanuary
    MaxPunches = 2
    MaxAsked = 1
    MaxCorrections = 2
    UniquePeriodKey = TRUE
INVARIANTS
    SessionsFollowPunches
    OneDecisionOnePunch
CHECK_DEADLOCK FALSE
