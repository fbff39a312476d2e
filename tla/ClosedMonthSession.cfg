SPECIFICATION SerialSpec
CONSTANTS
    r1 = r1
    r2 = r2
    o1 = o1
    early = early
    late = late
    jan = jan
    feb = feb
    Requests <- OneRequest
    Officers <- OneOfficer
    Schedules <- OneShift
    Months <- TwoMonths
    Days <- TwoDays
    MonthOf <- MonthTurn
    MaxPunches = 1
    MaxAsked = 1
    MaxCorrections = 0
    UniquePeriodKey = TRUE
PROPERTIES
    ClosedMonthKeepsItsSessions
CHECK_DEADLOCK FALSE
