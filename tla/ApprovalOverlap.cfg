SPECIFICATION FairCrashFreeSpec
CONSTANTS
    r1 = r1
    r2 = r2
    o1 = o1
    s1 = s1
    s2 = s2
    i1 = i1
    i2 = i2
    jan = jan
    feb = feb
    Requests <- TwoRequests
    Officers <- OneOfficer
    Scopes <- OneScope
    Items <- TwoItems
    Months <- OneMonth
    StartMonth <- InJanuary
    MonthsOf <- JanuaryOnly
    MaxBatches = 1
    UniquePeriodKey = TRUE
INVARIANTS
    TypeOK
    CandidateWasApproved
    NothingApprovedIsLeftOut
PROPERTIES
    DisputesStand
    ApprovedIsBilled
    FreshTransitionsFollowTheDiagram
CHECK_DEADLOCK FALSE
