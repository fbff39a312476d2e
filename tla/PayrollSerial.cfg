SPECIFICATION SerialSpec
CONSTANTS
    r1 = r1
    r2 = r2
    e1 = e1
    e2 = e2
    jan = jan
    feb = feb
    Requests <- TwoRequests
    Months <- TwoMonths
    Employees <- TwoEmployees
    Principals = {3}
    Instalments = {2}
    Edits = {3}
    MaxRuns = 2
    MaxLoans = 2
    MaxEdited = 1
SYMMETRY Symmetric
CONSTRAINT SmallCompany
INVARIANTS
    TypeOK
    PayableIsExecuted
    OnePayslip
    NeverOvercharged
CHECK_DEADLOCK FALSE
