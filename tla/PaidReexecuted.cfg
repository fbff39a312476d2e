SPECIFICATION SerialSpec
CONSTANTS
    r1 = r1
    r2 = r2
    e1 = e1
    e2 = e2
    jan = jan
    feb = feb
    Requests <- OneRequest
    Months <- OneMonth
    Employees <- OneEmployee
    Principals = {2}
    Instalments = {1}
    Edits = {}
    MaxRuns = 1
    MaxEdited = 0
    MaxLoans = 1
PROPERTIES
    PaidRunKeepsItsLines
CHECK_DEADLOCK FALSE
