SPECIFICATION EvaluationSpec
CONSTANTS
    DaysPerYear = 3
    MaxSold = 1
    MaxScore = 1
    None = None
    Requests <- MCRequests
INVARIANTS
    StagesKeepToTheirDays
    HandedOnHolds
CHECK_DEADLOCK FALSE
