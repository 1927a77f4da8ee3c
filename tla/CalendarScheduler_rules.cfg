CONSTANTS
    DayLength = 4
    WeekLength = 3
    MonthDays <- Year
    MaxRules = 2
    MaxTasks = 3
    Additions <- RulesAndOptions
    Walls = {2, 8}
    AddsOnLoop = TRUE
SPECIFICATION Spec
INVARIANTS TypeOK RuleHasOneTask CancelLeavesNothing RunsForward ScanFindsNext
CHECK_DEADLOCK FALSE
