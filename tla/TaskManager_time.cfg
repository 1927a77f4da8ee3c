\* Deadlines, series and rescheduling; one priority.
SPECIFICATION Spec
CONSTANTS
    MaxId = 2
    MaxTime = 2
    Urgencies = {1}
    Dues = {1, 2}
    Intervals = {1}
    Schedules = {"fixed_delay", "fixed_rate"}
    Quotas = {1, 2}
    BatchSizes = {}
    Handlers = {"returns"}
    Producers = 1
INVARIANTS
    TypeOK
    IndexExact
    NeverEarly
    AllDuePromoted
    CountsExact
