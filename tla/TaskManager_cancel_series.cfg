\* cancel() of a live series while process() starts its next cycle.
SPECIFICATION Spec
CONSTANTS
    MaxId = 1
    MaxTime = 1
    Urgencies = {1}
    Dues = {0}
    Intervals = {1}
    Schedules = {"fixed_delay"}
    Quotas = {1}
    BatchSizes = {}
    Handlers = {}
    Producers = 1
PROPERTIES
    CancelStopsSeries
