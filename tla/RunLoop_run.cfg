CONSTANTS
    MaxId = 2
    MaxTime = 1
    Urgencies = {0, 1}
    Dues = {1}
    Intervals = {}
    Schedules = {}
    Quotas = {1}
    BatchSizes = {}
    Handlers = {}
    Producers = 1
    MaxEvents = 1
SPECIFICATION FairLoopSpec
INVARIANTS NoLostWakeup
PROPERTIES TaskIsServed StopEndsRun
CONSTRAINT Escalating
