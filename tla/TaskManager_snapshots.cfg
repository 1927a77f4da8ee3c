\* Priorities, snapshots, exceptions and cancellation; time stands still.
SPECIFICATION FairSpec
CONSTANTS
    MaxId = 3
    MaxTime = 0
    Urgencies = {0, 1}
    Dues = {0}
    Intervals = {}
    Schedules = {}
    Quotas = {1, 3}
    BatchSizes = {2}
    Handlers = {"none", "returns", "throws"}
    Producers = 1
INVARIANTS
    OneHome
PROPERTIES
    KeepsContract
    SnapshotMostUrgent
    ReadyIsServed
