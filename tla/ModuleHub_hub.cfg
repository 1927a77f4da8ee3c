CONSTANTS
    MaxModules = 2
    Inline = {1}
    Private = {2}
    Quota = 1
    MaxTasks = 1
    MaxEvents = 1
    MaxFails = 1
    Uses = {"start", "embed"}
SPECIFICATION Spec
INVARIANTS HubMissesNothing WorkerMissesNothing NoFailureLost
PROPERTIES KeepsContract
CONSTRAINT OneAtATime
