CONSTANTS
    MaxModules = 1
    Inline = {}
    Private = {1}
    Quota = 1
    MaxTasks = 1
    MaxEvents = 0
    MaxFails = 1
    Uses = {"run", "start"}
SPECIFICATION FairSpec
PROPERTIES StopEndsHub JoinsEnd FailureEndsHub
