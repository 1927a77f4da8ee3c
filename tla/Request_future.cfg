CONSTANTS
    Creator = app
    Dispatchers = {loop, other}
    Cancellers = {closer}
    Nesting = {}
    MaxDepth = 1
    IdSpace = 3
SPECIFICATION FairRequestSpec
INVARIANTS RequestTypeOK SettledOnce OutcomeIsTrue
PROPERTIES FutureBecomesReady
CHECK_DEADLOCK FALSE
