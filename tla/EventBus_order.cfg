CONSTANTS
    Types = {ping}
    Owners = {o1}
    Awaiters = {a1}
    Threads = {pump}
    Pumps = {pump}
    Reentrant = FALSE
    Guards = {"none"}
    Handled = {TRUE, FALSE}
    Producers = 1
    MaxEvent = 3
    MaxSub = 1
    MaxDepth = 2
SPECIFICATION FairSpec
INVARIANTS DispatchedInOrder
PROPERTIES PostedIsDispatched
