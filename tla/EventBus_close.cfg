CONSTANTS
    Types = {ping}
    Owners = {o1}
    Awaiters = {}
    Threads = {t1}
    Pumps = {t1}
    Reentrant = FALSE
    Guards = {"owner"}
    Handled = {FALSE}
    Producers = 1
    MaxEvent = 0
    MaxSub = 2
    MaxDepth = 2
SPECIFICATION Spec
PROPERTIES CloseStopsStarts
