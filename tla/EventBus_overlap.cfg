CONSTANTS
    Types = {ping}
    Owners = {o1}
    Awaiters = {}
    Threads = {t1, t2}
    Pumps = {t1, t2}
    Reentrant = TRUE
    Guards = {"owner"}
    Handled = {}
    Producers = 1
    MaxEvent = 2
    MaxSub = 2
    MaxDepth = 2
SPECIFICATION Spec
SYMMETRY ThreadSymmetry
INVARIANTS TypeOK EventsAccounted
PROPERTIES QuietAfterClose KeepsContract
