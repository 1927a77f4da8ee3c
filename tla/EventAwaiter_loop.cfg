CONSTANTS
    Creator = loop
    Dispatchers = {loop}
    Cancellers = {other, third}
    Nesting = {"inCallback", "inTimeout"}
    MaxDepth = 2
SPECIFICATION FairSpec
INVARIANTS SingleShotOnce ResultOrTimeout NothingLeft NoUseAfterFree
PROPERTIES QuietAfterCancel TimesOut
CHECK_DEADLOCK FALSE
