CONSTANTS
    Listener = {l1, l2}
    Dispatch = {d1, d2}
    Mode = {"Emit", "Parallel", "Serial", "Bail", "Waterfall"}
    OnceSets = {{l1}, {l1, l2}}
    None = None
    MaxPanics = 1
    MaxDrops = 1
SPECIFICATION FairSpec
INVARIANTS
    OnceHasOneFate
    EveryoneIsHeard
PROPERTIES
    DispatchReturns
CHECK_DEADLOCK FALSE
