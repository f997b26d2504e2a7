CONSTANTS
    c1 = c1
    c2 = c2
    c3 = c3
    k1 = k1
    k2 = k2
    Call <- MCCall
    Key <- MCKey
    Ops = {"revert", "compensate"}
    None = None
    MaxCrashes = 2
    MaxRefusals = 1
    MaxDrops = 1
SPECIFICATION MCSpec
INVARIANTS
    RevertedIsTrue
    OneInverse
PROPERTIES
    NeverRerun
    ImplementsResolution
    EveryCallEnds
CHECK_DEADLOCK FALSE
