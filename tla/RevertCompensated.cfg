CONSTANTS
    c1 = c1
    c2 = c2
    c3 = c3
    k1 = k1
    k2 = k2
    Call <- MCCall
    Key <- MCKey
    Ops = {"revert", "compensate"}
    None = None
    MaxCrashes = 1
    MaxRefusals = 0
    MaxDrops = 0
SPECIFICATION Spec
INVARIANTS
    RevertedIsEarned
CHECK_DEADLOCK FALSE
