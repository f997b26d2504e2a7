CONSTANTS
    Fiber = {f1, f2, f3}
    f1 = f1
    f2 = f2
    f3 = f3
    t1 = t1
    t2 = t2
    Topic = {t1, t2}
    Nobody = Nobody
    Mode = {"Emit", "Collect", "Bail"}
    Grants <- MCGrants
    Stories <- MCStories
SPECIFICATION FairSpec
INVARIANTS
    NoWaitCycle
    LandsWhereAimed
PROPERTIES
    EveryCrossingEnds
CHECK_DEADLOCK FALSE
