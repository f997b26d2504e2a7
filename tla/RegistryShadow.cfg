CONSTANTS
    None = None
    p1 = p1
    p2 = p2
    p3 = p3
    c1 = c1
    top = top
    mid = mid
    leaf = leaf
    side = side
    Context = {top, mid, leaf, side}
    Root = top
    Parent <- Tree
    Bindings <- NoBindings
    Service = {"store", "log"}
    Realm = {"root", "team"}
    RootRealm = "root"
    Provision = {p1, p2}
    Consumer = {c1}
    Provider <- SlotProvider
    Place <- ShadowPlace
    Seat <- AtLeaf
    Injects <- SlotInjects
    MaxActivations = 1
    MaxReports = 0
SPECIFICATION FairSpec
PROPERTIES
    DrainEnds
CHECK_DEADLOCK FALSE
