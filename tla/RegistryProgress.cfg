CONSTANTS
    None = None
    p1 = p1
    p2 = p2
    p3 = p3
    c1 = c1
    top = top
    mid = mid
    leaf = leaf
    side = side
    Context = {top, mid, leaf, side}
    Root = top
    Parent <- Tree
    Bindings <- PairBindings
    Service = {"store", "log"}
    Realm = {"root", "team"}
    RootRealm = "root"
    Provision = {p1, p3}
    Consumer = {c1}
    Provider <- SlotProvider
    Place <- PairPlace
    Seat <- AtLeaf
    Injects <- PairInjects
    MaxActivations = 2
    MaxReports = 1
SPECIFICATION FairSpec
INVARIANTS
    GrantsAreCurrent
PROPERTIES
    DrainEnds
CHECK_DEADLOCK FALSE
