CONSTANTS
    None = None
    g = g a = a b = b
    t1 = t1 t2 = t2 t3 = t3
    grp = grp p = p q = q
    c1 = c1 c2 = c2
    Entry <- MCEntry
    Parent <- MCParent
    Plugin <- MCPlugin
    Group = grp
    Config <- MCConfig
    Task <- MCTask
    Workloads <- MCWorkloads
    Booted <- MCBooted
    Parts = {"loader", "cycles"}
    Declarations <- MCDeclarations
    Diffs <- MCDiffs
    MaxSaveFaults = 2
    MaxLaneFaults = 1
SPECIFICATION MCSpec
INVARIANTS
    OneTruth
    CyclesAreContained
PROPERTIES
    OperationsEnd
CHECK_DEADLOCK FALSE
