\* The components that run tasks, each on its own.
SPECIFICATION Spec
CONSTANTS
    a = a
    r = r
    Caller = {d1, d2, d3}
    MaxSteps = 3
    MaxDrops = 1
    Plans <- MCPlans
    RingCap = 2
    Chunk = 1
    PipeCap = 2
    OutputCap = 2
    MaxArrivals = 3
    MaxNetFaults = 1
    AlarmIds = {1, 2}
    MaxWakes = 2
    Fibers = {f}
    Syncers = {s1, s2}
    Listeners = {l, m}
    Capacity = 1
    LaneCapacity = 1
    MaxMoves = 2
    MaxTraps = 1
    MaxDenials = 1
    Id = {a}
    Config = {1, 2}
    Raw = {r}
    None = None
    Junk = Junk
    Absent = Absent
    Texts <- MCTexts
    MaxEdits = 2
    MaxOps = 1
    MaxCrashes = 1
    MaxFaults = 1
    Horizons = {h}
    Parks = {g1, g2}
    Deadline = 2
    MaxTime = 4
INVARIANTS InstalledWhole StreamsAreWhole PublishedOnRecord
    QuietFileIsRecord DeadlineIsExact
PROPERTIES EndsOnRecord NoWakeAfterRelease ReleasesReturn WorkSettles
CHECK_DEADLOCK FALSE
