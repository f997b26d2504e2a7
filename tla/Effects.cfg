\* One scope, the seats of a package, the providers of durable effects, outbound calls.
SPECIFICATION Spec
CONSTANTS
    Entry = {e1, e2}
    e1 = e1
    e2 = e2
    MaxRecords = 3
    MaxDropped = 1
    MaxInst = 3
    Stories <- MCStories
    Labels = {p}
    Keys = {k}
    NoKey = NoKey
    Absent = Absent
    MaxEffects = 2
    MaxBoots = 2
    MaxFaults = 2
    Tokens = {"a"}
    NoFile = NoFile
    FirstDoc <- MCFirstDoc
    Values = {"v"}
    NoDoc = NoDoc
    Passphrases = {"pw1", "pw2"}
    NoSource = NoSource
    Guests = {g1, g2}
    NoUnit = NoUnit
    MaxIds = 3
    MaxRefused = 1
    MaxRestarts = 1
INVARIANTS
    OneFate TeardownInOrder CleanMeansExact
    OnlyStraysAreLeft EffectsAreNamed TrailRestores
PROPERTY SwapIsWhole
CHECK_DEADLOCK FALSE
