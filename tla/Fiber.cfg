CONSTANTS
    e1 = e1
    e2 = e2
    Epochs <- MCEpochs
    NoEpoch = NoEpoch
    RestartCauses = {"ConfigChanged"}
    MaxRestarts = 1
    MaxFlips = 2
    MaxProbes = 1
SPECIFICATION MCSpec
INVARIANTS
    RestIsHonest
    SingleFlight
    FaultsAreHonest
    AnswersAreCurrent
PROPERTIES
    PromiseTakenBackForCause
    Progresses
CHECK_DEADLOCK FALSE
