\* Safety, with every fault: two handlers, three deployments.
SPECIFICATION Metered
CONSTANTS
    None = None
    t1 = t1
    t2 = t2
    d1 = d1
    d2 = d2
    d3 = d3
    p1 = p1
    Tasks = {t1, t2}
    Deps = {d1, d2, d3}
    Prompts = {p1}
    MaxAttempts = 3
    Threshold = 1
    Cooldown = 1
    MaxPieces = 1
    MaxLeaks = 1
    Faults = {"retryable", "fatal", "broken", "gone", "store", "index"}
SYMMETRY Symmetry
INVARIANTS
    TypeOK
    LoadNotUnderstated
    AttemptsDistinct
    NoEarlyGiveUp
    OneVoice
    DoneMeansWhole
    CacheHoldsWhole
    AnswersAccounted
    FailoversAccounted
    GaugeIsLoad
PROPERTIES
    OpenCircuitIsLastResort
