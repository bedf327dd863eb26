\* Liveness and refinement, with the faults that no call leaks under: two
\* handlers, two deployments, a threshold of two, no symmetry.
SPECIFICATION Spec
CONSTANTS
    None = None
    t1 = t1
    t2 = t2
    p1 = p1
    Tasks = {t1, t2}
    Deps <- DefaultDeps
    Prompts = {p1}
    MaxAttempts <- DefaultAttempts
    Threshold = 2
    Cooldown = 1
    MaxPieces = 1
    MaxLeaks = 0
    Faults = {"retryable", "fatal", "store", "index"}
INVARIANTS
    InFlightExact
PROPERTIES
    EveryRequestAnswered
    ImplementsFailover
