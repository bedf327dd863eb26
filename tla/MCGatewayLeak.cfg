\* Expected to fail: the gauge of in-flight requests after a client leaves a stream.
SPECIFICATION Safety
CONSTANTS
    None = None
    t1 = t1
    p1 = p1
    Tasks = {t1}
    Deps <- DefaultDeps
    Prompts = {p1}
    MaxAttempts <- DefaultAttempts
    Threshold = 1
    Cooldown = 1
    MaxPieces = 1
    MaxLeaks = 1
    Faults = {"gone"}
INVARIANT
    InFlightExact
