\* Expected to fail: one provider, two deployments, so one attempt.
SPECIFICATION Metered
CONSTANTS
    None = None
    t1 = t1
    p1 = p1
    Tasks = {t1}
    Deps <- OneProviderDeps
    Prompts = {p1}
    MaxAttempts <- OneProviderAttempts
    Threshold = 1
    Cooldown = 1
    MaxPieces = 1
    MaxLeaks = 1
    Faults = {"retryable"}
INVARIANT
    FailoversFollowed
