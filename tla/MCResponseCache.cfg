\* Two hosts that share a store, with restarts, failures and expiry.
SPECIFICATION Spec
CONSTANTS
    g1 = g1
    g2 = g2
    t1 = t1
    t2 = t2
    p = p
    q = q
    r = r
    None = None
    Hosts <- TwoHosts
    Tasks <- TwoTasks
    HostOf <- OneEach
    Prompts <- ThreePrompts
    Model <- TwoModels
    Similarity <- Texts
    Threshold = 75
    MaxEntries = 2
    TTL = 1
INVARIANTS
    TypeOK
    StampedeBounded
PROPERTIES
    ImplementsAnswerCache
