\* Two hosts whose clocks agree, with crashes.
SPECIFICATION Spec
CONSTANTS
    g1 = g1
    g2 = g2
    a = a
    b = b
    c = c
    Hosts <- TwoHosts
    Blocks <- ThreeBlocks
    Chains <- SharedPrefix
    Skew <- SameClock
    TTL = 1
    MaxBlocks = 1
    Crashes = TRUE
    MaxTime = 3
INVARIANTS
    TypeOK
    SizeSettles
    ExcessIsRecent
    KeyOutlivesFields
