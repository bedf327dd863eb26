\* Five tokens of three units, a lag of one tick, a key that lives two minutes:
\* even the faster of the two rates refills but four tokens in that time.
SPECIFICATION Spec
CONSTANTS
    None = None
    Keys <- TenantKeys
    KeyRpm <- OwnRpm
    DefaultRpm <- ExampleRpm
    Burst <- ExampleBurst
    Token = 3
    Slowest = 1
    Fastest = 2
    Largest = 15
    MaxLag = 1
    Expires = TRUE
    MaxBack = 2
    MaxTime = 13
INVARIANTS
    TypeOK
    LimitHolds
PROPERTIES
    RefusalsAreFree
