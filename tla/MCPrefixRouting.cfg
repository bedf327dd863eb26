\* One call outweighs a warm block but not two; a cap that the longest
\* chain exceeds; loads that the guard tells apart.
SPECIFICATION Spec
CONSTANTS
    None = None
    Replicas <- ThreeReplicas
    Position <- InOrder
    Weight <- Weights
    Cost <- Prices
    Configurations <- EveryStrategy
    Requests <- SharedPrefix
    BlockSize = 2
    ByUrl = FALSE
    TTL = 1
    MaxBlocks = 2
    WeightPrefix = 2
    WeightLoad = 3
    MaxSkew = 1
    Cycle = 6
    Samples = {1, 3}
    MaxLoad = 3
INVARIANTS
    TypeOK
    IndexBounded
    PrefixIsFresher
    OldestFirst
    MatchIsReal
    RotationIsEven
PROPERTIES
    PickedIsWarm
    WarmthYieldsToLoad
    EveryoneIsTried
