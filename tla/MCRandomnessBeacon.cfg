SPECIFICATION Spec
CONSTANTS
    alice = alice
    bob = bob
    drand = drand
    other = other
    None = None
    Authors <- MCAuthors
    Keys <- MCKeys
    MaxSigsPerBlock = 1
    Longevity = 2
    LastRound = 3
    PoolLimit = 2
    U64Max = 15
SYMMETRY Symmetry
INVARIANTS
    TypeOK
    
    FlagMeansProgress
PROPERTY
    ImplementsStream
