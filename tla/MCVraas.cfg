SPECIFICATION VraasSpec
CONSTANTS
    author1 = author1
    drand = drand
    other = other
    carol = carol
    None = None
    Authors = {author1}
    Keys <- MCKeys
    MaxSigsPerBlock = 1
    Longevity = 2
    LastRound = 2
    PoolLimit = 2
    U64Max = 15
    Callers = {carol}
    Contexts = {carol}
    Selections = {2}
    ValueSize = 1
SYMMETRY Symmetry
INVARIANT
    VraasTypeOK
PROPERTY
    RandomnessFollowsBeacon
