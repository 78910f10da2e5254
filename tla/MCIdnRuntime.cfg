SPECIFICATION RuntimeSpec
CONSTANTS
    alice = alice
    sub1 = sub1
    sub2 = sub2
    author1 = author1
    drand = drand
    Nil = Nil
    Accounts = {alice}
    SubIds = {sub1, sub2}
    CreditChoices = {0, 1}
    FrequencyChoices = {1}
    MaxFrequency = 1
    MetadataSizes = {0}
    FixedSize = 1
    BlockNumberSize = 1
    SDMultiplier = 0
    MaxSubscriptions = 2
    MaxTerminatableSubs = 1
    ExistentialDeposit = 1
    Endowment = 3
    Fee = 1
    U64Max = 15
    TierStart <- MCTierStart
    TierDiscount <- MCTierDiscount
    Authors = {author1}
    Keys = {drand}
    MaxSigsPerBlock = 1
    Longevity = 1
    FinalRound = 2
    PoolLimit = 2
SYMMETRY Symmetry
INVARIANT
    RuntimeTypeOK
PROPERTIES
    ManagerAsSpecified
    RoundsAdvance
