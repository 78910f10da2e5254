SPECIFICATION QuotedSpec
CONSTANTS
    alice = alice
    sub1 = sub1
    sub2 = sub2
    Accounts = {alice}
    SubIds = {sub1, sub2}
    CreditChoices = {0, 3}
    FrequencyChoices = {2}
    MaxFrequency = 2
    MetadataSizes = {0}
    FixedSize = 1
    BlockNumberSize = 1
    SDMultiplier = 0
    MaxSubscriptions = 2
    MaxTerminatableSubs = 1
    ExistentialDeposit = 1
    Endowment = 13
    Fee = 4
    U64Max = 1000
    TierStart <- MCTierStart
    TierDiscount <- MCTierDiscount

    
PROPERTIES
    FinalizedAreRemoved
    SubscriptionsEnd
    
