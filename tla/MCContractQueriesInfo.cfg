SPECIFICATION QueriesSpec
CONSTANTS
    contract = contract
    None = None
    Accounts = {contract}
    SubIds <- MCSubIds
    CreditChoices = {2}
    FrequencyChoices = {1}
    MaxFrequency = 1
    MetadataSizes = {0}
    FixedSize = 1
    BlockNumberSize = 1
    SDMultiplier = 1
    MaxSubscriptions = 1
    MaxTerminatableSubs = 1
    ExistentialDeposit = 1
    Endowment = 12
    Fee = 4
    U64Max = 1000
    TierStart <- MCTierStart
    TierDiscount <- MCTierDiscount
    MaxHistory = 1
    LastTimestamp = 3
    LastRound = 2
    QueueLimit = 1
    UpdateCredits = {2}
    PulseCounts = {1}
    InfoMetadata = {0}
INVARIANT
    InfoDecodes
