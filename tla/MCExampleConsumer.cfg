SPECIFICATION ConsumerSpec
CONSTANTS
    contract = contract
    None = None
    Accounts = {contract}
    SubIds <- MCSubIds
    CreditChoices = {2}
    FrequencyChoices = {0, 2}
    MaxFrequency = 2
    MetadataSizes = {0}
    FixedSize = 1
    BlockNumberSize = 1
    SDMultiplier = 0
    MaxSubscriptions = 2
    MaxTerminatableSubs = 1
    ExistentialDeposit = 1
    Endowment = 20
    Fee = 4
    U64Max = 1000
    TierStart <- MCTierStart
    TierDiscount <- MCTierDiscount
    MaxHistory = 2
    LastTimestamp = 3
    LastRound = 3
    QueueLimit = 2
INVARIANTS
    ConsumerTypeOK
    HistoryInOrder
    NoneForgotten
