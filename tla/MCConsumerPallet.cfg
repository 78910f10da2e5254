SPECIFICATION PalletSpec
CONSTANTS
    alice = alice
    bob = bob
    None = None
    Accounts = {alice, bob}
    SubIds <- MCSubIds
    GivenIds <- MCGivenIds
    GivenQuoteRefs <- MCGivenQuoteRefs
    GivenInfoRefs <- MCGivenInfoRefs
    UpdateChoices <- MCUpdates
    CreditChoices = {1}
    FrequencyChoices = {1}
    MaxFrequency = 1
    MetadataSizes = {0}
    FixedSize = 1
    BlockNumberSize = 1
    SDMultiplier = 1
    MaxSubscriptions = 1
    MaxTerminatableSubs = 1
    ExistentialDeposit = 1
    Endowment = 6
    Fee = 4
    U64Max = 1000
    TierStart <- MCTierStart
    TierDiscount <- MCTierDiscount
    PulseCounts = {1, 2}
    LastBlock = 2
    LastRound = 1
    QuestionLimit = 2
    RequestLimit = 1
    AnswerLimit = 1
SYMMETRY Symmetry
INVARIANTS
    PalletTypeOK
    AnswersWereAsked
PROPERTY
    UsersAreIsolated
