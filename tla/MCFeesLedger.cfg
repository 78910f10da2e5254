SPECIFICATION LedgerSpec
CONSTANTS
    Fee = 3
    TierStart <- MCTierStart
    TierDiscount <- MCTierDiscount
    U64Max = 4000
    Requests <- MCRequests
INVARIANTS
    LedgerTypeOK
    HoldIsPrice
    SettledExactly
    
CHECK_DEADLOCK FALSE
