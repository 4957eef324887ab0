SPECIFICATION AccountsFairSpec
CONSTANTS
    NoKeystore = NoKeystore
    Keystores <- OneSeed
    Coins = {"btc", "eth"}
    Tokens = {"t"}
    OnChain <- SomeUsed
    HardLimit = 1
    MaxNumber = 2
    MaxOps = 1
    MaxTroubles = 1
INVARIANT
    AccountsAreRight
PROPERTY
    EventuallyDiscovered
CHECK_DEADLOCK FALSE
