SPECIFICATION AccountsSpec
CONSTANTS
    NoKeystore = NoKeystore
    Keystores <- JustOne
    Coins = {"btc", "eth"}
    Tokens = {"t"}
    OnChain <- SomeUsed
    HardLimit = 1
    MaxNumber = 2
    MaxOps = 3
    MaxTroubles = 0
INVARIANTS
    TokensWithParent
CHECK_DEADLOCK FALSE
