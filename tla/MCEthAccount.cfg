SPECIFICATION FairSpec
CONSTANTS
    NoTx = NoTx
    Nonces = {0, 1}
    Recipients = {"other"}
    Amounts = {0}
    Funds = 2
    Fee = 1
    IsErc20 = FALSE
    NodeLags = FALSE
    Outcomes = {TRUE}
    Complete = 2
    Workers = {w1}
    MaxHeight = 2
    MaxTroubles = 1
INVARIANT
    BalanceAccountsForSent
PROPERTY
    LogSpec
CHECK_DEADLOCK FALSE
