SPECIFICATION FairSpec
CONSTANTS
    NoTx = NoTx
    Nonces = {0}
    Recipients = {"other"}
    Amounts = {0}
    Funds = 1
    Fee = 1
    IsErc20 = FALSE
    NodeLags = FALSE
    Outcomes = {TRUE}
    Complete = 2
    Workers = {w1}
    MaxHeight = 2
    MaxTroubles = 1
PROPERTIES
    OutgoingSettle
    NobodyWaits
CHECK_DEADLOCK FALSE
