SPECIFICATION IndexSpec
CONSTANTS
    F = F
    A = A
    r = r
    c = c
    oX = oX
    oF = oF
    oA = oA
    hdr1 = hdr1
    NoTx = NoTx
    NotOurs = NotOurs
    NoHeader = NoHeader
    TxIds <- MCTxIds
    Addrs <- MCAddrs
    OutPoints <- MCOutPoints
    TxIns <- MCTxIns
    Creator <- MCCreator
    Owner <- MCOwner
    Headers <- MCHeaders
    HeaderHeight <- MCHeaderHeight
    BlockTxs <- MCBlockTxs
    Heights = {0, 1}
    MaxJobs = 2
INVARIANTS
    HistoriesIndexed
    CoinsIndexed
    VerificationSound
    
CHECK_DEADLOCK FALSE
