SPECIFICATION Spec
CONSTANTS
    F = F
    A = A
    B = B
    r1 = r1
    r2 = r2
    r3 = r3
    c1 = c1
    oX = oX
    oF = oF
    oA = oA
    oS = oS
    oB = oB
    hdr1 = hdr1
    hdr2 = hdr2
    alt2 = alt2
    alt3 = alt3
    receive = receive
    change = change
    NoTx = NoTx
    NotOurs = NotOurs
    NoHeader = NoHeader
    TxIds <- TwoTxs
    Addrs <- MCAddrs
    OutPoints <- MCOutPoints
    TxIns <- MCTxIns
    Creator <- MCCreator
    Owner <- MCOwner
    Chains = {receive, change}
    ChainAddrs <- TwoChains
    GapLimit <- TwoGaps
    Headers <- OneBlock
    HeaderHeight <- MCHeaderHeight
    BlockTxs <- MCBlockTxs
    Branch <- MCBranch
    Heights = {0, 1}
    Procs = {p1}
    MaxFailovers = 0
    MaxRestarts = 0
    MaxJobs = 2
    MaxLost = 1

    
PROPERTY
    IndexSpec
CHECK_DEADLOCK FALSE
