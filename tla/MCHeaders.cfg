SPECIFICATION FairSpec
CONSTANTS
    g = g
    a1 = a1
    a2 = a2
    a3 = a3
    b2 = b2
    b3 = b3
    b4 = b4
    x1 = x1
    w2 = w2
    Zero = Zero
    NoHdr = NoHdr
    Hdrs <- MCHdrs
    Parent <- MCParent
    Sound <- MCSound
    ChainTo <- MCChainTo
    Genesis = g
    CpHeight = 1
    CpHash = a1
    ReorgLimit = 1
    FirstBatch = 1
    Max = 2
    MaxReply = 2
    MaxFaults = 2
    MaxCrashes = 1
    MaxZeroes = 2
INVARIANTS
    ChainConnected
    VerifiedThroughCheckpoint
PROPERTY
    CatchesUp
CHECK_DEADLOCK FALSE
