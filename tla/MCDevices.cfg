SPECIFICATION MCSpec
CONSTANTS
    PINs = {p1, p2, p3}
    NoPIN = NoPIN
    MaxAttempts = 2
    ChunkNumbers = 2
    Sizes = {1, 2, 3}
    MaxLost = 1
    MaxPlugs = 2
    Ids = {"fw", "boot"}
    Bootloaders = {"boot"}
    None = None
    Polls = 3
    MaxHang = 2
    MaxPlugged = 3
    MaxFailures = 1
    Bundled = {36, 38}
    Shipped = {1, 35, 37, 38}
    MaxInterruptions = 2
    Chans = {c1, c2}
    Nil = Nil
    Inputs = 3
    BatchSize = 2
    MaxPings = 1
    MaxSigned = 1
    MaxTroubles = 1
INVARIANTS
    KeystoreIsReal
    KeystoreHasDevice
    
PROPERTIES
    
    
    UpgradesInOrder
    
\* Nothing may be left to do.
CHECK_DEADLOCK FALSE
