SPECIFICATION FairSpec
CONSTANTS
    r1 = r1
    r2 = r2
    f1 = f1
    f2 = f2
    None = None
    NoSender = NoSender
    Requests = {r1, r2}
    Fingerprints = {f1, f2}
    Wanted <- MCWanted
    MaxConnects <- MCMaxConnects
    MaxChanges = 2
    MaxCancels = 1
    MaxTimeouts = 1
INVARIANTS
    SendersHaveReceiver
    RightKeystore
PROPERTY
    UsbReturnsInTime
CHECK_DEADLOCK FALSE
