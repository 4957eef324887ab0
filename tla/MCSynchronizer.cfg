SPECIFICATION Spec
CONSTANTS
    Tasks = {t1, t2, t3}
    Waiters = {w1, w2}
    MaxChans = 3
INVARIANT
    WaitIsRight
PROPERTY
    WaitersReturn
CHECK_DEADLOCK FALSE
