SPECIFICATION QueueSpec
CONSTANTS
    e1 = e1
    e2 = e2
    e3 = e3
    e4 = e4
    Envelope = {e1, e2, e3, e4}
    Size <- MCSize
    QueueTTL = 2
    MaxMessages = 3
    MaxBytes = 4
    MaxClock = 4
SYMMETRY MCSymmetry
INVARIANTS
    AcceptedIsKept
    NothingComesBack
CHECK_DEADLOCK FALSE
