SPECIFICATION FairSpec
CONSTANTS
    Client = {1, 2}
    First = 1
    Socket = {1, 2, 3, 4}
    EventCap = 1
    MaxFaults = 1
    MaxSends = 1
PROPERTIES
    LossIsNoticed
    IdleUntilSent
    SendsAreAnswered
CHECK_DEADLOCK FALSE
