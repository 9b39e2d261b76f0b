SPECIFICATION Spec
CONSTANTS
    ann = ann
    ben = ben
    cat = cat
    Account = {ann, ben, cat}
    Contacts <- MCContacts
    Message = {"m"}
    Cap = 2
    MaxAge = 1
    MaxTime = 3
    MaxSyncs = 1
    MaxFaults = 1
INVARIANTS
    MembershipIsSound
    HistoryIsSound
CHECK_DEADLOCK FALSE
