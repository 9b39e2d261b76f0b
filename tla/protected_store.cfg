SPECIFICATION Spec
CONSTANTS
    Passphrase = {"k1", "k2"}
    Proc = {"chat", "ctl"}
    Chat = {"chat"}
    Original <- MCOriginal
    MaxSessions = 4
    MaxFaults = 2
    MaxIdentities = 2
    MaxContacts = 2
INVARIANTS
    UnlockedIsEncrypted
    OnePassphrase
    SealedIsSomething
PROPERTIES
    NeverStartsOver
CHECK_DEADLOCK FALSE
