SPECIFICATION Spec
CONSTANTS
    Account = {acct1, acct2}
    AccountKey = {ak1, ak2}
    Mailbox = {laptop, phone}
    Key = {k1, k2}
    Request = {r1, r2}
    NoAccount = NoAccount
    NoKey = NoKey
    NoEntry = NoEntry
SYMMETRY MCSymmetry
INVARIANTS
    OwnershipMirrorsDirectory
PROPERTIES
    NeverChangesHands
CHECK_DEADLOCK FALSE
