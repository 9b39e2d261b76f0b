SPECIFICATION FairSpec
CONSTANTS
    s1 = s1
    s2 = s2
    alice = alice
    bob = bob
    e1 = e1
    e2 = e2
    Session = {s1, s2}
    Mailbox = {alice}
    Envelope = {e1, e2}
    NoMailbox = NoMailbox
    NoEnvelope = NoEnvelope
    Recipient <- MCRecipient
    Size <- MCSize
    QueueTTL = 1
    ChallengeTTL = 1
    MaxMessageBytes = 2
    MaxQueuedMessages = 2
    MaxQueuedBytes = 2
    StoreMayFail = TRUE
    Durable = TRUE
    Slow = {s2}
    MaxTime = 1
    MaxSubscribes <- MCRoles
INVARIANTS
    QueueWithinLimits
PROPERTIES
    HandlersReturn
    DeadSubscribersLeave
    StoredReachesSubscriber
CHECK_DEADLOCK FALSE
