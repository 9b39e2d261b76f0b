SPECIFICATION Spec
CONSTANTS
    s1 = s1
    s2 = s2
    alice = alice
    bob = bob
    e1 = e1
    e2 = e2
    Session = {s1, s2}
    Mailbox = {alice, bob}
    Envelope = {e1, e2}
    NoMailbox = NoMailbox
    NoEnvelope = NoEnvelope
    Recipient <- MCRecipient
    Size <- MCSize
    QueueTTL = 1
    ChallengeTTL = 1
    MaxMessageBytes = 2
    MaxQueuedMessages = 2
    MaxQueuedBytes = 3
    StoreMayFail = TRUE
    Durable = TRUE
    Slow = {}
    MaxTime = 1
    MaxSubscribes <- MCTwice
INVARIANTS
    AckedIsAccountedFor
    StoredOrderIsKept
    DeliveredToGrantedOnly
    NoDuplicateDelivery
    DeliveredIsNotRetained
PROPERTIES
    KeepsCustody
CHECK_DEADLOCK FALSE
