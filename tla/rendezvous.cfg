SPECIFICATION FairSpec
CONSTANTS
    x1 = x1
    x2 = x2
    y1 = y1
    z1 = z1
    alice = alice
    bob = bob
    carol = carol
    AccountID = {alice, bob, carol}
    AccountOf <- MCAccountOf
    NoParty = NoParty
    PayloadLifetime = 2
    MaxRendezvousPayloads = 2
    Party = {x1, x2, y1}
    SlotMayBeEmptied = TRUE
    RequestsMayFail = TRUE
    MaxTime = 2
PROPERTIES
    LivePayloadsStay
    BothSidesMeet
CHECK_DEADLOCK FALSE
