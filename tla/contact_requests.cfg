SPECIFICATION Spec
CONSTANTS
    ann = ann
    ben = ben
    cat = cat
    Account = {ann, ben, cat}
    Asks <- MCAsks
    Verifies <- MCVerifies
    Answers <- MCAnswers
    Cmd = {"cmd"}
    Cli <- MCCli
    Earlier <- MCEarlier
    MaxAsks = 2
    Failing = {ann}
    MaxFaults = 1
    Overlapping = {ann}
CHECK_DEADLOCK FALSE
INVARIANTS
    AcceptedIsImported
    ContactsAreMutual
PROPERTIES
    TrustOnlyRises
