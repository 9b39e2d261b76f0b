SPECIFICATION Spec
CONSTANTS
    note = note
    photo = photo
    memo = memo
    Text = {note}
    File = {photo, memo}
    Chunks <- MCChunks
    Fading = {photo}
    MaxPending = 1
    Swept = {"B"}
    Failing = {"A", "B"}
    MaxMessages = 2
    MaxFaults = 1
    MaxCopies = 1
INVARIANTS
    SavedAtMostOnce
    NothingVanishes
    RecordedFilesAreWhole
    DeliveredWasTaken
PROPERTIES
    TextsSettle
    ExpiredLeavesDisk
CHECK_DEADLOCK FALSE
