SPECIFICATION Spec
CONSTANTS
    Recording = {1, 2, 3}
    Routine = {g1, g2}
    Update = update
    Stubborn = {1}
    Playback = {1, 2, 3}
    Speaker = {s1, s2}
SYMMETRY Symmetry
INVARIANTS
    RecordingsAreTracked
    MicrophoneIsShown
    QueuedRecordingExists
    PlaybackIsTracked
CHECK_DEADLOCK FALSE
