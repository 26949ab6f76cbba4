\* Two push clients, a microphone and two monitors, up to three codecs.
CONSTANTS
    Clients = {c1, c2}
    Sources = {mic, m1, m2}
    Monitors = {m1, m2}
    None = None
    HasPactl = TRUE
    MaxCodecs = 3
SPECIFICATION Spec
SYMMETRY Symmetry
INVARIANTS
    
    SameSource
    MicrophoneOnlyIfAlone
    RefusedOnlyIfLost
    OpusFirst
CHECK_DEADLOCK FALSE
