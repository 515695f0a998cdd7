\* A notification stream ends before the disconnection is reported.
CONSTANTS
    StreamIds = {0}
    SeqMod = 1
    AudioCap = 1
    FrameTimeout = 1
    Keepalive = 1
    OnDemand = TRUE
    V10 = TRUE
SPECIFICATION Spec
INVARIANT EndedStreamsAreSurvived
CHECK_DEADLOCK FALSE
