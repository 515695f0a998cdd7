\* A session with a v1.0 remote, microphone on demand.
CONSTANTS
    StreamIds = {0, 1, 2}
    SeqMod = 3
    AudioCap = 2
    FrameTimeout = 3
    Keepalive = 2
    OnDemand = TRUE
    V10 = TRUE
SPECIFICATION FairSpec
INVARIANTS TypeOK StreamScoped FrameTimerMeasuresSilence
PROPERTIES ControlSpec OpeningResolves ParkedResumes
CHECK_DEADLOCK FALSE
