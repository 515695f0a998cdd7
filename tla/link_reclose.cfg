\* Clients come and go twice while MIC_OPEN is unanswered; the mic stays open.
CONSTANTS
    StreamIds = {0}
    SeqMod = 1
    AudioCap = 1
    FrameTimeout = 0
    Keepalive = 0
    OnDemand = TRUE
    V10 = TRUE
    MaxRequests = 4
    MaxPresses = 0
    MaxFaults = 0
    MaxInFlight = 2
    Callers = {}
    Hasty = TRUE
SPECIFICATION LinkSpec
INVARIANTS ClosedWithoutClients
VIEW LinkView
CHECK_DEADLOCK FALSE
