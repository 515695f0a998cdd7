\* A v0.4 remote: D-Bus callers and the button, under the fairness of the loop.
CONSTANTS
    StreamIds = {0}
    SeqMod = 1
    AudioCap = 1
    FrameTimeout = 1
    Keepalive = 1
    OnDemand = FALSE
    V10 = FALSE
    MaxRequests = 2
    MaxPresses = 1
    MaxFaults = 1
    MaxInFlight = 1
    Callers = {"MicOpen", "MicClose", "MicToggle"}
    Hasty = TRUE
SPECIFICATION LinkFairSpec
INVARIANTS NoHiddenStream
PROPERTY NoPhantomStream
CHECK_DEADLOCK FALSE
