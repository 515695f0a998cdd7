\* A v1.0 remote: D-Bus callers, the remote's button, and patient clients on demand.
CONSTANTS
    StreamIds = {0, 1}
    SeqMod = 1
    AudioCap = 1
    FrameTimeout = 1
    Keepalive = 1
    OnDemand = TRUE
    V10 = TRUE
    MaxRequests = 3
    MaxPresses = 1
    MaxFaults = 1
    MaxInFlight = 2
    Callers = {"MicOpen", "MicClose", "MicToggle"}
    Hasty = FALSE
SPECIFICATION LinkSpec
INVARIANTS LinkTypeOK NoHiddenStream FollowsClients
VIEW LinkView
CHECK_DEADLOCK FALSE
