\* Two remotes in auto mode, one of them without a common codec; no link changes
\* during a negotiation.  D-Bus clients call once.
CONSTANTS
    Devices = {d1, d2}
    Vendor = {d1}
    NoCodec = {d2}
    Explicit = NoDevice
    NoDevice = NoDevice
    Rivals = {d1}
    Races = {}
    MaxFaults = 1
    Methods = {"MicToggle"}
    MaxCalls = 1
    d1 = d1
    d2 = d2
SPECIFICATION DaemonFairSpec
INVARIANTS BusTypeOK SignalsAreCurrent StateIsTrue HandlesAreFresh
PROPERTIES ComesBackIfNoticed SignalsAreNews SignalsCatchUp CallsGetThrough
CHECK_DEADLOCK FALSE
