\* Ctrl+C during a stream.
CONSTANTS
    Devices = {d1}
    Vendor = {}
    NoCodec = {}
    Explicit = d1
    NoDevice = NoDevice
    Rivals = {}
    Races = {}
    MaxFaults = 0
    d1 = d1
SPECIFICATION Spec
INVARIANT ShutdownClosesMic
CHECK_DEADLOCK FALSE
