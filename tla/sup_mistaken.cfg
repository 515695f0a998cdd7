\* The remote disconnects during negotiation.
CONSTANTS
    Devices = {d1}
    Vendor = {}
    NoCodec = {}
    Explicit = d1
    NoDevice = NoDevice
    Rivals = {}
    Races = {"negotiation"}
    MaxFaults = 0
    d1 = d1
SPECIFICATION Spec
INVARIANT OnlyLockedIsGivenUp
CHECK_DEADLOCK FALSE
