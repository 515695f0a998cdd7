\* The remote connects between the question and the subscription.
CONSTANTS
    Devices = {d1}
    Vendor = {}
    NoCodec = {}
    Explicit = d1
    NoDevice = NoDevice
    Rivals = {}
    Races = {}
    MaxFaults = 0
    d1 = d1
SPECIFICATION FairSpec
PROPERTY ComesBack
CHECK_DEADLOCK FALSE
