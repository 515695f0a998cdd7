\* Remotes of both versions, with notifications that overtake each other.
CONSTANTS
    WireVersions = {4, 256, 257}
    CodecBits = {1, 2, 3, 4}
    StartIndexes = {88}
    FirstSeq = 65535
    PayloadBytes = {127}
    PayloadLen = 2
    Gain = 10
    MaxStreams = 2
    MaxFrames = 3
    MaxSyncs = 2
    MaxInFlight = 2
SPECIFICATION Spec
INVARIANTS
    AudioTypeOK NegotiationAgrees FramesAreTrue 
    LowpassIsTriangle DeclipCalms GainKeepsOrder
CHECK_DEADLOCK FALSE
