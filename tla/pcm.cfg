\* Frames of two samples, a pending buffer of five, PipeWire buffers of three.
CONSTANTS
    AudioCap = 2
    FrameLen = 2
    MaxPending = 5
    Capacity = 3
    Requested = {0, 1, 4}
    MaxFrames = 6
SPECIFICATION FairSpec
INVARIANTS PcmTypeOK SilenceIsLast
PROPERTIES FifoSpec FramesAreHeard TeardownEnds
CHECK_DEADLOCK FALSE
