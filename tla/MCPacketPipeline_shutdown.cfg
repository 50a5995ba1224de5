CONSTANTS
    w1 = w1
    w2 = w2
    Workers <- TwoWorkers
    CapturePackets <- MixedFrames
    Keys = {259}
    Addrs = {1, 2}
    Refs = {1, 2}
    MaxRegs = 2
    CleanupInterval = 1
    RequestMaxAge = 1
    MaxPackets = 2
    MaxTs = 3
    MaxClock = 1
    RollInterval = 2
SPECIFICATION Spec
INVARIANT NothingLostAtShutdown
INVARIANT OutputOrdered
INVARIANT RollingOutputIsSortedStream
PROPERTY Termination
CHECK_DEADLOCK FALSE
