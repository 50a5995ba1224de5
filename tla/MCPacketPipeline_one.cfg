CONSTANTS
    w1 = w1
    w2 = w2
    Workers <- OneWorker
    CapturePackets <- CorrelationFrames
    Keys = {259}
    Addrs = {1, 2}
    Refs = {1, 2}
    MaxRegs = 2
    CleanupInterval = 1
    RequestMaxAge = 1
    MaxPackets = 4
    MaxTs = 1
    MaxClock = 2
    RollInterval = 0
SPECIFICATION Spec
INVARIANT TypeOK
INVARIANT ModbusBaseCorrect
INVARIANT S7ResponseEmitted
CHECK_DEADLOCK FALSE
