SPECIFICATION EncoderSpec
CONSTANTS
    IdBits = 7
    MaxFps = 32
    InitFps = 16
    MaxFrame = 5
    MaxFlight = 2
INVARIANTS EncoderInv
CHECK_DEADLOCK FALSE
