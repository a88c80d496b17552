SPECIFICATION ServerSpec
CONSTANTS
    Client = {c1, c2}
    Msg = {m1}
    Kind = {"alpha", "samples"}
    None = None
    WMQ_QUIT = WMQ_QUIT
    MaxClients = 0
INVARIANTS EncoderIsLive
CHECK_DEADLOCK FALSE
