SPECIFICATION ServerSpec
CONSTANTS
    Client = {c1, c2}
    Msg = {m1, m2}
    Kind = {"alpha", "samples"}
    None = None
    WMQ_QUIT = WMQ_QUIT
    MaxClients = 0
SYMMETRY Symmetry
INVARIANTS IndInv ServerInv RefsCounted
PROPERTIES IsFrameRound
CHECK_DEADLOCK FALSE
