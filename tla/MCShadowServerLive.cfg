SPECIFICATION FairServerSpec
CONSTANTS
    Client = {c1, c2}
    Msg = {m1}
    Kind = {"alpha", "samples"}
    None = None
    WMQ_QUIT = WMQ_QUIT
    MaxClients = 2
PROPERTIES RoundsEnd ShutdownCompletes
CHECK_DEADLOCK FALSE
