SPECIFICATION ProxySpec
CONSTANTS
    Peers = {p1, p2}
    One = p1
    Nobody = Nobody
    MaxData = 2
    MaxReconnects = 2
    MaxEvents = 2
INVARIANTS ProxyInv ForwardedInOrder FallbackKeepsPeer
PROPERTIES EndsAreComplete DataIsForwarded
