SPECIFICATION FairPeerSpec
CONSTANTS
  NChannels = 2
  MaxResize = 2
  MaxInput = 1
  MaxShutdown = 1
  MaxProxied = 2
  Hosts = {"shadow", "windows", "proxy"}
INVARIANTS PeerInv HonestClientKept EveryMessageRead
PROPERTIES Settles
CHECK_DEADLOCK FALSE
