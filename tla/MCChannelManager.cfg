SPECIFICATION FairManagerSpec
CONSTANTS
    Owners = {o1}
    Writers = {w1, w2}
    MaxOpen = 2
    MaxLen = 2
    MaxMessages = 2
    CloseOn = "PeerThread"
INVARIANTS ManagerInv MessagesArriveWhole NoOrphan
PROPERTIES ClientCloseEndsOwner WriteArrives
