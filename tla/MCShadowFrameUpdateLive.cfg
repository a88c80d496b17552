SPECIFICATION FairFrameUpdateSpec
CONSTANTS
    Client = {c1}
    Width = {2, 3}
    SubRect = {1, 2, 3}
    GfxModes = {"off", "wanted"}
    MaxRefresh = 2
PROPERTIES DamageIsSent
