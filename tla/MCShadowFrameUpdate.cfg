SPECIFICATION FrameUpdateSpec
CONSTANTS
    Client = {c1, c2}
    Width = {1, 2}
    SubRect = {1, 2}
    GfxModes = {"wanted"}
    MaxRefresh = 1
SYMMETRY ClientSymmetry
INVARIANTS FrameUpdateInv NoLostDamage RefusedOnlyByRace
PROPERTIES SurfaceStable
