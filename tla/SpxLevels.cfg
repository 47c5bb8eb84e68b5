CONSTANTS
    CoordinateLimit = 99
    CurveBackend = "Builtin"
    KeyWidth = 3
    PageEntries = 3
    CellSpan = 64
    CellBias = 16
    SpxEntries = 12
    Layers <- TwoLevelTrees
SPECIFICATION QuerySpec
INVARIANTS
    SpatialCandidatesComplete
