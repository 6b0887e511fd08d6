SPECIFICATION Spec
CONSTANTS
    Base = 2
    MaxSide = 4
    Vectors = {"zero", "one"}
    Radii = {90, 100, 600}
    MinCells = 2
    MaxCells = 3
    MaxDynamicVertices = 96
    WaterGrid = 4
    WaterLevel = 4
    Names <- MCNames
    RawFiles = {"a.raw", "b.r16"}
    R16Files = {"b.r16"}
    LevelFiles = {"m.sollevel"}
    StoredRaw <- MCStoredRaw
    ScaleText <- MCScaleText
    IslandSide = 3
    FlatHeights = {6}
    Scales = {2}
    IslandScale = 1
    Brushes <- MCBrushes
    Buttons <- MCButtons
    StartSize = 1
    WindowSizes = {2}
    Typed <- MCTyped
    TypedOptions <- MCTypedOptions
    MaxActs = 4
    MaxFaults = 1
INVARIANTS SceneIsConsistent LevelReopens CleanMeansStored FramesFit DrawsEverything
PROPERTIES RawRoundTrip BrushIsLocal
CHECK_DEADLOCK FALSE
