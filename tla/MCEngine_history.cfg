\* Structure: strokes and layers under every order of edits, undos and redos.
CONSTANTS
    UpdateIndexes = {}
    LayerProps = {"props"}
    DefaultProps = "props"
    MaxStrokes = 2
    MaxLayers = 3
    MaxSamples = 1
    MaxHistory = 4
SPECIFICATION AuditSpec
INVARIANTS
    TypeOK
    LayerIdsUnique
    ActiveLayerExists
    NoStrokeTwice
    StrokeTargetExists
    NeverPanics
    HistoryApplies
    PreviewIsCommit
    HistoryCoversVersions
    StrokesStayOnTheirLayer
    ReloadKeepsDocument
    LoadedIdsAreFresh
PROPERTY
    ImplementsTimeline
