\* Layer attributes and revised samples across undo and redo.
CONSTANTS
    UpdateIndexes = {1}
    LayerProps = {"p0", "p1"}
    DefaultProps = "p0"
    MaxStrokes = 2
    MaxLayers = 2
    MaxSamples = 2
    MaxHistory = 3
SPECIFICATION AuditSpec
INVARIANTS
    PropsSurviveUndo
    RevisionsSurviveUndo
