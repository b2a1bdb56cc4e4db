\* A user who draws, undoes, changes brush and layers, faster than the engine.
CONSTANTS
    UpdateIndexes = {}
    LayerProps <- MCLayerProps
    DefaultProps <- MCDefaultProps
    MaxWidth = 2
    DefaultWidth = 1
    Widgets = {"AddLayer", "Remove", "MoveUp", "Top", "Eye", "MaxWidth", "PageBounds", "BrushPanel"}
    Keys = {"Undo", "Redo", "]"}
    Sizes = {1, 2}
    MaxSends = 3
SPECIFICATION Spec
CHECK_DEADLOCK FALSE
INVARIANTS
    PictureIsScene
    BrushIsFrozen
PROPERTIES
    StaleOnlyInFlight
    Settles
    ImplementsEngine
