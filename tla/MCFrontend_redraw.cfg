\* The last frame against the document, as architecture/dataflow.md has them.
CONSTANTS
    UpdateIndexes = {}
    LayerProps <- MCLayerProps
    DefaultProps <- MCDefaultProps
    MaxWidth = 2
    DefaultWidth = 1
    Widgets = {"AddLayer"}
    Keys = {"]"}
    Sizes = {1}
    MaxSends = 2
SPECIFICATION Spec
CHECK_DEADLOCK FALSE
PROPERTY
    LastFrameIsCurrent
