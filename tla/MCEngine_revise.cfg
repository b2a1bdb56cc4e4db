\* Late revisions, as the doc of revise_sample has them.
CONSTANTS
    UpdateIndexes = {1}
    LayerProps = {"p0"}
    DefaultProps = "p0"
    MaxStrokes = 2
    MaxLayers = 2
    MaxSamples = 2
    MaxHistory = 3
SPECIFICATION AuditSpec
INVARIANT
    RevisionsReachCommittedStrokes
