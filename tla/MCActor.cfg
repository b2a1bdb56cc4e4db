\* The engine handle and the actor thread, until the handle is dropped.
CONSTANTS
    Commands = {c1, c2}
    Shutdown = Shutdown
    InitialState <- MCInitialState
    DefaultSnapshot <- MCDefaultSnapshot
    Apply <- MCApply
    Snapshot <- MCSnapshot
    MaxSends = 4
SPECIFICATION BatchSpec
INVARIANTS
    PublishedBetweenBatches
    NothingLeftBehind
PROPERTIES
    ImplementsLog
    DropReturns
