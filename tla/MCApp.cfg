SPECIFICATION Spec
CONSTANTS
    Fingers = {f1}
    Pens = {p1}
    LeftButton = left
    MaxStrokes = 3
    MaxPointers = 3
INVARIANTS
    TypeOK
    EngineDrawsActive
    ActiveNotSuppressed
    EndsAreDelivered
    LiftedStrokesAreFinal
PROPERTY PenIsNotMouse
