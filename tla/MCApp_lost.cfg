SPECIFICATION Spec
CONSTANTS
    Fingers = {f1}
    Pens = {p1}
    LeftButton = left
    MaxStrokes = 3
    MaxPointers = 3
INVARIANT NoStrokeLost
