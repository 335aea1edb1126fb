SPECIFICATION Spec
CONSTANTS
    MaxFrames = 4
    MaxOps = 5
INVARIANTS
    InBounds
    FramesExact
CHECK_DEADLOCK FALSE
