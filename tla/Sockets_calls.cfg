SPECIFICATION Spec
CONSTANTS
    Layout <- Layout3
    Bytes = 3
    Priorities = {0}
    MaxFrames = 3
    MaxOps = 5
INVARIANTS
    BoundAgree
    JoinCount
CHECK_DEADLOCK FALSE
