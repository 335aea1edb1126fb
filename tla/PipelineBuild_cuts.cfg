SPECIFICATION Spec
CONSTANTS
    Programs <- Programs4
    Styles <- AllStyles
    MaxThreads = 2
    Called <- Called4
    MaxOps = 2
INVARIANTS
    StagesInOrder
    Routed
    Restored
    PointersLive
CHECK_DEADLOCK FALSE
