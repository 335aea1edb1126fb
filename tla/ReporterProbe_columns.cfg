SPECIFICATION Spec
CONSTANTS
    StageOf <- TwoStages
    Ahead = 1
    FrameCounts = {1, 2}
    BufferSizes = {1, 3}
    MaxWaves = 3
    MaxRuns = 2
INVARIANTS
    Aligned
    ToldOnce
PROPERTY
    Ends
\* No push is defined after one outside a ring, and the executions are bounded.
CHECK_DEADLOCK FALSE
