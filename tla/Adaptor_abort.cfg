\* The pipeline is stopped at any point, then executed a second time.
SPECIFICATION FairSpec
CONSTANTS
    NPushers = 1
    NPullers = 2
    NChannels = 2
    BufferSize = 1
    ActiveWaiting = FALSE
    NoCopy = TRUE
    ToPush = {4}
    ToPull = {2, 9}
    AllowAbort = TRUE
    MaxRuns = 2
    MaxSpurious = 0
INVARIANTS
    InOrder
PROPERTY Termination
\* The threads stop in the only state where nothing can happen any more;
\* stopping anywhere else is a violation of Termination.
CHECK_DEADLOCK FALSE
