\* Two pushers and two pullers, two slots, a spurious wakeup.
SPECIFICATION Spec
CONSTANTS
    NPushers = 2
    NPullers = 2
    NChannels = 2
    BufferSize = 2
    ActiveWaiting = FALSE
    NoCopy = TRUE
    ToPush = {5}
    ToPull = {3, 9}
    AllowAbort = FALSE
    MaxRuns = 1
    MaxSpurious = 1
INVARIANTS
    SlotExclusive
    BuffersDistinct
    NoLostWakeup
    Flushed
PROPERTY ImplementsStream
\* The threads stop in the only state where nothing can happen any more:
\* when all of them have returned.
CHECK_DEADLOCK FALSE
