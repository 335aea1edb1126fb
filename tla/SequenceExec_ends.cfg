\* Every way in which the loops end, and two executions in a row.
SPECIFICATION FairSpec
CONSTANTS
    NThreads = 2
    Errors <- AnyErrors
    Ends <- EndlessOrNot
    Waits = {"own", "before"}
    MaxExecs = 2
    MaxErrors = 2
    MaxSignals = 1
INVARIANTS ErrorsReported IterationsExact
PROPERTIES LoopsEnd InterruptStops
