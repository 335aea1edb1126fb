\* Any stage may stop first, and the pipeline is executed twice.
SPECIFICATION FairSpec
CONSTANTS
    Replicas <- Replicas1211
    BufferSize = 1
    Limits <- AnyStops
    MaxRuns = 2
INVARIANTS
    Flushed
    CanceledInTurn
PROPERTIES
    ImplementsStream
    Termination
\* A mutant that gets stuck is a violation of Termination, not a deadlock.
CHECK_DEADLOCK FALSE
