\* Three workers, initialized without waiting for them, two rounds.
SPECIFICATION FairSpec
CONSTANTS
    NWorkers = 3
    AsyncInit = TRUE
    MaxRuns = 2
INVARIANTS
    Parked
PROPERTIES
    ImplementsForkJoin
    Termination
\* The owner ends with the destructor; stopping anywhere else is a violation
\* of Termination.
CHECK_DEADLOCK FALSE
