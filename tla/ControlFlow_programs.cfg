SPECIFICATION FairSpec
CONSTANTS
    Programs <- AllPrograms
    Modes <- AllModes
    MaxRounds = 3
    MaxAborts = 1
INVARIANTS
    WalkMeans
    DataFlows
    ReplicaFaithful
PROPERTY Termination
CHECK_DEADLOCK FALSE
