SPECIFICATION PinningSpec
CONSTANTS
    Cores <- Cores4
    FileResources <- TwoResources
    FileStages <- EachFileStage
    OldStages <- EachOldStage
    UserStages <- EachUserStage
    ReplicableTasks <- OneReplicable
    MaxStages = 2
    MaxThreads = 4
INVARIANTS
    PinnedAsAsked
    LeftFree
PROPERTY
    Answers
CHECK_DEADLOCK FALSE
