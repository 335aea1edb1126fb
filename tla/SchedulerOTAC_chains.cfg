\* Every chain of at most four tasks, and one to four units.
SPECIFICATION FairSpec
CONSTANTS
    Chains <- SmallChains
    Resources = {1, 2, 3, 4}
    Scale = 384
    MaxTasks = 4
    MaxDuration = 4
INVARIANTS Schedulable PeriodBounded NearlyOptimal
PROPERTY Termination
CHECK_DEADLOCK FALSE
