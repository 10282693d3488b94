SPECIFICATION FairSpec
CONSTANT MaxTasks = 2
INVARIANTS
    CountIsAlive
    NoBitIsLost
PROPERTIES
    SelfWokenIsPolledAgain
