SPECIFICATION FairFabricSpec
CONSTANTS
    MaxFibers = 3
    Result = {7, 8, 99}
    Pending = 99
INVARIANTS
    HarvestIsTruthful
PROPERTIES
    JoinCompletes
