SPECIFICATION FairFabricSpec
CONSTANTS
    MaxFibers = 2
    Result = {7}
    Pending = 99
PROPERTY JoinReturns
