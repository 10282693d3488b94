SPECIFICATION FairSpec
CONSTANTS
    Kernel = {k}
    Desktop = {d1, d2}
    Epoch = {1, 2}
    MaxPuts = 2
INVARIANTS
    ExclusiveAccess
    DeliveredInOrder
    EpochIsAnnounced
PROPERTY
    KernelIsNotHeld
CHECK_DEADLOCK FALSE
