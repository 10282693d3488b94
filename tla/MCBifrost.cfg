SPECIFICATION FairSpec
CONSTANTS
    Entries = 2
    Reader = {r1}
    Writer = {w1, w2}
    MaxArrivals = 3
    MaxSends = 3
INVARIANTS
    Ownership
    NoFrameTwice
    SoleUserKeepsOrder
PROPERTY
    ReadyIsReceived
CHECK_DEADLOCK FALSE
