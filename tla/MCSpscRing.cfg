SPECIFICATION FairSpec
CONSTANTS
    Depth = 3
    Message = {m1, m2}
    None = None
    Torn = Torn
INVARIANTS
    SlotOwnership
    PeekIsReliable
PROPERTIES
    RefinesFifo
    EveryMessageIsTaken
