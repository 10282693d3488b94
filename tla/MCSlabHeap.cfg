SPECIFICATION FairSpec
CONSTANTS
    Thread = {t1, t2}
    FairThread = {t1}
    PageSize = 4
    ClassSize <- MCClassSize
    ArenaPages = 2
    MaxSlabPages = 2
    Attempts = 2
    Layout <- MCLayout
    MaxAllocs = 4
INVARIANTS
    BlocksDisjoint
    BlocksFit
    HeapAccounting
PROPERTIES
    CallsReturn
