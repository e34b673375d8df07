SPECIFICATION PmmSpec
CONSTANTS
    PAGE = 4
    WORD = 64
    MIN_FREE = 8
    EARLY_HEAP = 8
    Maps <- CleanMaps
    MaxCount = 3
INVARIANTS
    LiveBlocksExclusive
    FramesConserved
    ScanIsFirstFit
