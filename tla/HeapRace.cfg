SPECIFICATION HeapSpec
CONSTANTS
    PAGE = 8
    WORD = 64
    MIN_FREE = 8
    EARLY_HEAP = 8
    Maps <- OneMap
    MaxCount = 4
    BASE = 8
    LIMIT = 32
    HDR = 3
    ALIGN = 2
    Threads = {shell}
    Syscalls = {sys}
    Sizes = {3, 5}
INVARIANT
    TiledUnlessClash
