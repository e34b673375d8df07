SPECIFICATION HeapFairSpec
CONSTANTS
    PAGE = 8
    WORD = 64
    MIN_FREE = 8
    EARLY_HEAP = 8
    Maps <- HeapMaps
    MaxCount = 4
    BASE = 8
    LIMIT = 40
    HDR = 3
    ALIGN = 2
    Threads = {shell}
    Syscalls = {}
    Sizes = {0, 3, 5, 9, 30}
INVARIANTS
    HeapTypeOK
    HeapBacked
    BlocksExclusive
PROPERTY
    CallsEnd
