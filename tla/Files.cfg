SPECIFICATION FilesSpec
CONSTANTS
    KVFS_MAX_PATH_PARTS = 3
    KFD_MAX_COUNT = 2
    Procs = {"shell", "user"}
    Images <- MkinitrdImages
    HEADER = 2
    HeapSizes = {4, 13}
    Paths <- FewPaths
    MaxSize = 3
    MaxCalls = 4
    MaxWithin = 2
INVARIANTS
    FilesTypeOK
    TreeSound
    PositionsInFile
    ShellTableClean
PROPERTIES
    LeaksKnown
    FaultExplained
    ImplementsTree
