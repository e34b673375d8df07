SPECIFICATION SpacesSpec
CONSTANTS
    PAGE = 4
    EARLY_START = 9
    KEARLY_SIZE = 19
    BitmapSizes = {1, 3, 7, 20}
    FrameCounts = {1, 5, 17, 60}
    Lows = {9, 19, 100}
    PTES = 15
    KERNEL_HEAP_PAGES = 14
    STACK_PAGES = 2
    Entries <- InImage
    MaxProcs = 3
INVARIANTS
    SpacesTypeOK
    EarlyAreasApart
    FramesExclusive
    UserSeesOnlyItsOwn
    KernelSharedByAll
    FaultMeansNoMemory
PROPERTIES
    FramesLostByGivingUp
    CreationEnds
