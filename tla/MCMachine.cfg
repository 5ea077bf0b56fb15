SPECIFICATION MachineSpec
CONSTANTS
    INTERVAL = 3
    COUNT_MAX = 1000
    MAX_COUNT = 14
    N = 4
    Tokens = {0, 1, 2}
    VIRTIO_MMIO_SLOTS = 3
    MAX_RESTARTS = 2
    ADDRESS_MAX = 64
    MAX_CALLS = 4
    GENET_WINDOWS <- SmallWindows
    Descriptors <- SmallDescriptors
    PAGE_SIZE = 2
    ENTRIES_PER_TABLE = 4
    PA_LIMIT = 128
    TLBI_PAGE_LIMIT = 3
    HEAP_SIZE = 16
    FRAME_POOL_BYTES = 4
    IDENTITY_RAM_END = 84
    Builders = {1, 2, 3}
    Entries <- SmallEntries
    FRAMES = 10
    FRAME_BASE = 40
    ASID_COUNT = 3
    MAX_AS_FRAMES = 6
    MAX_TEXT_PAGES = 2
    USER_VA_BASE = 16
    KernelTables <- SmallTables
    KernelBlocks <- SmallBlocks
    PoolPages <- SmallPool
    MAX_CREATES = 4
VIEW MachineView
INVARIANTS
    MapAgrees
    HeapKept
    TlbHitsOwnPages
    FramesKept
    TreeRead
    TicksMeasureTime
    QueueIsFifo
    OneSlotBound
    GenetSound
    RxSlotOnePlace
    PagesFreedQuiet
    TxPageStable
PROPERTIES
    ProgrammedQuiet
CHECK_DEADLOCK FALSE
