SPECIFICATION ServicesSpec
CONSTANTS
    ASID_BITS = 8
    MAX_IRQ = 256
    PAYLOAD_SECTORS = 2
    OP_COND_ATTEMPTS = 2
    MAX_BLOBS = 2
    SectorOf <- SmallSectorOf
    BlobKeys = {2, 3}
    WireValues <- SmallWireValues
    Records <- SmallRecords
    MAX_BOOTS = 3
    Stores <- SmallStores
    Builtin <- SmallBuiltin
    Framebuffers <- SmallFramebuffers
    RngWindow <- SmallRngWindow
    TaskSlots = {1, 2}
    PAGE = 4
    PA_END = 64
    N_CPUS = 2
    MAX_HELD = 8
    MAX_AGENTS = 8
    MAILBOX_DEPTH = 2
    DRAIN_WAIT_TICKS = 2
INVARIANTS
    IrqFindsHandler
    LineKept
    AckedKept
    AgentRunsItsEntry
PROPERTIES
    CardSteps
    BootAndPanicEnd
    WorkIsServed
CHECK_DEADLOCK FALSE
