SPECIFICATION NetSpec
CONSTANTS
    TxSlots = {0, 1}
    RxSlots <- MCRxSlots
    GENERATIONS = 8
    QUEUE_SIZE = 2
    INDEX_SPACE = 8
    OUTSTANDING = 2
    TX_RING_COUNT = 4
    RX_RING_COUNT = 4
    TX_INDEX_SPACE = 8
    RX_INDEX_SPACE = 8
    MAX_FAILURES = 1
    MAX_RECOVERIES = 1
    MAX_EVENTS <- TwoEvents
    PAST_LAP = FALSE
INVARIANT RecycleRestoresReceive
CHECK_DEADLOCK FALSE
