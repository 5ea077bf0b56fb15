SPECIFICATION NetSpec
CONSTANTS
    TxSlots = {0, 1}
    RxSlots <- MCRxSlots
    GENERATIONS = 8
    QUEUE_SIZE = 2
    INDEX_SPACE = 8
    OUTSTANDING = 2
    TX_RING_COUNT = 4
    RX_RING_COUNT = 4
    TX_INDEX_SPACE = 8
    RX_INDEX_SPACE = 8
    MAX_FAILURES = 0
    MAX_RECOVERIES = 1
    MAX_EVENTS <- ThreeEvents
    PAST_LAP = TRUE
INVARIANT OwnershipEnded
CHECK_DEADLOCK FALSE
