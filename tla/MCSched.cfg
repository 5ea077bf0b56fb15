CONSTANTS
    k1 = k1
    k2 = k2
    k3 = k3
    m1 = m1
    Empty = Empty
SPECIFICATION SchedSpec
INVARIANTS
    StacksKept
    BlockedHasWaker
    IrqDelivered
    CancelTakenByItsReceive
PROPERTIES
    ExitCollected
    WaitsEnd
