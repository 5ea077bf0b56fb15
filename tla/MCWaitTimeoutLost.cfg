CONSTANTS
    N = 4
    EpochMod = 2
    MaxOverwrites = 0
    IdleKinds = {"Yield"}
    MailboxCount = 1
    EndpointCount = 2
    Depth = 1
    GenMax = 2
    HoldersMax = 2
    m1 = m1
    Msgs = {m1}
    Empty = Empty
    MaxStateRefusals = 1
    Smp = FALSE
    Preemption = FALSE
    Receivers = {1, 2}
    IrqWaiters = {}
    Worker = 3
    OnCpu1 = {}
    Calls = {"Recv", "TimedRecv"}
    Ops = {"Send"}
    Ephemeral = FALSE
    MaxArmed = 2
    Timeout = 1
    Cookies = {}
    QueueCap = 0
    Waiters <- MCWaiters
    None <- MCNone
    CapLists <- MCCapLists
SPECIFICATION WaitSpec
INVARIANTS
    TimeoutPending
