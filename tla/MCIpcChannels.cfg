CONSTANTS
    m1 = m1
    m2 = m2
    t1 = t1
    t2 = t2
    None = None
    Empty = Empty
    Forged = Forged
    MailboxCount = 2
    EndpointCount = 4
    Depth = 2
    GenMax = 2
    HoldersMax = 2
    Msgs = {m1, m2}
    Waiters = {t1, t2}
    CapLists <- MCCapLists
    MaxStateRefusals = 1
    MaxChannels = 2
SPECIFICATION ChannelsSpec
INVARIANTS
    MailboxesExact
PROPERTIES
    WaiterHandedOver
    ImplementsChannels
SYMMETRY MCSymmetry
VIEW MCView
