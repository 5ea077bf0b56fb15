CONSTANTS
    MailboxCount = 1
    EndpointCount = 2
    Depth = 1
    GenMax = 3
    HoldersMax = 7
    Msgs = {}
    Empty = Empty
    Waiters = {}
    None = None
    CapLists <- MCCapLists
    MaxStateRefusals = 1
    TaskCount = 3
    SlotCount = 2
    TaskCapCount = 1
    MaxSpawns = 3
    MaxMints = 1
    NameSet = {"svc"}
    Modes <- MCInterleaved
SPECIFICATION AuthoritySpec
VIEW MCView
INVARIANTS
    HoldsExact
