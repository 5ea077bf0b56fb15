CONSTANTS
    N = 4
    EpochMod = 2
    MaxOverwrites = 1
    IdleKinds = {"Yield"}
    Agents = {a1, a2}
    IrqAgents = {a1}
    Kernel = kernel
    NoOne = none
SPECIFICATION MCSpec
INVARIANTS
    QueuesExact
    CpusExact
    SessionSound
    RegistersAreOwed
PROPERTIES
    TenancyKept
    ReadyRuns
    ForcedLeaves
