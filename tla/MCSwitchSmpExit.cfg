CONSTANTS
    N = 4
    EpochMod = 2
    MaxOverwrites = 1
    IdleKinds = {"Yield"}
    Stacks = {k1, k2}
    Smp = TRUE
    TaskKinds = {"Yield", "Exit"}
    Marks = FALSE
SPECIFICATION SwitchSpec
INVARIANT NoStackFreedInUse
