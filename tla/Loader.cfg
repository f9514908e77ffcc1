SPECIFICATION Spec
CONSTANTS
    t1 = t1
    t2 = t2
    t3 = t3
    Threads <- ThreeThreads
    Faults = {"video", "cl", "entry"}
    Unpaired = TRUE
    MaxLoads = 3
SYMMETRY Symmetry
INVARIANTS
    TypeOK
    CountsHolders
    NoDebtAtRest
    UsersServed
    FirstOpensServed
    LoadedOnce
