SPECIFICATION Spec
CONSTANTS
    Threads = {1, 2}
    Program <- MCDual
    Adjacent <- MCDualPairs
    Interrupts = FALSE
    InterruptThread = 1
    IrqLevels = {FALSE}
INVARIANTS
    LiChain
PROPERTIES
    SkippedSigFollowsCond
