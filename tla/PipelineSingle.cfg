SPECIFICATION Spec
CONSTANTS
    Threads = {1}
    Program <- MCAll
    Adjacent <- MCAllPairs
    Interrupts = FALSE
    InterruptThread = 1
    IrqLevels = {FALSE, TRUE}
INVARIANTS
    OperandsCurrent
    CondSeesFlags
    SkipIsExact
    SkippedLeavesNoTrace
    AccessOnce
    StallIsLongEnough
