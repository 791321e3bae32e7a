SPECIFICATION Spec
CONSTANTS
    Threads = {1}
    Program <- MCTwoConds
    Adjacent <- MCTwoCondsPairs
    Interrupts = FALSE
    InterruptThread = 1
    IrqLevels = {FALSE}
INVARIANTS
    SkippedLeavesNoTrace
