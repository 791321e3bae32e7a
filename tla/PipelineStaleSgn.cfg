SPECIFICATION Spec
CONSTANTS
    Threads = {1}
    Program <- MCStaleSgn
    Adjacent <- MCStaleSgnPairs
    Interrupts = FALSE
    InterruptThread = 1
    IrqLevels = {FALSE}
INVARIANTS
    SgnIsForNext
