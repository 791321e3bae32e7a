SPECIFICATION Spec
CONSTANTS
    Threads = {1}
    Program <- MCIrq
    Adjacent <- MCIrqPairs
    Interrupts = TRUE
    InterruptThread = 1
    IrqLevels = {FALSE, TRUE}
INVARIANTS
    InterruptSavesFlags
PROPERTIES
    InterruptIsEntered
